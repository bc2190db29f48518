\* The whole core on a DTT device: all threads, failures, one restart.
SPECIFICATION Spec
CONSTANTS
  Sources <- NtpDttDrm
  Times = {1000}
  SyncTimes = {0, 1000}
  DrmTimes = {1000}
  DttTimes = {1000}
  FileTimes = {0}
  PluginsMayFail = TRUE
  ChronyEnabled = FALSE
  IoMayFail = TRUE
  Touchable = {"ntp", "drm"}
  Noise = {"ntp"}
  MaxQueue = 2
  MaxInotify = 2
  MaxCrashes = 1
INVARIANTS
  TypeOK
  QualityMatchesState
  HandlerMatchesState
  QualityHasEvidence
  BroadcastIsCurrent
PROPERTIES
  AcquiredTimeIsKept
  ImplementsTimeQuality
  WorkRunsOut
  ReportsAreKept
