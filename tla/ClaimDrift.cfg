\* The drift check has two sides: refuted.
SPECIFICATION Spec
CONSTANTS
  Sources <- NtpDrm
  Times = {1000, 1600, 2300}
  SyncTimes = {1000}
  DrmTimes = {1000, 1600, 2300}
  DttTimes = {1000, 1600, 2300}
  FileTimes = {0, 1000}
  PluginsMayFail = TRUE
  ChronyEnabled = FALSE
  IoMayFail = FALSE
  Touchable = {"ntp", "drm"}
  Noise = {}
  MaxQueue = 1
  MaxInotify = 1
  MaxCrashes = 0
INVARIANT DriftIsTwoSided
