\* The loop from handlers to files to events to handlers dies out, a restarted
\* process finds its way back, and the timer brings a device without DTT to a
\* GOOD and to a SECURE time.
SPECIFICATION ThreadSpec
CONSTANTS
  Sources <- SttRegularDrm
  Times = {1000}
  SyncTimes = {1000}
  DrmTimes = {1000}
  DttTimes = {1000}
  FileTimes = {0, 1000}
  PluginsMayFail = FALSE
  ChronyEnabled = TRUE
  IoMayFail = FALSE
  Touchable = {"drm"}
  Noise = {}
  MaxQueue = 2
  MaxInotify = 2
  MaxCrashes = 1
PROPERTIES
  Settles
  RestartRecovers
  
  FallbackIsReached
