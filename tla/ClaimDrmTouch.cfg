\* A touch of the drm file triggers the secure time flow: refuted.
SPECIFICATION FairSpec
CONSTANTS
  Sources <- NtpDttDrm
  Times = {1000}
  SyncTimes = {1000}
  DrmTimes = {1000}
  DttTimes = {1000}
  FileTimes = {0, 1000}
  PluginsMayFail = FALSE
  ChronyEnabled = TRUE
  IoMayFail = FALSE
  Touchable = {}
  Noise = {}
  MaxQueue = 2
  MaxInotify = 2
  MaxCrashes = 0
PROPERTY DrmTouchTriggers
