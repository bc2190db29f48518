\* The touch of the NTP sync monitor is always dispatched: refuted.
SPECIFICATION FairSpec
CONSTANTS
  Sources <- OnlyNtp
  Times = {1000}
  SyncTimes = {1000}
  DrmTimes = {1000}
  DttTimes = {1000}
  FileTimes = {0, 1000}
  PluginsMayFail = TRUE
  ChronyEnabled = TRUE
  IoMayFail = FALSE
  Touchable = {}
  Noise = {}
  MaxQueue = 1
  MaxInotify = 2
  MaxCrashes = 0
PROPERTY NtpSyncIsDispatched
