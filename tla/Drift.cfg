\* The time that is saved as secure, and what subscribers believe.
SPECIFICATION Spec
CONSTANTS
  Sources <- NtpDrm
  Times = {1000, 1600, 2300}
  SyncTimes = {1000}
  DrmTimes = {1000, 1600, 2300}
  DttTimes = {1000, 1600, 2300}
  FileTimes = {0, 1000}
  PluginsMayFail = TRUE
  ChronyEnabled = TRUE
  IoMayFail = TRUE
  Touchable = {"ntp"}
  Noise = {}
  MaxQueue = 1
  MaxInotify = 1
  MaxCrashes = 1
INVARIANTS
  SecureTimeIsVouched
  NeverOverstated
