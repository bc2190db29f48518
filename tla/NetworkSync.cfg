\* Internet status, chrony commands and wakes together.
SPECIFICATION SyncFairSpec
CONSTANTS
  SubscribeMayFail = FALSE
  MayStop = FALSE
  ChronyEnabled = TRUE
  Offsets <- SomeOffsets
INVARIANTS
  SyncTypeOK
  NetworkStepIsJustified
PROPERTIES
  WakeCorrects
  OnlineCorrects
  OfflineBootIsOnlined
  CorrectionAdvances
