\* QueuedIsHandled: refuted.
SPECIFICATION PowerFairSpec
CONSTANTS
  RegisterMayFail = FALSE
  MayDestroy = FALSE
  MaxPwrQueue = 1
PROPERTY QueuedIsHandled
