\* The network status source, with failing subscriptions and a shutdown.
SPECIFICATION NetFairSpec
CONSTANTS
  SubscribeMayFail = TRUE
  MayStop = TRUE
INVARIANTS
  NetTypeOK
  UpIsLatched
  NoLostWakeup
PROPERTIES
  ShutdownAdvances
  UpIsServed
  ShutdownCompletes
\* After a shutdown nothing is left to do.
CHECK_DEADLOCK FALSE
