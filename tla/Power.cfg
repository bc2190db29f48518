\* The power controller subscriber, destructor included.
SPECIFICATION PowerFairSpec
CONSTANTS
  RegisterMayFail = TRUE
  MayDestroy = TRUE
  MaxPwrQueue = 2
INVARIANTS
  TypeOK
PROPERTIES
  ReportsLikeIarm
  WakeNeedsSleep
  NextChangeWakes
