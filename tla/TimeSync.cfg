\* The saved time under clock steps, kills, power losses, full disks and failing settings.
SPECIFICATION Spec
CONSTANTS
  BuildTime = 1000
  Clocks = {900, 1300, 1900, 2600}
  PowerOn = 5
  WriteMayFail = TRUE
  SettimeMayFail = TRUE
  MaxTime = 4000
INVARIANTS
  TypeOK
  FileIsNotAhead
PROPERTIES
  CurrentTimeIsMonotone
  StartIsNotInThePast
