\* A last known good time is available on the next boot: refuted.
SPECIFICATION Spec
CONSTANTS
  BuildTime = 1000
  Clocks = {900, 1300, 1900, 2600}
  PowerOn = 5
  WriteMayFail = FALSE
  SettimeMayFail = FALSE
  MaxTime = 4000
PROPERTY LastKnownGoodSurvives
