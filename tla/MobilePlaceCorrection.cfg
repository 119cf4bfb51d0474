SPECIFICATION Spec
CONSTANTS
  Installations = {i1}
  Updates = {u1, u2}
  Calls = {c1, c2}
  Day = 2
  Hour = 1
  RateLimit = 2
  MaxTime = 3
PROPERTIES
  CorrectionHolds
CHECK_DEADLOCK FALSE
