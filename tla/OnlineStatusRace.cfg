SPECIFICATION Spec
CONSTANTS
  Instances = {r1, r2}
  Sensors = {s1}
  ApiTokens = {"token1"}
  FcmTokens = {"fcm1"}
  ReadsMayFail = TRUE
  MayBeRemoved = FALSE
  Instants = {1, 2, 3}
  ClockErrors = {0}
  MaxClockError = 0
SYMMETRY Interchangeable
INVARIANT HashComplete
