SPECIFICATION Spec
CONSTANTS
  Instances = {r1}
  Sensors = {s1, s2}
  ApiTokens = {"token1"}
  FcmTokens = {"fcm1"}
  ReadsMayFail = FALSE
  MayBeRemoved = TRUE
  Instants = {2, 5}
  ClockErrors <- OffByOne
  MaxClockError = 1
INVARIANT TypeOK
INVARIANT CreatedBeforeModified
PROPERTY CreatedAtHistorical
PROPERTY ImplementsPresence
