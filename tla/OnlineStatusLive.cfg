SPECIFICATION FairSpec
CONSTANTS
  Instances = {r1}
  Sensors = {s1}
  ApiTokens = {"token1"}
  FcmTokens = {"fcm1", "fcm2"}
  ReadsMayFail = TRUE
  MayBeRemoved = TRUE
  Instants = {1, 2}
  ClockErrors = {0}
  MaxClockError = 0
PROPERTY IncompleteRepaired
PROPERTY FcmTokenFollows
