SPECIFICATION ServiceSpec
CONSTANTS
  Instances = {r1}
  Task = r1
  StreamLimit = 2
  MaxHandling = 1000
  Messages <- AlarmAndNoise
  Registrations <- AlarmRegistration
  FcmTokens = {"fcm1"}
  ReadsMayFail = TRUE
  NoMessage = NoMessage
  NoValue = NoValue
  LowerHexNonces <- MCLowerHexNonces
  AlarmTypeNames <- MCAlarmTypeNames
  UuidV4 <- MCUuidV4
  SIGNED_MESSAGE_MAX_SKEW_SECS = 1
  SIGNED_REPLAY_CACHE_TTL_SECS = 4
  ALARM_RETENTION_SECONDS = 2
  I64 = 16
  MaxClockError = 0
  ClockErrors <- Exact
  MaxClaimDelay = 1000
  Instants <- ServiceInstants
INVARIANT NothingBehindLoss
INVARIANT WaitBounded
INVARIANT NoHandlerLeft
