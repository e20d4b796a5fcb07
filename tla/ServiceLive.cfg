SPECIFICATION FairServiceSpec
CONSTANTS
  Instances = {r1}
  Task = r1
  StreamLimit = 2
  MaxHandling = 1000
  Messages <- OnlineMessages
  Registrations <- OnlineRegistrations
  FcmTokens = {"fcm1"}
  ReadsMayFail = TRUE
  NoMessage = NoMessage
  NoValue = NoValue
  LowerHexNonces <- MCLowerHexNonces
  AlarmTypeNames <- MCAlarmTypeNames
  UuidV4 <- MCUuidV4
  SIGNED_MESSAGE_MAX_SKEW_SECS = 0
  SIGNED_REPLAY_CACHE_TTL_SECS = 2
  ALARM_RETENTION_SECONDS = 1
  I64 = 8
  MaxClockError = 0
  ClockErrors <- Exact
  MaxClaimDelay = 1000
  Instants <- MixedInstants
INVARIANT OnlineJustified
PROPERTY RunsAsSession
PROPERTY NoneStarves
