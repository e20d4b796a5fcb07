SPECIFICATION Spec
CONSTANTS
  Instances = {r1}
  Messages <- AlarmMessages
  Registrations <- AlarmRegistrations
  FcmTokens = {"fcm1"}
  ReadsMayFail = TRUE
  NoMessage = NoMessage
  NoValue = NoValue
  LowerHexNonces <- MCLowerHexNonces
  AlarmTypeNames <- MCAlarmTypeNames
  UuidV4 <- MCUuidV4
  SIGNED_MESSAGE_MAX_SKEW_SECS = 1
  SIGNED_REPLAY_CACHE_TTL_SECS = 4
  ALARM_RETENTION_SECONDS = 2
  I64 = 8
  MaxClockError = 200
  ClockErrors <- EarlyOrLate
  MaxClaimDelay = 600
  Instants <- AlarmInstants
INVARIANT TypeOK
INVARIANT NonceUsedByGenuine
INVARIANT AlarmJustified
INVARIANT AlarmTimely
INVARIANT PendingResolves
