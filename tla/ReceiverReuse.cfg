SPECIFICATION Spec
CONSTANTS
  Instances = {r1, r2}
  Messages <- ReuseMessages
  Registrations <- ReuseRegistrations
  FcmTokens = {"fcm1"}
  ReadsMayFail = TRUE
  NoMessage = NoMessage
  NoValue = NoValue
  LowerHexNonces <- MCLowerHexNonces
  AlarmTypeNames <- MCAlarmTypeNames
  UuidV4 <- MCUuidV4
  SIGNED_MESSAGE_MAX_SKEW_SECS = 1
  SIGNED_REPLAY_CACHE_TTL_SECS = 4
  ALARM_RETENTION_SECONDS = 5
  I64 = 16
  MaxClockError = 200
  ClockErrors <- EarlyOrLate
  MaxClaimDelay = 600
  Instants <- ReuseInstants
SYMMETRY Interchangeable
PROPERTY EventsApart
