----------------------------- MODULE MCReceiver -----------------------------
(***************************************************************************)
(* Small instances of Receiver.  One motion sensor, one thermostat and one *)
(* heartbeat feature; the windows are scaled down to a second and the      *)
(* smallest TTL that CacheOutlivesWindow allows, to the millisecond:       *)
(* 1000 * TTL = 2000 * Skew + 999 + 2 * MaxClockError + MaxClaimDelay + 1. *)
(* The instants are those at which something ends or begins: with a clock  *)
(* off by 200 ms a notification of second 3 is fresh from 1800 to 5199, a  *)
(* claim of it ends by 5799, and a key set at 1800 expires at 5800.        *)
(***************************************************************************)
EXTENDS Receiver, TLC

MCLowerHexNonces == {"nonce1", "nonce2"}
MCAlarmTypeNames == {"motion", "mode", "thermostat-mode-error"}
MCUuidV4 == {"token1", "token2", "dev1", "dev2", "motion1", "mode1", "online1"}

Doc(token, feature) == [ api_token |-> token, feature_name |-> feature ]

Motion1 == << "dev1", "motion1" >>
Mode1 == << "dev1", "mode1" >>
Online1 == << "dev2", "online1" >>

(* Signed with token over the fields and the feature name.                 *)
Signed(sensor, token, feature, timestamp, nonce, payload) ==
  LET unsigned ==
        [ device_uuid |-> sensor[1], feature_uuid |-> sensor[2],
          timestamp |-> timestamp, nonce |-> nonce, payload |-> payload,
          signature |-> [ hex |-> TRUE, key |-> "", text |-> << >> ] ]
  IN  [ unsigned EXCEPT !.signature.key = token,
                        !.signature.text = build_signed_mqtt_payload(unsigned, feature) ]

AlarmTopic(sensor, alarm_type) == << "alarms", sensor[1], "features", sensor[2], alarm_type >>
OnlineTopic(sensor) == << "online", sensor[1], "features", sensor[2] >>

OnTopic(topic, note) == [ topic |-> topic, encoding |-> "notification", note |-> note ]

-----------------------------------------------------------------------------
Motion == Signed(Motion1, "token1", "motion", 3, "nonce1", 1)
Again == Signed(Motion1, "token1", "motion", 6, "nonce1", 1)
Ancient == Signed(Motion1, "token1", "motion", -4, "nonce1", 1)
Forged == [Motion EXCEPT !.timestamp = 4]
Resold == Signed(Motion1, "token2", "motion", 4, "nonce1", 1)
Still == Signed(Motion1, "token1", "motion", 4, "nonce1", 0)
ModeError == Signed(Mode1, "token1", "mode", 4, "nonce1", -1)
Plain == Signed(Motion1, "plain", "motion", 4, "nonce1", 1)
PlainMode == Signed(Mode1, "plain", "mode", 4, "nonce1", -1)
Heartbeat1 == Signed(Online1, "token1", "online", 3, "nonce1", NoValue)

GenuineMotion == OnTopic(AlarmTopic(Motion1, "motion"), Motion)
GenuineHeartbeat == OnTopic(OnlineTopic(Online1), Heartbeat1)
ForgedMotion == OnTopic(AlarmTopic(Motion1, "motion"), Forged)
ResoldMotion == OnTopic(AlarmTopic(Motion1, "motion"), Resold)
PlainMotion == OnTopic(AlarmTopic(Motion1, "motion"), Plain)
StillMotion == OnTopic(AlarmTopic(Motion1, "motion"), Still)

(* What the first checks must stop, each differing in one thing from what  *)
(* they let through; the last one is signed.                               *)
Malformed ==
  { [GenuineMotion EXCEPT !.encoding = "too large"],
    [GenuineMotion EXCEPT !.encoding = "not json"],
    [GenuineMotion EXCEPT !.topic = AlarmTopic(Mode1, "motion")],
    [GenuineMotion EXCEPT !.topic = OnlineTopic(Motion1)],
    [GenuineMotion EXCEPT !.topic[5] = "no such alarm"],
    [GenuineMotion EXCEPT !.note.nonce = "NONCE1"],
    [GenuineMotion EXCEPT !.note.signature.hex = FALSE],
    [GenuineMotion EXCEPT !.note.timestamp = 0],
    OnTopic(AlarmTopic(Motion1, "motion"), Ancient) }

(* Alarms of a sensor that changes hands, to an owner whose token is no    *)
(* UUID among them.                                                        *)
AlarmMessages ==
  { GenuineMotion, ForgedMotion, ResoldMotion, StillMotion, PlainMotion } \cup Malformed
AlarmRegistrations ==
  Motion1 :> { Doc("token1", "motion"), Doc("token2", "motion"), Doc("plain", "motion"), NoAuth }

(* One notification that fits two topics of a sensor that may be revoked,  *)
(* and one of an owner whose token is no UUID.                             *)
ModeMessages ==
  { OnTopic(AlarmTopic(Mode1, "thermostat-mode-error"), ModeError),
    OnTopic(AlarmTopic(Mode1, "mode"), ModeError),
    OnTopic(AlarmTopic(Mode1, "mode"), PlainMode) }
ModeRegistrations == Mode1 :> { Doc("token1", "mode"), Doc("plain", "mode"), NoAuth }

(* A device that uses its nonce for a second alarm.                        *)
ReuseMessages == { GenuineMotion, OnTopic(AlarmTopic(Motion1, "motion"), Again) }
ReuseRegistrations == Motion1 :> { Doc("token1", "motion") }

(* An alarm and a heartbeat.                                               *)
MixedMessages == { GenuineMotion, GenuineHeartbeat }
MixedRegistrations ==
  Online1 :> { Doc("token1", "online") } @@ Motion1 :> { Doc("token1", "motion") }

-----------------------------------------------------------------------------
EarlyOrLate == { -MaxClockError, MaxClockError }
Exact == { 0 }

AlarmInstants == { 1800, 3799, 5199, 5799 }
ModeInstants == { 2800, 6199, 6799 }
ReuseInstants == { 1800, 2400, 5200, 5800 }
MixedInstants == { 3999, 4999 }

Interchangeable == Permutations(Instances)
=============================================================================
