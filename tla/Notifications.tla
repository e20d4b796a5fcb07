--------------------------- MODULE Notifications ---------------------------
(***************************************************************************)
(* The synchronous checks that process_mqtt_message (main.rs) makes of one *)
(* MQTT message, as pure operators.                                        *)
(*                                                                         *)
(* A message is [topic, encoding, note]: the levels of its topic, how its  *)
(* bytes decode, and the Notification the bytes carry when they do.  A     *)
(* notification keeps the field names of models/notification.rs.  Its      *)
(* signature is [hex, key, text]: whether it is written as 64 lowercase    *)
(* hex digits, the key it was computed with, and the text it was computed  *)
(* over (an ideal MAC: equal tags mean equal key and equal text).          *)
(***************************************************************************)
EXTENDS Integers, Sequences

CONSTANTS
  LowerHexNonces,              \* the nonces made of 32 lowercase hex digits
  AlarmTypeNames,              \* the names is_valid_alarm_type accepts
  UuidV4,                      \* the strings that parse as version 4 UUIDs
  SIGNED_MESSAGE_MAX_SKEW_SECS, \* 300 in main.rs
  I64                          \* 2^63: an i64 lies in -I64 .. I64 - 1

ASSUME SkewAssumption ==
  /\ I64 \in Nat
  /\ SIGNED_MESSAGE_MAX_SKEW_SECS \in 0 .. (I64 - 1)

(* Option::None where the code has an optional string: no name is empty.   *)
None == ""

ASSUME NamesAssumption == None \notin AlarmTypeNames

-----------------------------------------------------------------------------
(* Decoding: get_string_payload refuses what is too large or not UTF-8;    *)
(* what it returns must then be the JSON of a Notification.                *)

get_string_payload(m) == m.encoding \notin {"too large", "not utf8"}

ParsesAsNotification(m) == m.encoding = "notification"

(* Topic::new: the two topic forms, with no empty identifier.              *)
IsOnlineTopic(items) ==
  /\ Len(items) = 4
  /\ items[1] = "online"
  /\ items[3] = "features"

IsAlarmTopic(items) ==
  /\ Len(items) = 5
  /\ items[1] = "alarms"
  /\ items[3] = "features"
  /\ items[5] \in AlarmTypeNames

ParsesAsTopic(items) ==
  /\ IsOnlineTopic(items) \/ IsAlarmTopic(items)
  /\ items[2] # "" /\ items[4] # ""

TopicOf(items) ==
  [ family       |-> items[1],
    device_uuid  |-> items[2],
    feature_uuid |-> items[4],
    alarm_type   |-> IF IsAlarmTopic(items) THEN items[5] ELSE None ]

(* Mutant: the sign of the timestamp is not tested.                        *)
EnvelopeOfAnyTime(n) == n.nonce \in LowerHexNonces /\ n.signature.hex

(* validate_signed_envelope.                                               *)
validate_signed_envelope(n) ==
  /\ n.timestamp > 0
  /\ n.nonce \in LowerHexNonces
  /\ n.signature.hex

TopicMatchesNote(m) ==
  /\ TopicOf(m.topic).device_uuid = m.note.device_uuid
  /\ TopicOf(m.topic).feature_uuid = m.note.feature_uuid

(* Everything checked before the first await of process_mqtt_message.      *)
WellFormed(m) ==
  /\ get_string_payload(m)
  /\ ParsesAsNotification(m)
  /\ validate_signed_envelope(m.note)
  /\ ParsesAsTopic(m.topic)
  /\ TopicMatchesNote(m)

-----------------------------------------------------------------------------
(* Checks against the registered sensor document d = [api_token,           *)
(* feature_name]; d.api_token = None when MongoDB has no document for the  *)
(* sensor or its token does not decrypt (find_sensor_auth returns None).   *)

(* Mutant: the online topic is open to every feature.                      *)
TopicFitsAnyOnline(t, feature_name) ==
  \/ t.family = "online"
  \/ t.family = "alarms" /\ t.alarm_type = feature_name

(* alarm_type_for_topic succeeds, for a parsed topic t.                    *)
TopicFitsFeature(t, feature_name) ==
  \/ t.family = "online" /\ feature_name = "online"
  \/ /\ t.family = "alarms"
     /\ \/ t.alarm_type = feature_name
        \/ t.alarm_type = "thermostat-mode-error" /\ feature_name = "mode"

(* The difference of two i64 values, and the opposite of one, as the       *)
(* release build computes them: without a check for overflow.              *)
Wrapped(x) ==
  CASE x >= I64 -> x - 2 * I64
    [] x < -I64 -> x + 2 * I64
    [] OTHER    -> x

Magnitude(x) == IF x < 0 THEN Wrapped(-x) ELSE x

(* The freshness test of verify_mqtt_signature: both ends are included.    *)
Fresh(now, timestamp) == Magnitude(Wrapped(now - timestamp)) <= SIGNED_MESSAGE_MAX_SKEW_SECS

(* build_signed_mqtt_payload: six fields joined by newlines.  The five     *)
(* identifiers hold no newline (they are registered names, hex digits and  *)
(* a number), so the text determines the fields.                           *)
build_signed_mqtt_payload(n, feature_name) ==
  << n.device_uuid, n.feature_uuid, feature_name, n.timestamp, n.nonce, n.payload >>

verify_hmac(secret, message, signature) ==
  /\ signature.hex
  /\ signature.key = secret
  /\ signature.text = message

(* validate_alarm_payload: payload is the number under "value", when there *)
(* is one; an online message (alarm type None) is not checked.             *)
validate_alarm_payload(alarm_type, payload) ==
  /\ alarm_type = "motion" => payload = 1
  /\ alarm_type = "thermostat-mode-error" => payload = -1

(* Signed with the token and the feature name that document d registers.   *)
SignedFor(d, n) ==
  /\ d.api_token # None
  /\ verify_hmac(d.api_token, build_signed_mqtt_payload(n, d.feature_name), n.signature)

(* Mutant: the signature is not checked.                                   *)
AdmitsUnsigned(d, m, now) ==
  /\ TopicFitsFeature(TopicOf(m.topic), d.feature_name)
  /\ Fresh(now, m.note.timestamp)
  /\ validate_alarm_payload(TopicOf(m.topic).alarm_type, m.note.payload)

(* Everything checked between the reply of MongoDB and the nonce claim.    *)
Admits(d, m, now) ==
  /\ TopicFitsFeature(TopicOf(m.topic), d.feature_name)
  /\ Fresh(now, m.note.timestamp)
  /\ SignedFor(d, m.note)
  /\ validate_alarm_payload(TopicOf(m.topic).alarm_type, m.note.payload)

(* The guard that opens both insert_alarm_event and                        *)
(* insert_or_update_online; it runs after the nonce has been claimed.      *)
StorableIds(api_token, n) == {api_token, n.device_uuid, n.feature_uuid} \subseteq UuidV4

-----------------------------------------------------------------------------
(* Redis keys; the formatting is left out, the fields they bind are not.   *)

SensorOf(n) == << n.device_uuid, n.feature_uuid >>

signed_replay_key(n) == << n.device_uuid, n.feature_uuid, n.nonce >>

alarm_event_key(m) ==
  << m.note.device_uuid, m.note.feature_uuid, TopicOf(m.topic).alarm_type, m.note.nonce >>
=============================================================================
