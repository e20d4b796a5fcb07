----------------------------- MODULE AlarmStore -----------------------------
(***************************************************************************)
(* The alarm events of Redis database 3 (db/alarm.rs): one hash per event, *)
(* which expires after ALARM_RETENTION_SECONDS, and the sorted set         *)
(* "alarms:pending", which indexes the events by receivedAt and does not   *)
(* expire.  insert_alarm_event writes both in one MULTI/EXEC transaction,  *)
(* so a single step of the model.                                          *)
(*                                                                         *)
(* A hash that has expired is left in alarms and is not Live: to a reader  *)
(* it is absent.                                                           *)
(***************************************************************************)
EXTENDS Integers

CONSTANTS
  EventKeys,                \* the keys alarm_event_key can build
  ApiTokens, Payloads,      \* what an event may hold
  ALARM_RETENTION_SECONDS,  \* 24 * 60 * 60 in db/alarm.rs
  NoValue                   \* no number under "value" in the payload

VARIABLES
  clock,    \* milliseconds, as Redis counts them
  alarms,   \* the hash at each event key
  pending   \* the score of each event key in the index, NotIndexed if none

NoEvent ==
  [ api_token |-> "", payload |-> NoValue, created_at |-> 0, received_at |-> 0,
    expire_at |-> 0 ]

NotIndexed == 0

ToMillis(seconds) == 1000 * seconds

Event ==
  [ api_token : ApiTokens \cup {""}, payload : Payloads \cup {NoValue},
    created_at : Int, received_at : Int, expire_at : Nat ]

(* Each variable keeps its shape.                                          *)
TypeOK ==
  /\ alarms \in [EventKeys -> Event]
  /\ pending \in [EventKeys -> Int]

Init ==
  /\ alarms = [k \in EventKeys |-> NoEvent]
  /\ pending = [k \in EventKeys |-> NotIndexed]

(* Redis still answers for the hash at k.                                  *)
Live(k) == clock < alarms[k].expire_at

(* Mutant: the index is ordered by the device's own time.                  *)
InsertScoredByDevice(k, api_token, payload, timestamp, received_at) ==
  /\ alarms' = [alarms EXCEPT ![k] =
       [ api_token   |-> api_token,
         payload     |-> payload,
         created_at  |-> ToMillis(timestamp),
         received_at |-> received_at,
         expire_at   |-> clock + ToMillis(ALARM_RETENTION_SECONDS) ]]
  /\ pending' = [pending EXCEPT ![k] = ToMillis(timestamp)]

(* HSET, EXPIRE and ZADD.  timestamp is in seconds and received_at in      *)
(* milliseconds, as the code has them; the admitted timestamps are at most *)
(* Skew ahead of the clock, so the saturation of saturating_mul and        *)
(* try_into is never reached.                                              *)
insert_alarm_event(k, api_token, payload, timestamp, received_at) ==
  /\ alarms' = [alarms EXCEPT ![k] =
       [ api_token   |-> api_token,
         payload     |-> payload,
         created_at  |-> ToMillis(timestamp),
         received_at |-> received_at,
         expire_at   |-> clock + ToMillis(ALARM_RETENTION_SECONDS) ]]
  /\ pending' = [pending EXCEPT ![k] = received_at]
=============================================================================
