------------------------------ MODULE Receiver ------------------------------
(***************************************************************************)
(* process_mqtt_message (main.rs), from the message the MQTT stream hands  *)
(* it to the write in Redis, cut at its awaits: the MongoDB lookup, the    *)
(* SET NX EX of the replay cache and its answer, and the alarm transaction *)
(* or the four commands of a heartbeat.                                    *)
(*                                                                         *)
(* The network may deliver any message of Messages at any time and as      *)
(* often as it likes (late, twice, out of order).  A receiver may die, or  *)
(* its task be aborted, at any await and start again; the stores survive.  *)
(* Instances is a set because the process that replaces a dead one shares  *)
(* Redis with requests the dead one had already sent, and because two      *)
(* processes overlap in a rolling update.                                  *)
(***************************************************************************)
EXTENDS Notifications

CONSTANTS
  Instances,
  Messages,        \* what the network may deliver
  Registrations,   \* for each sensor, the documents MongoDB may hold for it
  FcmTokens,
  ReadsMayFail,    \* may an HGET of a heartbeat be answered by an error?
  NoMessage,
  NoValue,
  SIGNED_REPLAY_CACHE_TTL_SECS,  \* 720 in main.rs
  ALARM_RETENTION_SECONDS,       \* 86400 in db/alarm.rs
  MaxClockError,   \* milliseconds by which SystemTime::now may be off
  ClockErrors,     \* ... and those by which it is
  MaxClaimDelay,   \* milliseconds from the freshness test to the end of the claim
  Instants         \* when something may happen: the bound on time

VARIABLES
  clock,      \* milliseconds of true time, also Redis's
  registry,   \* MongoDB: the document of each sensor
  pc, msg, auth,  \* of each receiver: its await, its message, its sensor_auth
  at,         \* ... when it tested the freshness, then its received_at
  replay,     \* Redis 2: when each replay key expires, 0 if never set
  unanswered, \* ... and the SETs whose callers no longer wait for an answer
  alarms, pending,                 \* Redis 3
  online, fcm_by_api_token, call,  \* Redis 0 and the calls that update it
  claimed,    \* history: how often each notification won its nonce
  stored,     \* history: how often each notification reached a store
  failed,     \* history: those that then failed, as main.rs:263 reports
  aborted     \* history: those whose task was dropped while it held them

Notes == { m.note : m \in Messages }
Sensors == { SensorOf(n) : n \in Notes }
Documents == UNION { Registrations[s] : s \in Sensors }
ReplayKeys == { signed_replay_key(n) : n \in Notes }
NoAuth == [ api_token |-> None, feature_name |-> None ]

EventKeys == { alarm_event_key(m) : m \in Messages }
ApiTokens == { d.api_token : d \in Documents }
Payloads == { n.payload : n \in Notes }

Alarms == INSTANCE AlarmStore
Online == INSTANCE OnlineStatus WITH MayBeRemoved <- FALSE

ASSUME ReceiverAssumption ==
  /\ \A m \in Messages : m.note.timestamp \in -I64 .. (I64 - 1)
  /\ DOMAIN Registrations = Sensors
  /\ NoMessage \notin Messages
  /\ SIGNED_REPLAY_CACHE_TTL_SECS \in Nat
  /\ ALARM_RETENTION_SECONDS \in Nat \ {0}
  /\ None \notin FcmTokens
  /\ ReadsMayFail \in BOOLEAN
  /\ MaxClockError \in Nat
  /\ MaxClaimDelay \in Nat
  /\ Instants \subseteq Nat
  /\ \A t \in Instants : t > MaxClockError /\ t + MaxClockError < 1000 * I64
  /\ ClockErrors \subseteq -MaxClockError .. MaxClockError

(* A replay key outlives every moment at which its message can be claimed: *)
(* 720000 > 600999 + 2 * MaxClockError + MaxClaimDelay for the code's      *)
(* numbers, for the second in which a message gets too old is not over.    *)
ASSUME CacheOutlivesWindow ==
  1000 * SIGNED_REPLAY_CACHE_TTL_SECS >
    2000 * SIGNED_MESSAGE_MAX_SKEW_SECS + 999 + 2 * MaxClockError + MaxClaimDelay

task == << pc, msg, auth, at >>
cache == << replay, unanswered >>
stores == << cache, alarms, pending, online, fcm_by_api_token, call >>
history == << claimed, stored, failed, aborted >>
vars == << clock, registry, task, stores, history >>

-----------------------------------------------------------------------------
Init ==
  /\ clock \in Instants
  /\ registry \in { r \in [Sensors -> Documents] : \A s \in Sensors : r[s] \in Registrations[s] }
  /\ pc = [i \in Instances |-> "idle"]
  /\ msg = [i \in Instances |-> NoMessage]
  /\ auth = [i \in Instances |-> NoAuth]
  /\ at = [i \in Instances |-> 0]
  /\ replay = [k \in ReplayKeys |-> 0]
  /\ unanswered = [k \in ReplayKeys |-> "never"]
  /\ Alarms!Init
  /\ online = [s \in Sensors |-> Online!NoHash]
  /\ fcm_by_api_token = [t \in ApiTokens |-> None]
  /\ call = [i \in Instances |-> Online!NoCall]
  /\ claimed = [n \in Notes |-> 0]
  /\ stored = [n \in Notes |-> 0]
  /\ failed = {}
  /\ aborted = {}

(* What SystemTime::now may return.                                        *)
Now == Online!Now

(* ... and the whole seconds of it, which the freshness test works with.   *)
AsSecs(now) == now \div 1000

(* Mutant: the task returns to its lookup, without a message.              *)
ReturnToLookup(i) ==
  /\ pc' = [pc EXCEPT ![i] = "lookup"]
  /\ msg' = [msg EXCEPT ![i] = NoMessage]
  /\ auth' = [auth EXCEPT ![i] = NoAuth]
  /\ at' = [at EXCEPT ![i] = 0]

(* process_mqtt_message returns: the task holds nothing of the message.    *)
Return(i) ==
  /\ pc' = [pc EXCEPT ![i] = "idle"]
  /\ msg' = [msg EXCEPT ![i] = NoMessage]
  /\ auth' = [auth EXCEPT ![i] = NoAuth]
  /\ at' = [at EXCEPT ![i] = 0]

-----------------------------------------------------------------------------
(* A message that passes the first checks is looked up; of any other,      *)
(* nothing but a log line remains.                                         *)
Receive(i, m) ==
  /\ pc[i] = "idle"
  /\ WellFormed(m)
  /\ pc' = [pc EXCEPT ![i] = "lookup"]
  /\ msg' = [msg EXCEPT ![i] = m]
  /\ UNCHANGED << clock, registry, auth, at, stores, history >>

(* MongoDB evaluates the query of find_sensor_auth; from here on the       *)
(* handler works with the document as it was.                              *)
Lookup(i) ==
  /\ pc[i] = "lookup"
  /\ auth' = [auth EXCEPT ![i] = registry[SensorOf(msg[i].note)]]
  /\ pc' = [pc EXCEPT ![i] = "verify"]
  /\ UNCHANGED << clock, registry, msg, at, stores, history >>

(* The document has arrived and the message passes the remaining checks.   *)
Admit(i) ==
  /\ pc[i] = "verify"
  /\ \E now \in Now : Admits(auth[i], msg[i], AsSecs(now))
  /\ pc' = [pc EXCEPT ![i] = "claim"]
  /\ at' = [at EXCEPT ![i] = clock]
  /\ UNCHANGED << clock, registry, msg, auth, stores, history >>

(* The lookup fails, finds no usable document, or the message does not     *)
(* pass.                                                                   *)
Reject(i) ==
  /\ \/ pc[i] = "lookup"
     \/ pc[i] = "verify" /\ \E now \in Now : ~Admits(auth[i], msg[i], AsSecs(now))
  /\ Return(i)
  /\ UNCHANGED << clock, registry, stores, history >>

-----------------------------------------------------------------------------
(* claim_signed_nonce: SET key 1 NX EX ttl.                                *)

ReplayKey(i) == signed_replay_key(msg[i].note)

Cached(k) == clock < replay[k]

(* Mutant: the replay key expires one second early.                        *)
SetNonceBriefly(k) == [replay EXCEPT ![k] = clock + 1000 * (SIGNED_REPLAY_CACHE_TTL_SECS - 1)]

SetNonce(k) == [replay EXCEPT ![k] = clock + 1000 * SIGNED_REPLAY_CACHE_TTL_SECS]

(* The answer to SET is there within MaxClaimDelay of the freshness test,  *)
(* or the command fails on the response timeout of the Redis connection.   *)
AnswersInTime(i) == clock <= at[i] + MaxClaimDelay

Store(n) == stored' = [stored EXCEPT ![n] = @ + 1]
Lose(n) == failed' = failed \cup {n}

(* Redis applies the SET and answers OK: the nonce is won, though the      *)
(* receiver does not know it yet.                                          *)
Claim(i) ==
  /\ pc[i] = "claim"
  /\ AnswersInTime(i)
  /\ ~Cached(ReplayKey(i))
  /\ replay' = SetNonce(ReplayKey(i))
  /\ claimed' = [claimed EXCEPT ![msg[i].note] = @ + 1]
  /\ pc' = [pc EXCEPT ![i] = "answer"]
  /\ UNCHANGED << clock, registry, msg, auth, at, unanswered, alarms, pending, online,
                  fcm_by_api_token, call, stored, failed, aborted >>

(* SET answers nil: replayed signed nonce detected.                        *)
Refuse(i) ==
  /\ pc[i] = "claim"
  /\ Cached(ReplayKey(i))
  /\ Return(i)
  /\ UNCHANGED << clock, registry, stores, history >>

(* Nobody waits any more for the SET of key k: it fails, or Redis has yet  *)
(* to apply it.                                                            *)
GiveUpClaim(k) == unanswered' = [unanswered EXCEPT ![k] = "sent"]

(* SET is answered by an error, or not at all.                             *)
ClaimFails(i) ==
  /\ pc[i] = "claim"
  /\ GiveUpClaim(ReplayKey(i))
  /\ Return(i)
  /\ UNCHANGED << clock, registry, replay, alarms, pending, online, fcm_by_api_token, call,
                  history >>

(* External: Redis applies a SET nobody waits for any more.                *)
LateSet(k) ==
  /\ unanswered[k] = "sent"
  /\ unanswered' = [unanswered EXCEPT ![k] = "settled"]
  /\ replay' = IF Cached(k) THEN replay ELSE SetNonce(k)
  /\ UNCHANGED << clock, registry, task, alarms, pending, online, fcm_by_api_token, call,
                  history >>

-----------------------------------------------------------------------------
(* The OK arrives, and the store call begins in the same synchronous       *)
(* stretch by checking the identifiers.                                    *)

IsAlarm(i) == TopicOf(msg[i].topic).alarm_type # None

Answered(i) == pc[i] = "answer" /\ AnswersInTime(i)

(* ... of insert_alarm_event, which reads received_at next.                *)
BeginAlarm(i) ==
  /\ Answered(i)
  /\ StorableIds(auth[i].api_token, msg[i].note)
  /\ IsAlarm(i)
  /\ pc' = [pc EXCEPT ![i] = "alarm"]
  /\ \E now \in Now : at' = [at EXCEPT ![i] = now]
  /\ UNCHANGED << clock, registry, msg, auth, stores, history >>

(* ... of insert_or_update_online.                                         *)
BeginOnline(i) ==
  /\ Answered(i)
  /\ StorableIds(auth[i].api_token, msg[i].note)
  /\ ~IsAlarm(i)
  /\ pc' = [pc EXCEPT ![i] = "online"]
  /\ Online!Begin(i, SensorOf(msg[i].note), auth[i].api_token)
  /\ UNCHANGED << registry, msg, auth, at, cache, alarms, pending, history >>

(* ... of either, which refuses them.                                      *)
InvalidUuid(i) ==
  /\ Answered(i)
  /\ ~StorableIds(auth[i].api_token, msg[i].note)
  /\ Lose(msg[i].note)
  /\ Return(i)
  /\ UNCHANGED << clock, registry, stores, claimed, stored, aborted >>

(* The OK does not arrive: claim_signed_nonce fails after the nonce was    *)
(* won.                                                                    *)
AnswerLost(i) ==
  /\ pc[i] = "answer"
  /\ Lose(msg[i].note)
  /\ Return(i)
  /\ UNCHANGED << clock, registry, stores, claimed, stored, aborted >>

-----------------------------------------------------------------------------
(* Mutant: the transaction is sent again after it was applied.             *)
StoreAlarmAgain(i) ==
  LET n == msg[i].note
  IN  /\ pc[i] = "alarm"
      /\ Alarms!insert_alarm_event(alarm_event_key(msg[i]), auth[i].api_token,
                                   n.payload, n.timestamp, at[i])
      /\ Store(n)
      /\ UNCHANGED << clock, registry, task, cache, online, fcm_by_api_token, call,
                      claimed, failed, aborted >>

(* Mutant: the event is filed under whoever owns the sensor now.           *)
StoreAlarmForOwner(i) ==
  LET n == msg[i].note
  IN  /\ pc[i] = "alarm"
      /\ Alarms!insert_alarm_event(alarm_event_key(msg[i]), registry[SensorOf(n)].api_token,
                                   n.payload, n.timestamp, at[i])
      /\ Store(n)
      /\ Return(i)
      /\ UNCHANGED << clock, registry, cache, online, fcm_by_api_token, call, claimed,
                      failed, aborted >>

(* EXEC is applied.                                                        *)
StoreAlarm(i) ==
  LET n == msg[i].note
  IN  /\ pc[i] = "alarm"
      /\ Alarms!insert_alarm_event(alarm_event_key(msg[i]), auth[i].api_token,
                                   n.payload, n.timestamp, at[i])
      /\ Store(n)
      /\ Return(i)
      /\ UNCHANGED << clock, registry, cache, online, fcm_by_api_token, call, claimed,
                      failed, aborted >>

(* Mutant: nothing reports the failed transaction.                         *)
AlarmFailsSilently(i) ==
  /\ pc[i] = "alarm"
  /\ Return(i)
  /\ UNCHANGED << clock, registry, stores, history >>

(* The transaction fails as a whole.                                       *)
AlarmFails(i) ==
  /\ pc[i] = "alarm"
  /\ Lose(msg[i].note)
  /\ Return(i)
  /\ UNCHANGED << clock, registry, stores, claimed, stored, aborted >>

(* EXISTS and the two HGETs of a heartbeat.                                *)
ReadOnline(i) ==
  /\ pc[i] = "online"
  /\ \/ Online!Exists(i)
     \/ Online!HgetCreatedAt(i)
     \/ Online!HgetCreatedAtFails(i)
     \/ Online!HgetFcmToken(i)
     \/ Online!HgetFcmTokenFails(i)
  /\ UNCHANGED << registry, task, cache, alarms, pending, history >>

StoreOnline(i) ==
  /\ pc[i] = "online"
  /\ Online!HsetMultiple(i)
  /\ Store(msg[i].note)
  /\ Return(i)
  /\ UNCHANGED << registry, cache, alarms, pending, claimed, failed, aborted >>

(* Mutant: a failing heartbeat is started over, for ever.                  *)
OnlineFailsRetried(i) ==
  /\ pc[i] = "online"
  /\ call[i].step \in {"exists", "hset"}
  /\ call' = [call EXCEPT ![i].step = "exists"]
  /\ UNCHANGED << clock, registry, task, cache, alarms, pending, online, fcm_by_api_token,
                  history >>

OnlineFails(i) ==
  /\ pc[i] = "online"
  /\ Online!CallFails(i)
  /\ Lose(msg[i].note)
  /\ Return(i)
  /\ UNCHANGED << registry, cache, alarms, pending, claimed, stored, aborted >>

-----------------------------------------------------------------------------
(* Receiver i holds a notification that has won its nonce.                 *)
Held(i) == pc[i] \in {"answer", "alarm", "online"}

(* The process dies or mqtt_handle.abort drops the task at an await, and   *)
(* the program starts again.  Nothing reports the notification it held.    *)
Abort(i) ==
  /\ pc[i] # "idle"
  /\ aborted' = aborted \cup (IF Held(i) THEN {msg[i].note} ELSE {})
  /\ IF pc[i] = "claim" THEN GiveUpClaim(ReplayKey(i)) ELSE UNCHANGED unanswered
  /\ call' = [call EXCEPT ![i] = Online!NoCall]
  /\ Return(i)
  /\ UNCHANGED << clock, registry, replay, alarms, pending, online, fcm_by_api_token,
                  claimed, stored, failed >>

(* External: another service registers, changes or removes a sensor.       *)
ChangeSensor(s, d) ==
  /\ d # registry[s]
  /\ registry' = [registry EXCEPT ![s] = d]
  /\ UNCHANGED << clock, task, stores, history >>

Tick ==
  /\ \E t \in Instants : t > clock /\ clock' = t
  /\ UNCHANGED << registry, task, stores, history >>

-----------------------------------------------------------------------------
Step(i) ==
  \/ Lookup(i) \/ Admit(i) \/ Reject(i)
  \/ Claim(i) \/ Refuse(i) \/ ClaimFails(i)
  \/ BeginAlarm(i) \/ BeginOnline(i) \/ InvalidUuid(i) \/ AnswerLost(i)
  \/ StoreAlarm(i) \/ AlarmFails(i)
  \/ ReadOnline(i) \/ StoreOnline(i) \/ OnlineFails(i)

Next ==
  \/ \E i \in Instances :
       \/ \E m \in Messages : Receive(i, m)
       \/ Step(i)
       \/ Abort(i)
  \/ \E k \in ReplayKeys : LateSet(k)
  \/ \E s \in Sensors : \E d \in Registrations[s] : ChangeSensor(s, d)
  \/ Tick

Spec == Init /\ [][Next]_vars

(* An await ends, by an answer or by the timeout of its connection.        *)
FairSpec == Spec /\ \A i \in Instances : WF_vars(Step(i))

-----------------------------------------------------------------------------
(* Properties.                                                             *)

(* Every variable keeps its shape, and a receiver that waits for something *)
(* waits with a message, and with the sensor document it decided on.       *)
TypeOK ==
  /\ clock \in Nat
  /\ registry \in [Sensors -> Documents]
  /\ pc \in [Instances -> {"idle", "lookup", "verify", "claim", "answer", "alarm", "online"}]
  /\ msg \in [Instances -> Messages \cup {NoMessage}]
  /\ auth \in [Instances -> Documents \cup {NoAuth}]
  /\ at \in [Instances -> Int]
  /\ replay \in [ReplayKeys -> Nat]
  /\ unanswered \in [ReplayKeys -> {"never", "sent", "settled"}]
  /\ Alarms!TypeOK
  /\ Online!TypeOK
  /\ claimed \in [Notes -> Nat]
  /\ stored \in [Notes -> Nat]
  /\ failed \subseteq Notes
  /\ aborted \subseteq Notes
  /\ \A i \in Instances :
       /\ pc[i] # "idle" => msg[i] \in Messages
       /\ pc[i] \notin {"idle", "lookup"} => auth[i] \in Documents

(* A signed notification wins its nonce at most once, however often it is  *)
(* delivered, on however many topics, to however many receivers, and       *)
(* however late the SET of claim_signed_nonce (main.rs) is applied: the    *)
(* replay key of main.rs:136 has not expired while the notification is     *)
(* still fresh for anyone.                                                 *)
AtMostOnce == \A n \in Notes : claimed[n] <= 1

(* A notification has at most one effect on the stores, and only after its *)
(* nonce was won: neither a retry, nor a second topic that fits the same   *)
(* sensor, nor a restart of process_mqtt_message applies it again.         *)
EffectOnce == \A n \in Notes : stored[n] <= claimed[n] /\ stored[n] <= 1

(* Only a genuine message uses up a nonce: what won its nonce, and what    *)
(* any replay key was set for, came on a topic of its sensor and was       *)
(* signed with a document MongoDB has had for it, with a payload of that   *)
(* topic.  What process_mqtt_message (main.rs:305-329) must refuse before  *)
(* the claim cannot make it refuse the genuine message as a replay.        *)
Genuine ==
  { n \in Notes : \E m \in Messages : \E d \in Registrations[SensorOf(n)] :
      /\ m.note = n
      /\ WellFormed(m)
      /\ TopicFitsFeature(TopicOf(m.topic), d.feature_name)
      /\ SignedFor(d, n)
      /\ validate_alarm_payload(TopicOf(m.topic).alarm_type, n.payload) }

NonceUsedByGenuine ==
  /\ \A n \in Notes : claimed[n] >= 1 => n \in Genuine
  /\ \A k \in ReplayKeys : replay[k] > 0 => \E n \in Genuine : signed_replay_key(n) = k

(* Every alarm event in Redis comes from a message that won its nonce,     *)
(* whose payload triggers an alarm of that type, and is filed under the    *)
(* api token the message was signed with, even when the sensor has changed *)
(* hands between the lookup and the write (main.rs:318-337).               *)
AlarmJustified ==
  \A k \in EventKeys : alarms[k] # Alarms!NoEvent =>
    \E m \in Messages : \E d \in Registrations[SensorOf(m.note)] :
      /\ alarm_event_key(m) = k
      /\ claimed[m.note] >= 1
      /\ SignedFor(d, m.note)
      /\ TopicFitsFeature(TopicOf(m.topic), d.feature_name)
      /\ validate_alarm_payload(TopicOf(m.topic).alarm_type, m.note.payload)
      /\ StorableIds(d.api_token, m.note)
      /\ alarms[k].api_token = d.api_token
      /\ alarms[k].payload = m.note.payload
      /\ alarms[k].created_at = 1000 * m.note.timestamp

(* The same of the online status: the token in the hash of a sensor signed *)
(* a notification of that sensor that won its nonce (main.rs:344).         *)
OnlineJustified ==
  \A s \in Sensors : online[s].modifiedAt # 0 =>
    \E n \in Notes : \E d \in Registrations[s] :
      /\ SensorOf(n) = s
      /\ claimed[n] >= 1
      /\ d.feature_name = "online"
      /\ SignedFor(d, n)
      /\ online[s].apiToken = d.api_token

(* The event's two times, createdAt from the device and receivedAt from    *)
(* the receiver (alarm.rs:45-46), are never further apart than the window  *)
(* of verify_mqtt_signature, two readings of an inexact clock and, when    *)
(* receivedAt is the later, the rest of the second that as_secs cuts off   *)
(* (main.rs:76) and the delay of the claim between the readings.           *)
AlarmTimely ==
  LET slack == 1000 * SIGNED_MESSAGE_MAX_SKEW_SECS + 2 * MaxClockError
  IN  \A k \in EventKeys : alarms[k] # Alarms!NoEvent =>
        /\ alarms[k].created_at - alarms[k].received_at <= slack
        /\ alarms[k].received_at - alarms[k].created_at <= slack + 999 + MaxClaimDelay

(* The hash and the index of db/alarm.rs agree: an event Redis still holds *)
(* is in the index under its own receivedAt, and an index entry younger    *)
(* than the retention (less the clock error) leads to an event Redis still *)
(* holds.                                                                  *)
PendingResolves ==
  \A k \in EventKeys :
    /\ Alarms!Live(k) => pending[k] = alarms[k].received_at
    /\ /\ pending[k] # Alarms!NotIndexed
       /\ clock + MaxClockError < pending[k] + 1000 * ALARM_RETENTION_SECONDS
       => Alarms!Live(k)

(* An event Redis holds is overwritten, by the same device using the nonce *)
(* again, only after the replay key has expired: two events under one key  *)
(* were received a whole TTL apart, less the clock's error and the delay   *)
(* with which the answer to the first SET may have come (main.rs:135-136), *)
(* in whichever order their transactions arrive (alarm.rs:48-76).          *)
EventsApart ==
  [][\A k \in EventKeys : alarms[k] # Alarms!NoEvent /\ alarms'[k] # alarms[k] =>
       LET apart == 1000 * SIGNED_REPLAY_CACHE_TTL_SECS - MaxClaimDelay - 2 * MaxClockError
       IN  \/ alarms'[k].received_at - alarms[k].received_at >= apart
           \/ alarms[k].received_at - alarms'[k].received_at >= apart]_vars

(* A notification that won its nonce is stored, is reported as failed, is  *)
(* in the hands of a receiver, or was in the hands of one whose task was   *)
(* dropped: an abort (main.rs:284) or a crash is the only way in which one *)
(* is lost in silence between the claim (main.rs:330) and the write        *)
(* (main.rs:331-349).  And no nonce is used up otherwise: a replay key     *)
(* stands for such a notification, or for a claim without an answer        *)
(* (main.rs:136-137).                                                      *)
Outcome(n) == stored[n] >= 1 \/ n \in failed \/ n \in aborted

InFlight(n) == \E i \in Instances : Held(i) /\ msg[i].note = n

ClaimAccountedFor ==
  /\ \A n \in Notes : claimed[n] >= 1 => Outcome(n) \/ InFlight(n)
  /\ \A k \in ReplayKeys : replay[k] > 0 /\ unanswered[k] = "never" =>
       \E n \in Notes : signed_replay_key(n) = k /\ (Outcome(n) \/ InFlight(n))

(* ... and it does not stay in their hands: once process_mqtt_message has  *)
(* won the nonce, the notification is stored or reported, unless its task  *)
(* is dropped first.                                                       *)
Settled == \A n \in Notes : claimed[n] >= 1 ~> Outcome(n)

(* Whatever becomes of a task while insert_or_update_online runs, an abort *)
(* at any of its awaits included, the hashes of Redis 0 see only calls as  *)
(* OnlineStatus has them (main.rs:344): each about one sensor and with one *)
(* token of it, begun once, and ended before its receiver begins another.  *)
ImplementsOnlineStatus == Online!Spec

-----------------------------------------------------------------------------
(* The receiver implements Admission: the status of a notification is read *)
(* off the histories (Admission knows of nothing that happens twice, or    *)
(* both well and badly), and its window is the freshness window of the     *)
(* code, wider by the clock's error and the delay of the claim.            *)
StatusOf(n) ==
  LET past == << claimed[n], stored[n] >>
      lost == n \in failed \cup aborted
  IN  CASE past = << 0, 0 >> /\ ~lost -> "new"
        [] past = << 1, 0 >> /\ ~lost -> "admitted"
        [] past = << 1, 1 >> /\ ~lost -> "applied"
        [] past = << 1, 0 >> /\ lost  -> "lost"
        [] OTHER                      -> "twice"

Opens(n) == 1000 * (n.timestamp - SIGNED_MESSAGE_MAX_SKEW_SECS) - MaxClockError

Closes(n) == 1000 * (n.timestamp + SIGNED_MESSAGE_MAX_SKEW_SECS) + 999 + MaxClockError

Promise == INSTANCE Admission WITH
  status <- [n \in Notes |-> StatusOf(n)],
  Earliest <- [n \in Notes |-> Opens(n)],
  Latest <- [n \in Notes |-> Closes(n) + MaxClaimDelay]

(* Every behaviour of process_mqtt_message (main.rs:305-349) is one that   *)
(* Admission allows, its progress included.                                *)
ImplementsAdmission == Promise!FairSpec
=============================================================================
