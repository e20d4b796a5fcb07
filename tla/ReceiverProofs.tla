--------------------------- MODULE ReceiverProofs ---------------------------
(***************************************************************************)
(* Theorems about Receiver, for every set of receivers, messages and       *)
(* registrations and every value of the windows that CacheOutlivesWindow   *)
(* allows.                                                                 *)
(***************************************************************************)
EXTENDS Receiver, TLAPS

(* What the messages and registrations of the constants are made of.       *)
LEMMA ConstantTypes ==
  /\ None = ""
  /\ \A m \in Messages :
       /\ m.note \in Notes
       /\ m.note.timestamp \in Int
       /\ m.note.payload \in Payloads
       /\ SensorOf(m.note) \in Sensors
       /\ signed_replay_key(m.note) \in ReplayKeys
       /\ alarm_event_key(m) \in EventKeys
  /\ \A d \in Documents : d.api_token \in ApiTokens
  /\ \A s \in Sensors : Registrations[s] \subseteq Documents
<1>1. \A m \in Messages : m.note.timestamp \in Int
  BY ReceiverAssumption, SkewAssumption
<1>2. DOMAIN Registrations = Sensors
  BY ReceiverAssumption
<1> QED
  BY <1>1, <1>2 DEF None, Notes, Payloads, Sensors, ReplayKeys, EventKeys, ApiTokens, Documents

(* A reading of the clock is positive, in range, and off by no more than   *)
(* MaxClockError.                                                          *)
LEMMA Readings ==
  ASSUME clock \in Instants
  PROVE  /\ clock \in Nat /\ MaxClockError \in Nat /\ I64 \in Nat
         /\ \A now \in Now : /\ now \in Nat /\ now >= 1 /\ now < 1000 * I64
                            /\ now <= clock + MaxClockError
                            /\ clock <= now + MaxClockError
<1>1. /\ MaxClockError \in Nat /\ clock \in Nat /\ I64 \in Nat
      /\ clock > MaxClockError /\ clock + MaxClockError < 1000 * I64
  BY ReceiverAssumption, SkewAssumption
<1>2. ASSUME NEW error \in ClockErrors
      PROVE  error \in Int /\ -MaxClockError <= error /\ error <= MaxClockError
  <2>1. error \in -MaxClockError .. MaxClockError
    BY <1>2, ReceiverAssumption, Zenon
  <2> QED
    BY <1>1, <2>1
<1>3. Now = { clock + error : error \in ClockErrors }
  BY DEF Now, Online!Now
<1> QED
  BY <1>1, <1>2, <1>3

-----------------------------------------------------------------------------
(* The shape of the state, as TypeOK states it of each group of variables. *)

TaskOK ==
  /\ pc \in [Instances -> {"idle", "lookup", "verify", "claim", "answer", "alarm", "online"}]
  /\ msg \in [Instances -> Messages \cup {NoMessage}]
  /\ auth \in [Instances -> Documents \cup {NoAuth}]
  /\ at \in [Instances -> Int]
  /\ \A i \in Instances :
       /\ pc[i] # "idle" => msg[i] \in Messages
       /\ pc[i] \notin {"idle", "lookup"} => auth[i] \in Documents

CacheOK ==
  /\ replay \in [ReplayKeys -> Nat]
  /\ unanswered \in [ReplayKeys -> {"never", "sent", "settled"}]

HistoryOK ==
  /\ claimed \in [Notes -> Nat]
  /\ stored \in [Notes -> Nat]
  /\ failed \subseteq Notes
  /\ aborted \subseteq Notes

LEMMA TypeOKParts ==
  TypeOK <=>
    /\ clock \in Nat
    /\ registry \in [Sensors -> Documents]
    /\ CacheOK
    /\ TaskOK
    /\ Alarms!TypeOK
    /\ Online!TypeOK
    /\ HistoryOK
BY DEF TypeOK, TaskOK, CacheOK, HistoryOK

(* ... and of the state after a step.                                      *)
LEMMA TypeOKJoin ==
  ASSUME clock' \in Nat,
         registry' \in [Sensors -> Documents],
         TaskOK', CacheOK', Alarms!TypeOK', Online!TypeOK', HistoryOK'
  PROVE  TypeOK'
BY DEF TypeOK, TaskOK, CacheOK, HistoryOK

(* The records of the stores are built from what their types name.         *)
LEMMA NoEventTyped == Alarms!NoEvent \in Alarms!Event
BY DEF Alarms!NoEvent, Alarms!Event

LEMMA EventTyped ==
  ASSUME NEW token \in ApiTokens, NEW payload \in Payloads, NEW created_at \in Int,
         NEW received_at \in Int, NEW expire_at \in Nat
  PROVE  [ api_token |-> token, payload |-> payload, created_at |-> created_at,
           received_at |-> received_at, expire_at |-> expire_at ] \in Alarms!Event
BY DEF Alarms!Event

LEMMA WrittenTyped ==
  ASSUME NEW h \in Online!Hash, NEW c \in Online!Call
  PROVE  Online!Written(h, c) \in Online!Hash
BY DEF Online!Hash, Online!Call, Online!Written

LEMMA InitTyped == Init => TypeOK
<1> SUFFICES ASSUME Init PROVE TypeOK
  OBVIOUS
<1>1. clock \in Nat /\ clock \in Instants
  BY ReceiverAssumption DEF Init
<1>2. registry \in [Sensors -> Documents]
  BY DEF Init
<1>3. CacheOK
  BY DEF Init, CacheOK
<1>4. TaskOK
  BY DEF Init, TaskOK
<1>5. Alarms!TypeOK
  BY NoEventTyped DEF Init, Alarms!Init, Alarms!TypeOK, Alarms!NotIndexed
<1>6. Online!TypeOK
  BY <1>1, ConstantTypes DEF Init, Online!TypeOK, Online!NoHash, Online!Hash, Online!NoCall, Online!Call
<1>7. HistoryOK
  BY DEF Init, HistoryOK
<1> QED
  BY <1>1, <1>2, <1>3, <1>4, <1>5, <1>6, <1>7, TypeOKParts

(* The steps that several actions share.                                   *)
LEMMA ReturnTyped ==
  ASSUME TaskOK, NEW i \in Instances, Return(i)
  PROVE  TaskOK'
BY DEF TaskOK, Return

LEMMA CacheTyped ==
  ASSUME TypeOK, NEW k \in ReplayKeys,
         replay' = replay \/ replay' = SetNonce(k),
         \/ unanswered' = unanswered
         \/ GiveUpClaim(k)
         \/ unanswered' = [unanswered EXCEPT ![k] = "settled"]
  PROVE  CacheOK'
<1>1. replay' \in [ReplayKeys -> Nat]
  BY ReceiverAssumption DEF SetNonce, TypeOK
<1>2. unanswered' \in [ReplayKeys -> {"never", "sent", "settled"}]
  BY DEF GiveUpClaim, TypeOK
<1> QED
  BY <1>1, <1>2 DEF CacheOK

LEMMA HistoryTyped ==
  ASSUME HistoryOK, NEW n \in Notes,
         claimed' = claimed \/ claimed' = [claimed EXCEPT ![n] = @ + 1],
         stored' = stored \/ Store(n),
         failed' = failed \/ Lose(n),
         aborted' = aborted \/ aborted' = aborted \cup {n}
  PROVE  HistoryOK'
BY DEF HistoryOK, Store, Lose

(* Every command of a heartbeat, its end and its failure keep Redis 0 and  *)
(* the calls in shape.                                                     *)
LEMMA OnlineTyped ==
  ASSUME Online!TypeOK, NEW i \in Instances,
         \/ \E s \in Sensors, t \in ApiTokens : Online!Begin(i, s, t)
         \/ Online!Exists(i)
         \/ Online!HgetCreatedAt(i)
         \/ Online!HgetCreatedAtFails(i)
         \/ Online!HgetFcmToken(i)
         \/ Online!HgetFcmTokenFails(i)
         \/ Online!HsetMultiple(i)
         \/ Online!CallFails(i)
         \/ Online!CallAborted(i)
  PROVE  Online!TypeOK'
<1> USE DEF Online!TypeOK, Online!Call, Online!Hash
<1>1. ASSUME NEW s \in Sensors, NEW t \in ApiTokens, Online!Begin(i, s, t)
      PROVE  Online!TypeOK'
  BY <1>1 DEF Online!Begin, Online!NoCall
<1>2. CASE Online!Exists(i)
  <2> DEFINE next == IF online[call[i].sensor] # Online!NoHash THEN "created_at" ELSE "fcm_token"
  <2>1. next \in {"created_at", "fcm_token"}
    OBVIOUS
  <2>2. /\ call[i].step # "idle"
        /\ UNCHANGED << clock, online, fcm_by_api_token >>
    BY <1>2 DEF Online!Exists
  <2>0. PICK now \in Now :
          call' = [call EXCEPT ![i] = [@ EXCEPT !.step = next, !.timestamp = now]]
    BY <1>2 DEF Online!Exists, Now
  <2> HIDE DEF next
  <2> DEFINE answered == [call[i] EXCEPT !.step = next, !.timestamp = now]
  <2>3. call[i] \in Online!Call /\ now \in Nat
    BY Readings
  <2>4. /\ answered \in Online!Call
        /\ answered.sensor = call[i].sensor
        /\ answered.api_token = call[i].api_token
    BY <2>1, <2>3
  <2>5. call' = [call EXCEPT ![i] = answered]
    BY <2>0
  <2> HIDE DEF answered, Online!Call
  <2>6. call' \in [Instances -> Online!Call]
    BY <2>4, <2>5
  <2> QED
    BY <2>2, <2>4, <2>5, <2>6
<1>3. CASE Online!HgetCreatedAt(i)
  BY <1>3 DEF Online!HgetCreatedAt
<1>4. CASE Online!HgetCreatedAtFails(i)
  BY <1>4 DEF Online!HgetCreatedAtFails
<1>5. CASE Online!HgetFcmToken(i)
  BY <1>5 DEF Online!HgetFcmToken
<1>6. CASE Online!HgetFcmTokenFails(i)
  BY <1>6 DEF Online!HgetFcmTokenFails
<1>7. CASE Online!HsetMultiple(i)
  <2> HIDE DEF Online!Call, Online!Hash
  <2> DEFINE written == Online!Written(online[call[i].sensor], call[i])
  <2>1. online[call[i].sensor] \in Online!Hash /\ call[i] \in Online!Call
    BY <1>7 DEF Online!HsetMultiple
  <2>2. written \in Online!Hash
    BY <2>1, WrittenTyped
  <2>3. online' = [online EXCEPT ![call[i].sensor] = written]
    BY <1>7 DEF Online!HsetMultiple
  <2> HIDE DEF written
  <2>4. online' \in [Sensors -> Online!Hash]
    BY <2>2, <2>3
  <2> QED
    BY <1>7, <2>4 DEF Online!HsetMultiple, Online!NoCall, Online!Call
<1>8. CASE Online!CallFails(i)
  BY <1>8 DEF Online!CallFails, Online!NoCall
<1>9. CASE Online!CallAborted(i)
  BY <1>9 DEF Online!CallAborted, Online!NoCall
<1> QED
  BY <1>1, <1>2, <1>3, <1>4, <1>5, <1>6, <1>7, <1>8, <1>9

LEMMA AlarmTyped ==
  ASSUME TypeOK,
         NEW k \in EventKeys, NEW token \in ApiTokens, NEW payload \in Payloads,
         NEW timestamp \in Int, NEW received_at \in Int,
         Alarms!insert_alarm_event(k, token, payload, timestamp, received_at)
  PROVE  Alarms!TypeOK'
<1> DEFINE event == [ api_token |-> token, payload |-> payload,
                      created_at |-> 1000 * timestamp, received_at |-> received_at,
                      expire_at |-> clock + 1000 * ALARM_RETENTION_SECONDS ]
<1>1. clock \in Nat /\ Alarms!TypeOK
  BY TypeOKParts
<1>2. event \in Alarms!Event
  <2>1. /\ 1000 * timestamp \in Int
        /\ clock + 1000 * ALARM_RETENTION_SECONDS \in Nat
    BY <1>1, ReceiverAssumption
  <2> QED
    BY <2>1, EventTyped
<1>3. /\ alarms' = [alarms EXCEPT ![k] = event]
      /\ pending' = [pending EXCEPT ![k] = received_at]
  BY DEF Alarms!insert_alarm_event, Alarms!ToMillis
<1> HIDE DEF event
<1> QED
  BY <1>1, <1>2, <1>3 DEF Alarms!TypeOK

-----------------------------------------------------------------------------
LEMMA StepTyped == TypeOK /\ [Next]_vars => TypeOK'
<1> SUFFICES ASSUME TypeOK, [Next]_vars PROVE TypeOK'
  OBVIOUS
<1> USE TypeOKParts, TypeOKJoin
<1>1. ASSUME NEW i \in Instances, NEW m \in Messages, Receive(i, m) PROVE TypeOK'
  <2>1. TaskOK'
    BY <1>1 DEF Receive, TaskOK
  <2> QED
    BY <1>1, <2>1 DEF Receive, stores, cache, history, CacheOK, Alarms!TypeOK, Online!TypeOK, HistoryOK
<1>2. ASSUME NEW i \in Instances, Lookup(i) PROVE TypeOK'
  <2>1. TaskOK'
    <3>1. msg[i] \in Messages
      BY <1>2 DEF Lookup, TaskOK
    <3>2. registry[SensorOf(msg[i].note)] \in Documents
      BY <3>1, ConstantTypes
    <3> QED
      BY <1>2, <3>2 DEF Lookup, TaskOK
  <2> QED
    BY <1>2, <2>1 DEF Lookup, stores, cache, history, CacheOK, Alarms!TypeOK, Online!TypeOK, HistoryOK
<1>3. ASSUME NEW i \in Instances, Admit(i) PROVE TypeOK'
  <2>1. TaskOK'
    BY <1>3 DEF Admit, TaskOK
  <2> QED
    BY <1>3, <2>1 DEF Admit, stores, cache, history, CacheOK, Alarms!TypeOK, Online!TypeOK, HistoryOK
<1>4. ASSUME NEW i \in Instances, Reject(i) \/ Refuse(i) PROVE TypeOK'
  <2>1. TaskOK'
    BY <1>4, ReturnTyped DEF Reject, Refuse
  <2> QED
    BY <1>4, <2>1 DEF Reject, Refuse, stores, cache, history, CacheOK, Alarms!TypeOK,
       Online!TypeOK, HistoryOK
<1>5. ASSUME NEW i \in Instances, Claim(i) PROVE TypeOK'
  <2>1. msg[i].note \in Notes /\ ReplayKey(i) \in ReplayKeys
    BY <1>5, ConstantTypes DEF Claim, TaskOK, ReplayKey
  <2>2. TaskOK'
    BY <1>5 DEF Claim, TaskOK
  <2>3. CacheOK'
    BY <1>5, <2>1, CacheTyped DEF Claim
  <2>4. HistoryOK'
    BY <1>5, <2>1, HistoryTyped DEF Claim
  <2> QED
    BY <1>5, <2>2, <2>3, <2>4 DEF Claim, Alarms!TypeOK, Online!TypeOK
<1>16. ASSUME NEW i \in Instances, BeginAlarm(i) PROVE TypeOK'
  <2>0. clock \in Instants
    BY DEF Online!TypeOK
  <2>1. \A now \in Now : now \in Int
    BY <2>0, Readings
  <2>2. TaskOK'
    BY <1>16, <2>1 DEF BeginAlarm, Answered, TaskOK
  <2> QED
    BY <1>16, <2>2 DEF BeginAlarm, stores, cache, history, CacheOK, Alarms!TypeOK, Online!TypeOK,
       HistoryOK
<1>17. ASSUME NEW i \in Instances, BeginOnline(i) PROVE TypeOK'
  <2>1. TaskOK'
    BY <1>17 DEF BeginOnline, Answered, TaskOK
  <2>2. auth[i].api_token \in ApiTokens /\ SensorOf(msg[i].note) \in Sensors
    BY <1>17, ConstantTypes DEF BeginOnline, Answered, TaskOK
  <2>3. Online!TypeOK'
    BY <1>17, <2>2, OnlineTyped DEF BeginOnline
  <2>4. clock' = clock
    BY <1>17 DEF BeginOnline, Online!Begin
  <2> QED
    BY <1>17, <2>1, <2>3, <2>4 DEF BeginOnline, cache, history, CacheOK, Alarms!TypeOK, HistoryOK
<1>18. ASSUME NEW i \in Instances, InvalidUuid(i) \/ AnswerLost(i) PROVE TypeOK'
  <2>1. TaskOK'
    BY <1>18, ReturnTyped DEF InvalidUuid, AnswerLost
  <2>2. msg[i].note \in Notes
    BY <1>18, ConstantTypes DEF InvalidUuid, AnswerLost, Answered, TaskOK
  <2>3. HistoryOK'
    BY <1>18, <2>2, HistoryTyped DEF InvalidUuid, AnswerLost
  <2> QED
    BY <1>18, <2>1, <2>3 DEF InvalidUuid, AnswerLost, stores, cache, CacheOK, Alarms!TypeOK,
       Online!TypeOK
<1>6. ASSUME NEW i \in Instances, ClaimFails(i) PROVE TypeOK'
  <2>1. TaskOK'
    BY <1>6, ReturnTyped DEF ClaimFails
  <2>2. ReplayKey(i) \in ReplayKeys
    BY <1>6, ConstantTypes DEF ClaimFails, TaskOK, ReplayKey
  <2>3. CacheOK'
    BY <1>6, <2>2, CacheTyped DEF ClaimFails
  <2> QED
    BY <1>6, <2>1, <2>3 DEF ClaimFails, history, Alarms!TypeOK, Online!TypeOK, HistoryOK
<1>7. ASSUME NEW i \in Instances, StoreAlarm(i) PROVE TypeOK'
  <2>1. /\ msg[i] \in Messages
        /\ auth[i].api_token \in ApiTokens
        /\ at[i] \in Int
    BY <1>7, ConstantTypes DEF StoreAlarm, TaskOK
  <2>2. /\ msg[i].note \in Notes
        /\ msg[i].note.payload \in Payloads
        /\ msg[i].note.timestamp \in Int
        /\ alarm_event_key(msg[i]) \in EventKeys
    BY <2>1, ConstantTypes
  <2>3. TaskOK'
    BY <1>7, ReturnTyped DEF StoreAlarm
  <2>4. Alarms!TypeOK'
    BY <1>7, <2>1, <2>2, AlarmTyped DEF StoreAlarm
  <2>5. HistoryOK'
    BY <1>7, <2>2 DEF StoreAlarm, Store, HistoryOK
  <2> QED
    BY <1>7, <2>3, <2>4, <2>5 DEF StoreAlarm, cache, CacheOK, Online!TypeOK
<1>8. ASSUME NEW i \in Instances, AlarmFails(i) PROVE TypeOK'
  <2>1. TaskOK'
    BY <1>8, ReturnTyped DEF AlarmFails
  <2>2. msg[i].note \in Notes
    BY <1>8, ConstantTypes DEF AlarmFails, TaskOK
  <2> QED
    BY <1>8, <2>1, <2>2 DEF AlarmFails, Lose, stores, cache, CacheOK, Alarms!TypeOK,
       Online!TypeOK, HistoryOK
<1>9. ASSUME NEW i \in Instances, ReadOnline(i) PROVE TypeOK'
  <2>1. Online!TypeOK'
    BY <1>9, OnlineTyped DEF ReadOnline
  <2>2. clock' = clock
    BY <1>9 DEF ReadOnline, Online!Exists, Online!HgetCreatedAt, Online!HgetCreatedAtFails,
       Online!HgetFcmToken, Online!HgetFcmTokenFails
  <2> QED
    BY <1>9, <2>1, <2>2 DEF ReadOnline, task, cache, history, TaskOK, CacheOK, Alarms!TypeOK,
       HistoryOK
<1>10. ASSUME NEW i \in Instances, StoreOnline(i) \/ OnlineFails(i) PROVE TypeOK'
  <2>1. TaskOK'
    BY <1>10, ReturnTyped DEF StoreOnline, OnlineFails
  <2>2. Online!TypeOK'
    BY <1>10, OnlineTyped DEF StoreOnline, OnlineFails
  <2>3. clock' = clock
    BY <1>10 DEF StoreOnline, OnlineFails, Online!HsetMultiple, Online!CallFails
  <2>4. msg[i].note \in Notes
    BY <1>10, ConstantTypes DEF StoreOnline, OnlineFails, TaskOK
  <2>5. HistoryOK'
    BY <1>10, <2>4 DEF StoreOnline, OnlineFails, Store, Lose, HistoryOK
  <2> QED
    BY <1>10, <2>1, <2>2, <2>3, <2>5
       DEF StoreOnline, OnlineFails, cache, CacheOK, Alarms!TypeOK
<1>11. ASSUME NEW i \in Instances, Abort(i) PROVE TypeOK'
  <2>1. TaskOK'
    BY <1>11, ReturnTyped DEF Abort
  <2>2. Online!TypeOK'
    BY <1>11 DEF Abort, Online!TypeOK, Online!Call, Online!NoCall
  <2>3. msg[i].note \in Notes /\ ReplayKey(i) \in ReplayKeys
    BY <1>11, ConstantTypes DEF Abort, TaskOK, ReplayKey
  <2>4. HistoryOK'
    BY <1>11, <2>3, HistoryTyped DEF Abort
  <2>5. CacheOK'
    BY <1>11, <2>3, CacheTyped DEF Abort
  <2> QED
    BY <1>11, <2>1, <2>2, <2>4, <2>5 DEF Abort, Alarms!TypeOK
<1>12. ASSUME NEW s \in Sensors, NEW d \in Registrations[s], ChangeSensor(s, d) PROVE TypeOK'
  <2>1. registry' \in [Sensors -> Documents]
    BY <1>12, ConstantTypes DEF ChangeSensor
  <2> QED
    BY <1>12, <2>1
       DEF ChangeSensor, task, stores, cache, history, TaskOK, CacheOK, Alarms!TypeOK,
           Online!TypeOK, HistoryOK
<1>13. CASE Tick
  <2>1. clock' \in Nat /\ clock' \in Instants
    BY <1>13, ReceiverAssumption DEF Tick
  <2>2. UNCHANGED << registry, task, stores, history >>
    BY <1>13 DEF Tick
  <2> QED
    BY <2>1, <2>2 DEF task, stores, cache, history, TaskOK, CacheOK, Alarms!TypeOK,
       Online!TypeOK, HistoryOK
<1>14. ASSUME NEW k \in ReplayKeys, LateSet(k) PROVE TypeOK'
  <2>1. CacheOK'
    BY <1>14, CacheTyped DEF LateSet
  <2> QED
    BY <1>14, <2>1 DEF LateSet, task, history, TaskOK, Alarms!TypeOK, Online!TypeOK, HistoryOK
<1>15. CASE UNCHANGED vars
  BY <1>15 DEF vars, task, stores, cache, history, TaskOK, CacheOK, Alarms!TypeOK,
     Online!TypeOK, HistoryOK
<1> QED
  BY <1>1, <1>2, <1>3, <1>4, <1>5, <1>6, <1>7, <1>8, <1>9, <1>10, <1>11, <1>12, <1>13, <1>14,
     <1>15, <1>16, <1>17, <1>18
     DEF Next, Step

(* The state keeps its shape in every behaviour of process_mqtt_message.   *)
THEOREM TypeCorrect == Spec => []TypeOK
BY InitTyped, StepTyped, PTL DEF Spec

-----------------------------------------------------------------------------
(* AtMostOnce is not inductive: it must be known that a receiver that is   *)
(* about to claim looked at a fresh notification, and that the replay key  *)
(* of a notification that was claimed lasts until it can be fresh for      *)
(* nobody.  And freshness means what it says only while no difference of   *)
(* two times overflows: the clock is in range, and the timestamp of a      *)
(* message that passed the first checks is positive.                       *)

Checked == \A i \in Instances : pc[i] # "idle" => WellFormed(msg[i])

Timing ==
  \A i \in Instances : pc[i] = "claim" =>
    /\ at[i] <= clock
    /\ Opens(msg[i].note) <= at[i]
    /\ at[i] <= Closes(msg[i].note)

ClaimsCached ==
  \A n \in Notes : claimed[n] >= 1 =>
    Opens(n) + 1000 * SIGNED_REPLAY_CACHE_TTL_SECS <= replay[signed_replay_key(n)]

ClaimInv == TypeOK /\ Checked /\ Timing /\ ClaimsCached /\ AtMostOnce

LEMMA NoteTypes ==
  ASSUME NEW n \in Notes
  PROVE  n.timestamp \in Int /\ signed_replay_key(n) \in ReplayKeys
BY ConstantTypes DEF Notes, ReplayKeys

(* The replay key outlives the window, the delay of a claim included.      *)
LEMMA WindowTypes ==
  /\ 1000 * SIGNED_REPLAY_CACHE_TTL_SECS \in Nat
  /\ MaxClaimDelay \in Nat
  /\ \A n \in Notes :
       /\ Opens(n) \in Int /\ Closes(n) \in Int
       /\ Closes(n) + MaxClaimDelay < Opens(n) + 1000 * SIGNED_REPLAY_CACHE_TTL_SECS
<1>1. /\ SIGNED_REPLAY_CACHE_TTL_SECS \in Nat /\ SIGNED_MESSAGE_MAX_SKEW_SECS \in Nat
      /\ MaxClaimDelay \in Nat /\ MaxClockError \in Nat
  BY ReceiverAssumption, SkewAssumption
<1> QED
  BY <1>1, NoteTypes, CacheOutlivesWindow DEF Opens, Closes

(* Time passes in steps of its own.                                        *)
LEMMA ClockMoves ==
  ASSUME TypeOK, [Next]_vars
  PROVE  /\ clock' = clock \/ Tick
         /\ clock \in Nat /\ clock' \in Nat /\ clock <= clock'
<1>1. clock' = clock \/ Tick
  BY DEF Next, Step, Receive, Lookup, Admit, Reject, Claim, Refuse, ClaimFails, LateSet,
     BeginAlarm, BeginOnline, InvalidUuid, AnswerLost, StoreAlarm, AlarmFails, ReadOnline,
     StoreOnline, OnlineFails, Abort, ChangeSensor, vars, stores, Online!Begin, Online!Exists,
     Online!HgetCreatedAt, Online!HgetCreatedAtFails, Online!HgetFcmToken,
     Online!HgetFcmTokenFails, Online!HsetMultiple, Online!CallFails
<1>2. clock \in Nat
  BY DEF TypeOK
<1>3. CASE Tick
  BY <1>1, <1>2, <1>3, ReceiverAssumption DEF Tick
<1>4. CASE clock' = clock
  BY <1>1, <1>2, <1>4
<1> QED
  BY <1>1, <1>3, <1>4

LEMMA CheckedStep == TypeOK /\ Checked /\ [Next]_vars => Checked'
<1> SUFFICES ASSUME TypeOK, Checked, [Next]_vars PROVE Checked'
  OBVIOUS
<1>2. \A i \in Instances : pc'[i] # "idle" => WellFormed(msg'[i])
  <2>1. ASSUME NEW i \in Instances, NEW m \in Messages, Receive(i, m),
               NEW j \in Instances, pc'[j] # "idle"
        PROVE  WellFormed(msg'[j])
    <3>1. WellFormed(m) /\ msg' = [msg EXCEPT ![i] = m]
      BY <2>1 DEF Receive
    <3>2. j # i => pc[j] # "idle" /\ msg'[j] = msg[j]
      BY <2>1 DEF Receive, TypeOK
    <3>3. j = i => msg'[j] = m
      BY <3>1 DEF TypeOK
    <3> QED
      BY <3>1, <3>2, <3>3 DEF Checked
  <2>2. CASE \A j \in Instances : pc'[j] # "idle" => pc[j] # "idle" /\ msg'[j] = msg[j]
    BY <2>2 DEF Checked
  <2>3. ASSUME NEW i \in Instances, Step(i) \/ Abort(i), NEW j \in Instances, pc'[j] # "idle"
        PROVE  pc[j] # "idle" /\ msg'[j] = msg[j]
    BY <2>3 DEF Step, Lookup, Admit, Reject, Claim, Refuse, ClaimFails, BeginAlarm, BeginOnline,
       InvalidUuid, AnswerLost, Answered, StoreAlarm, AlarmFails, ReadOnline, StoreOnline,
       OnlineFails, Abort, Return, task, TypeOK
  <2>4. ASSUME UNCHANGED << pc, msg >>, NEW j \in Instances, pc'[j] # "idle"
        PROVE  pc[j] # "idle" /\ msg'[j] = msg[j]
    BY <2>4
  <2>5. \/ \E i \in Instances, m \in Messages : Receive(i, m)
        \/ \E i \in Instances : Step(i) \/ Abort(i)
        \/ UNCHANGED << pc, msg >>
    BY DEF Next, LateSet, ChangeSensor, Tick, vars, task
  <2> QED
    BY <2>1, <2>2, <2>3, <2>4, <2>5
<1> QED
  BY <1>2 DEF Checked

(* A whole number of seconds and what as_secs cuts off.                    *)
LEMMA WholeSeconds ==
  ASSUME NEW now \in Nat
  PROVE  /\ AsSecs(now) \in Nat
         /\ 1000 * AsSecs(now) <= now /\ now <= 1000 * AsSecs(now) + 999
BY DEF AsSecs

(* What Fresh says of any reading of the clock holds of the clock inside   *)
(* the window: neither the difference nor its magnitude overflows.         *)
LEMMA FreshInWindow ==
  ASSUME clock \in Instants, NEW now \in Now, NEW n \in Notes,
         n.timestamp \in 1 .. (I64 - 1), Fresh(AsSecs(now), n.timestamp)
  PROVE  Opens(n) <= clock /\ clock <= Closes(n)
<1> DEFINE s == AsSecs(now)
           t == n.timestamp
<1>1. /\ clock \in Nat /\ MaxClockError \in Nat /\ I64 \in Nat
      /\ now \in Nat /\ now < 1000 * I64
      /\ now <= clock + MaxClockError /\ clock <= now + MaxClockError
  BY Readings
<1>2. s \in Nat /\ 1000 * s <= now /\ now <= 1000 * s + 999
  BY <1>1, WholeSeconds
<1>3. s < I64 /\ t \in Nat /\ t > 0 /\ t < I64 /\ SIGNED_MESSAGE_MAX_SKEW_SECS \in Nat
  BY <1>1, <1>2, SkewAssumption
<1>4. Magnitude(Wrapped(s - t)) <= SIGNED_MESSAGE_MAX_SKEW_SECS
  BY DEF Fresh
<1> HIDE DEF s, t
<1>5. Wrapped(s - t) = s - t
  BY <1>1, <1>2, <1>3 DEF Wrapped
<1>6. Magnitude(s - t) = IF s < t THEN t - s ELSE s - t
  BY <1>1, <1>2, <1>3 DEF Wrapped, Magnitude
<1>7. s - t <= SIGNED_MESSAGE_MAX_SKEW_SECS /\ t - s <= SIGNED_MESSAGE_MAX_SKEW_SECS
  BY <1>2, <1>3, <1>4, <1>5, <1>6
<1> QED
  BY <1>1, <1>2, <1>3, <1>7 DEF Opens, Closes, t

(* A key that is not cached can be set: it then lasts longer than before.  *)
LEMMA SetNonceExtends ==
  ASSUME TypeOK, NEW k \in ReplayKeys, ~Cached(k), replay' = SetNonce(k)
  PROVE  /\ replay'[k] = clock + 1000 * SIGNED_REPLAY_CACHE_TTL_SECS
         /\ \A j \in ReplayKeys : replay[j] <= replay'[j]
BY WindowTypes DEF SetNonce, Cached, TypeOK

(* What has been claimed stays cached where the cache only grows.          *)
LEMMA ClaimsStayCached ==
  ASSUME TypeOK, TypeOK', ClaimsCached, claimed' = claimed,
         \A k \in ReplayKeys : replay[k] <= replay'[k]
  PROVE  ClaimsCached'
<1> SUFFICES ASSUME NEW n \in Notes, claimed[n] >= 1
             PROVE  Opens(n) + 1000 * SIGNED_REPLAY_CACHE_TTL_SECS
                      <= replay'[signed_replay_key(n)]
  BY DEF ClaimsCached
<1>1. /\ Opens(n) \in Int
      /\ signed_replay_key(n) \in ReplayKeys
  BY NoteTypes, WindowTypes
<1>2. /\ replay[signed_replay_key(n)] \in Nat
      /\ replay'[signed_replay_key(n)] \in Nat
  BY <1>1 DEF TypeOK
<1> QED
  BY <1>1, <1>2, WindowTypes DEF ClaimsCached

(* The heart of the matter: whoever claims a notification in time finds    *)
(* its key cached if it was ever claimed before.                           *)
LEMMA ClaimedIsCached ==
  ASSUME ClaimInv, NEW i \in Instances, pc[i] = "claim", AnswersInTime(i), ~Cached(ReplayKey(i))
  PROVE  claimed[msg[i].note] = 0
<1> DEFINE n == msg[i].note
<1>1. n \in Notes
  BY ConstantTypes, TypeOKParts DEF ClaimInv, TaskOK
<1>2. signed_replay_key(n) \in ReplayKeys
  BY <1>1, NoteTypes
<1>3. /\ claimed[n] \in Nat
      /\ replay[signed_replay_key(n)] \in Nat
      /\ clock \in Nat
      /\ at[i] \in Int
  BY <1>1, <1>2 DEF ClaimInv, TypeOK
<1>4. clock <= Closes(n) + MaxClaimDelay
  BY <1>1, <1>3, WindowTypes DEF ClaimInv, Timing, AnswersInTime
<1>5. replay[signed_replay_key(n)] <= clock
  BY <1>3 DEF Cached, ReplayKey
<1>6. claimed[n] >= 1 =>
        Opens(n) + 1000 * SIGNED_REPLAY_CACHE_TTL_SECS <= replay[signed_replay_key(n)]
  BY <1>1 DEF ClaimInv, ClaimsCached
<1> QED
  BY <1>1, <1>2, <1>3, <1>4, <1>5, <1>6, WindowTypes

LEMMA ClaimInvInit == Init => ClaimInv
BY InitTyped DEF Init, ClaimInv, Checked, Timing, ClaimsCached, AtMostOnce

LEMMA ClaimInvStep == ClaimInv /\ [Next]_vars => ClaimInv'
<1> SUFFICES ASSUME ClaimInv, [Next]_vars PROVE ClaimInv'
  OBVIOUS
<1>1. TypeOK /\ TypeOK' /\ Checked /\ Checked'
  BY StepTyped, CheckedStep DEF ClaimInv
<1>2. ASSUME NEW i \in Instances, Admit(i) PROVE ClaimInv'
  <2>1. Timing'
    <3>1. msg[i] \in Messages /\ auth[i] \in Documents
      BY <1>1, <1>2, TypeOKParts DEF Admit, TaskOK
    <3>2. msg[i].note \in Notes /\ msg[i].note.timestamp \in 1 .. (I64 - 1)
      <4>1. msg[i].note.timestamp > 0
        BY <1>1, <1>2 DEF Admit, Checked, WellFormed, validate_signed_envelope
      <4>2. msg[i].note.timestamp \in -I64 .. (I64 - 1)
        BY <3>1, ReceiverAssumption
      <4>3. msg[i].note \in Notes
        BY <3>1, ConstantTypes
      <4> QED
        BY <4>1, <4>2, <4>3, SkewAssumption
    <3>3. PICK now \in Now : Fresh(AsSecs(now), msg[i].note.timestamp)
      BY <1>2 DEF Admit, Admits
    <3>4. Opens(msg[i].note) <= clock /\ clock <= Closes(msg[i].note)
      BY <1>1, <3>2, <3>3, FreshInWindow, TypeOKParts DEF Online!TypeOK
    <3>5. /\ pc' = [pc EXCEPT ![i] = "claim"]
          /\ at' = [at EXCEPT ![i] = clock]
          /\ msg' = msg /\ clock' = clock
      BY <1>2 DEF Admit
    <3>6. clock <= clock
      BY <1>1, TypeOKParts
    <3> QED
      BY <1>1, <3>4, <3>5, <3>6, TypeOKParts DEF ClaimInv, Timing, TaskOK
  <2> QED
    BY <1>1, <1>2, <2>1 DEF Admit, stores, cache, history, ClaimInv, ClaimsCached, AtMostOnce
<1>3. ASSUME NEW i \in Instances, Claim(i) PROVE ClaimInv'
  <2> DEFINE n == msg[i].note
  <2>1. /\ n \in Notes
        /\ ReplayKey(i) \in ReplayKeys
        /\ clock \in Nat
        /\ at[i] \in Int
    BY <1>1, <1>3, ConstantTypes, TypeOKParts DEF Claim, TaskOK, ReplayKey
  <2>7. Opens(n) \in Int
    BY <2>1, WindowTypes
  <2>2. claimed[n] = 0 /\ claimed' = [claimed EXCEPT ![n] = @ + 1]
    BY <1>3, ClaimedIsCached DEF Claim
  <2>3. AtMostOnce'
    BY <1>1, <2>1, <2>2 DEF ClaimInv, AtMostOnce, TypeOK
  <2>4. /\ replay'[ReplayKey(i)] = clock + 1000 * SIGNED_REPLAY_CACHE_TTL_SECS
        /\ \A k \in ReplayKeys : replay[k] <= replay'[k]
    BY <1>1, <1>3, <2>1, SetNonceExtends DEF Claim
  <2>5. ClaimsCached'
    <3> SUFFICES ASSUME NEW o \in Notes, claimed'[o] >= 1
                 PROVE  Opens(o) + 1000 * SIGNED_REPLAY_CACHE_TTL_SECS
                          <= replay'[signed_replay_key(o)]
      BY DEF ClaimsCached
    <3>1. /\ Opens(o) \in Int
          /\ signed_replay_key(o) \in ReplayKeys
      BY NoteTypes, WindowTypes
    <3>2. /\ replay[signed_replay_key(o)] \in Nat
          /\ replay'[signed_replay_key(o)] \in Nat
      BY <1>1, <3>1 DEF TypeOK
    <3>3. CASE o = n
      BY <1>3, <2>1, <2>4, <2>7, <3>3, WindowTypes DEF ClaimInv, Timing, Claim, ReplayKey
    <3>4. CASE o # n
      <4>1. claimed[o] >= 1
        BY <1>1, <2>1, <2>2, <3>4 DEF TypeOK
      <4>2. Opens(o) + 1000 * SIGNED_REPLAY_CACHE_TTL_SECS <= replay[signed_replay_key(o)]
        BY <4>1 DEF ClaimInv, ClaimsCached
      <4> QED
        BY <2>4, <3>1, <3>2, <4>2, WindowTypes
    <3> QED
      BY <3>3, <3>4
  <2>6. Timing'
    <3>1. /\ clock' = clock
          /\ pc'[i] # "claim"
          /\ \A j \in Instances \ {i} :
               pc'[j] = pc[j] /\ msg'[j] = msg[j] /\ at'[j] = at[j]
      BY <1>1, <1>3 DEF Claim, TypeOK
    <3> QED
      BY <3>1 DEF ClaimInv, Timing
  <2> QED
    BY <1>1, <2>3, <2>5, <2>6 DEF ClaimInv
<1>4. ASSUME NEW k \in ReplayKeys, LateSet(k) PROVE ClaimInv'
  <2>1. \A j \in ReplayKeys : replay[j] <= replay'[j]
    BY <1>1, <1>4, SetNonceExtends DEF LateSet, TypeOK
  <2>2. ClaimsCached'
    BY <1>1, <1>4, <2>1, ClaimsStayCached DEF ClaimInv, LateSet, history
  <2> QED
    BY <1>1, <1>4, <2>2 DEF ClaimInv, Timing, AtMostOnce, LateSet, task, history
<1>5. ASSUME NEW i \in Instances,
             \/ \E m \in Messages : Receive(i, m)
             \/ Lookup(i) \/ Reject(i) \/ Refuse(i) \/ ClaimFails(i)
             \/ BeginAlarm(i) \/ BeginOnline(i) \/ InvalidUuid(i) \/ AnswerLost(i)
             \/ StoreAlarm(i) \/ AlarmFails(i)
             \/ ReadOnline(i) \/ StoreOnline(i) \/ OnlineFails(i)
             \/ Abort(i)
      PROVE  ClaimInv'
  <2>1. clock' = clock /\ replay' = replay /\ claimed' = claimed
    BY <1>5 DEF Receive, Lookup, Reject, Refuse, ClaimFails, BeginAlarm, BeginOnline, InvalidUuid,
       AnswerLost, StoreAlarm, AlarmFails, ReadOnline, StoreOnline, OnlineFails, Abort, stores,
       cache, history, Online!Begin, Online!Exists, Online!HgetCreatedAt,
       Online!HgetCreatedAtFails, Online!HgetFcmToken, Online!HgetFcmTokenFails,
       Online!HsetMultiple, Online!CallFails
  <2>2. \A j \in Instances : pc'[j] = "claim" =>
          pc[j] = "claim" /\ msg'[j] = msg[j] /\ at'[j] = at[j]
    BY <1>1, <1>5 DEF Receive, Lookup, Reject, Refuse, ClaimFails, BeginAlarm, BeginOnline,
       InvalidUuid, AnswerLost, Answered, StoreAlarm, AlarmFails, ReadOnline, StoreOnline,
       OnlineFails, Abort, Return, task, TypeOK
  <2> QED
    BY <1>1, <2>1, <2>2 DEF ClaimInv, Timing, ClaimsCached, AtMostOnce
<1>6. CASE Tick
  <2>1. clock \in Nat /\ clock' \in Nat /\ clock <= clock'
    BY <1>1, ClockMoves
  <2>2. UNCHANGED << task, stores, history >>
    BY <1>6 DEF Tick
  <2>3. Timing'
    <3> SUFFICES ASSUME NEW i \in Instances, pc[i] = "claim" PROVE at[i] <= clock'
      BY <2>2 DEF task, ClaimInv, Timing
    <3>1. at[i] \in Int /\ at[i] <= clock
      BY <1>1, TypeOKParts DEF TaskOK, ClaimInv, Timing
    <3> QED
      BY <2>1, <3>1
  <2> QED
    BY <1>1, <2>2, <2>3 DEF stores, cache, history, ClaimInv, ClaimsCached, AtMostOnce
<1>7. CASE (\E s \in Sensors : \E d \in Registrations[s] : ChangeSensor(s, d)) \/ UNCHANGED vars
  BY <1>1, <1>7 DEF ChangeSensor, vars, task, stores, cache, history, ClaimInv, Timing, ClaimsCached,
     AtMostOnce
<1> QED
  BY <1>2, <1>3, <1>4, <1>5, <1>6, <1>7 DEF Next, Step

(* No notification wins its nonce twice, whatever is delivered, in         *)
(* whatever order, to however many receivers: claim_signed_nonce and the   *)
(* freshness test of verify_mqtt_signature (main.rs) suffice together,     *)
(* because the replay cache outlives the window (CacheOutlivesWindow).     *)
THEOREM ClaimedAtMostOnce == Spec => []AtMostOnce
<1>1. Spec => []ClaimInv
  BY ClaimInvInit, ClaimInvStep, PTL DEF Spec
<1>2. ClaimInv => AtMostOnce
  BY DEF ClaimInv
<1> QED
  BY <1>1, <1>2, PTL
-----------------------------------------------------------------------------
(* The notifications in the hands of a receiver: whose they are, and what  *)
(* becomes of them.  First the steps of Receiver are summed up, once for   *)
(* the receivers, once for the histories and once for the replay cache;    *)
(* the invariants are proved from these summaries.                         *)

Stays(j) == pc'[j] = pc[j] /\ msg'[j] = msg[j] /\ auth'[j] = auth[j] /\ at'[j] = at[j]

Keeps(j) == msg'[j] = msg[j] /\ auth'[j] = auth[j]

(* How receiver j goes on, step by step.                                   *)
Looks(j) ==
  /\ pc[j] = "lookup" /\ pc'[j] = "verify"
  /\ msg'[j] = msg[j]
  /\ auth'[j] = registry[SensorOf(msg[j].note)]

Passes(j) ==
  /\ pc[j] = "verify" /\ pc'[j] = "claim"
  /\ Keeps(j)
  /\ at'[j] = clock
  /\ \E now \in Now : Admits(auth[j], msg[j], AsSecs(now))

Wins(j) == Claim(j) /\ pc'[j] = "answer" /\ Keeps(j) /\ at'[j] = at[j]

Begins(j) ==
  /\ BeginAlarm(j) \/ BeginOnline(j)
  /\ Keeps(j)
  /\ StorableIds(auth[j].api_token, msg[j].note)
  /\ \/ IsAlarm(j) /\ pc'[j] = "alarm" /\ at'[j] \in Now
     \/ ~IsAlarm(j) /\ pc'[j] = "online"

Moves(j) ==
  \/ Stays(j)
  \/ pc'[j] \in {"idle", "lookup"}
  \/ Looks(j)
  \/ Passes(j)
  \/ Wins(j)
  \/ Begins(j)

LEMMA ReceiverMoves ==
  ASSUME TypeOK, [Next]_vars, NEW j \in Instances
  PROVE  Moves(j)
<1>0. /\ pc \in [Instances -> {"idle", "lookup", "verify", "claim", "answer", "alarm", "online"}]
      /\ msg \in [Instances -> Messages \cup {NoMessage}]
      /\ auth \in [Instances -> Documents \cup {NoAuth}]
      /\ at \in [Instances -> Int]
  BY DEF TypeOK
<1>1. ASSUME NEW i \in Instances, NEW m \in Messages, Receive(i, m) PROVE Moves(j)
  BY <1>0, <1>1 DEF Receive, Moves, Stays
<1>2. ASSUME NEW i \in Instances, Lookup(i) PROVE Moves(j)
  BY <1>0, <1>2 DEF Lookup, Moves, Stays, Looks
<1>3. ASSUME NEW i \in Instances, Admit(i) PROVE Moves(j)
  BY <1>0, <1>3 DEF Admit, Moves, Stays, Passes, Keeps
<1>4. ASSUME NEW i \in Instances, Claim(i) PROVE Moves(j)
  BY <1>0, <1>4 DEF Claim, Moves, Stays, Wins, Keeps
<1>7. ASSUME NEW i \in Instances, BeginAlarm(i) \/ BeginOnline(i) PROVE Moves(j)
  BY <1>0, <1>7 DEF BeginAlarm, BeginOnline, Answered, Moves, Stays, Begins, Keeps
<1>5. ASSUME NEW i \in Instances, Return(i) PROVE Moves(j)
  BY <1>0, <1>5 DEF Return, Moves, Stays
<1>6. CASE UNCHANGED task
  BY <1>6 DEF task, Moves, Stays
<1> QED
  BY <1>1, <1>2, <1>3, <1>4, <1>5, <1>6, <1>7
     DEF Next, Step, Reject, Refuse, ClaimFails, InvalidUuid, AnswerLost, LateSet, StoreAlarm,
         AlarmFails, ReadOnline, StoreOnline, OnlineFails, Abort, ChangeSensor, Tick, vars

(* What a step does to the histories: nothing, and then whoever holds a    *)
(* notification goes on holding it; or receiver i wins one, or ends with   *)
(* one, and nobody else does anything.                                     *)
Idles ==
  /\ UNCHANGED history
  /\ \A j \in Instances : Held(j) => Held(j)' /\ Keeps(j)
  /\ \A j \in Instances : Held(j)' => Held(j)

Gains(i) ==
  /\ Wins(i)
  /\ UNCHANGED << clock, stored, failed, aborted >>
  /\ \A j \in Instances \ {i} : Stays(j)
  /\ claimed' = [claimed EXCEPT ![msg[i].note] = @ + 1]

Ends(i) ==
  /\ Held(i) /\ pc'[i] = "idle"
  /\ \A j \in Instances \ {i} : Stays(j)
  /\ claimed' = claimed
  /\ \/ Store(msg[i].note) /\ failed' = failed /\ aborted' = aborted
     \/ Lose(msg[i].note) /\ stored' = stored /\ aborted' = aborted
     \/ aborted' = aborted \cup {msg[i].note} /\ stored' = stored /\ failed' = failed
  /\ UNCHANGED << cache, clock >>

LEMMA Ledger ==
  ASSUME TypeOK, [Next]_vars
  PROVE  Idles \/ \E i \in Instances : Gains(i) \/ Ends(i)
<1>0. /\ pc \in [Instances -> {"idle", "lookup", "verify", "claim", "answer", "alarm", "online"}]
      /\ msg \in [Instances -> Messages \cup {NoMessage}]
      /\ auth \in [Instances -> Documents \cup {NoAuth}]
      /\ at \in [Instances -> Int]
  BY DEF TypeOK
<1>1. ASSUME NEW i \in Instances, NEW m \in Messages, Receive(i, m) PROVE Idles
  BY <1>0, <1>1 DEF Receive, Idles, Keeps, Held
<1>2. ASSUME NEW i \in Instances, Lookup(i) \/ Admit(i) PROVE Idles
  BY <1>0, <1>2 DEF Lookup, Admit, Idles, Keeps, Held
<1>3. ASSUME NEW i \in Instances, ~Held(i), Return(i), UNCHANGED history PROVE Idles
  BY <1>0, <1>3 DEF Return, Idles, Keeps, Held
<1>4. ASSUME NEW i \in Instances, Claim(i) PROVE Gains(i)
  BY <1>0, <1>4 DEF Claim, Gains, Wins, Keeps, Stays
<1>13. ASSUME NEW i \in Instances, BeginAlarm(i) \/ BeginOnline(i) PROVE Idles
  BY <1>0, <1>13 DEF BeginAlarm, BeginOnline, Answered, Idles, Keeps, Held
<1>5. ASSUME NEW i \in Instances, Held(i), Return(i), UNCHANGED << claimed, cache, clock >>,
             \/ Store(msg[i].note) /\ failed' = failed /\ aborted' = aborted
             \/ Lose(msg[i].note) /\ stored' = stored /\ aborted' = aborted
             \/ /\ aborted' = aborted \cup {msg[i].note}
                /\ stored' = stored /\ failed' = failed
      PROVE  Ends(i)
  BY <1>0, <1>5 DEF Return, Ends, Stays
<1>6. ASSUME UNCHANGED << task, history >> PROVE Idles
  BY <1>6 DEF task, Idles, Keeps, Held
<1>7. ASSUME NEW i \in Instances, Reject(i) \/ Refuse(i) \/ ClaimFails(i) PROVE Idles
  BY <1>3, <1>7 DEF Reject, Refuse, ClaimFails, Held
<1>8. ASSUME NEW i \in Instances, StoreAlarm(i) \/ AlarmFails(i) PROVE Ends(i)
  BY <1>5, <1>8 DEF StoreAlarm, AlarmFails, Held, stores
<1>14. ASSUME NEW i \in Instances, InvalidUuid(i) \/ AnswerLost(i) PROVE Ends(i)
  BY <1>5, <1>14 DEF InvalidUuid, AnswerLost, Answered, Held, stores
<1>9. ASSUME NEW i \in Instances, StoreOnline(i) \/ OnlineFails(i) PROVE Ends(i)
  BY <1>5, <1>9 DEF StoreOnline, OnlineFails, Held, Online!HsetMultiple, Online!CallFails
<1>10. ASSUME NEW i \in Instances, Abort(i) PROVE Idles \/ Ends(i)
  <2>1. CASE Held(i)
    <3>1. /\ aborted' = aborted \cup {msg[i].note} /\ Return(i)
          /\ UNCHANGED << claimed, stored, failed, cache, clock >>
      BY <1>10, <2>1 DEF Abort, Held, cache
    <3> QED
      BY <1>5, <2>1, <3>1
  <2>2. CASE ~Held(i)
    BY <1>3, <1>10, <2>2 DEF Abort, Held, history
  <2> QED
    BY <2>1, <2>2
<1>11. ASSUME NEW i \in Instances, ReadOnline(i) PROVE Idles
  BY <1>6, <1>11 DEF ReadOnline
<1>12. ASSUME \/ \E k \in ReplayKeys : LateSet(k)
              \/ \E s \in Sensors : \E d \in Registrations[s] : ChangeSensor(s, d)
              \/ Tick \/ UNCHANGED vars
       PROVE  Idles
  BY <1>6, <1>12 DEF LateSet, ChangeSensor, Tick, vars
<1> QED
  BY <1>1, <1>2, <1>4, <1>7, <1>8, <1>9, <1>10, <1>11, <1>12, <1>13, <1>14
     DEF Next, Step

(* What a step does to the replay cache.                                   *)
LEMMA CacheMoves ==
  ASSUME TypeOK, [Next]_vars
  PROVE  \/ UNCHANGED cache
         \/ \E i \in Instances : Claim(i)
         \/ \E i \in Instances :
              pc[i] = "claim" /\ GiveUpClaim(ReplayKey(i)) /\ replay' = replay
         \/ \E k \in ReplayKeys : LateSet(k)
<1>1. ASSUME NEW i \in Instances, Step(i)
      PROVE  \/ UNCHANGED cache
             \/ Claim(i)
             \/ pc[i] = "claim" /\ GiveUpClaim(ReplayKey(i)) /\ replay' = replay
  BY <1>1 DEF Step, Lookup, Admit, Reject, Refuse, ClaimFails, BeginAlarm, BeginOnline,
     InvalidUuid, AnswerLost, StoreAlarm, AlarmFails, ReadOnline, StoreOnline, OnlineFails, stores
<1>2. ASSUME NEW i \in Instances, Abort(i)
      PROVE  \/ UNCHANGED cache
             \/ pc[i] = "claim" /\ GiveUpClaim(ReplayKey(i)) /\ replay' = replay
  BY <1>2 DEF Abort, cache
<1> QED
  BY <1>1, <1>2 DEF Next, Receive, ChangeSensor, Tick, vars, stores

-----------------------------------------------------------------------------
(* What a receiver knows of the message in its hands.                      *)

RegistryKnown == \A s \in Sensors : registry[s] \in Registrations[s]

Admitted(j) ==
  LET m == msg[j]
      d == auth[j]
  IN  /\ d \in Registrations[SensorOf(m.note)]
      /\ TopicFitsFeature(TopicOf(m.topic), d.feature_name)
      /\ SignedFor(d, m.note)
      /\ validate_alarm_payload(TopicOf(m.topic).alarm_type, m.note.payload)

Hands ==
  \A j \in Instances :
    /\ pc[j] = "verify" => auth[j] \in Registrations[SensorOf(msg[j].note)]
    /\ pc[j] \in {"claim", "answer", "alarm", "online"} => Admitted(j)
    /\ pc[j] \in {"alarm", "online"} =>
         /\ StorableIds(auth[j].api_token, msg[j].note)
         /\ pc[j] = "alarm" <=> IsAlarm(j)

HandsInv == TypeOK /\ Checked /\ RegistryKnown /\ Hands

LEMMA HandsInvInit == Init => HandsInv
<1> SUFFICES ASSUME Init PROVE HandsInv
  OBVIOUS
<1>1. TypeOK /\ Checked
  BY ClaimInvInit DEF ClaimInv
<1>2. RegistryKnown
  BY DEF Init, RegistryKnown
<1>3. Hands
  BY DEF Init, Hands
<1> QED
  BY <1>1, <1>2, <1>3 DEF HandsInv

LEMMA HandsInvStep == HandsInv /\ [Next]_vars => HandsInv'
<1> SUFFICES ASSUME HandsInv, [Next]_vars PROVE HandsInv'
  OBVIOUS
<1>1. TypeOK /\ TypeOK' /\ Checked /\ Checked'
  BY StepTyped, CheckedStep DEF HandsInv
<1>2. RegistryKnown'
  <2>1. CASE UNCHANGED registry
    BY <2>1 DEF HandsInv, RegistryKnown
  <2>2. ASSUME NEW s \in Sensors, NEW d \in Registrations[s], ChangeSensor(s, d)
        PROVE  RegistryKnown'
    BY <1>1, <2>2 DEF ChangeSensor, HandsInv, RegistryKnown, TypeOK
  <2> QED
    BY <2>1, <2>2 DEF Next, Step, Receive, Lookup, Admit, Reject, Claim, Refuse, ClaimFails,
       LateSet, BeginAlarm, BeginOnline, InvalidUuid, AnswerLost, StoreAlarm, AlarmFails,
       ReadOnline, StoreOnline, OnlineFails, Abort, Tick, vars
<1>3. Hands'
  <2> SUFFICES ASSUME NEW j \in Instances
      PROVE  /\ pc'[j] = "verify" => auth'[j] \in Registrations[SensorOf(msg'[j].note)]
             /\ pc'[j] \in {"claim", "answer", "alarm", "online"} => Admitted(j)'
             /\ pc'[j] \in {"alarm", "online"} =>
                  /\ StorableIds(auth'[j].api_token, msg'[j].note)
                  /\ pc'[j] = "alarm" <=> IsAlarm(j)'
    BY DEF Hands
  <2> USE DEF HandsInv, Hands
  <2>1. CASE Stays(j)
    BY <2>1 DEF Stays, Admitted, IsAlarm
  <2>2. CASE pc'[j] \in {"idle", "lookup"}
    BY <2>2
  <2>3. CASE Looks(j)
    <3>1. SensorOf(msg[j].note) \in Sensors
      BY <1>1, <2>3, ConstantTypes DEF Looks, TypeOK
    <3> QED
      BY <2>3, <3>1 DEF Looks, RegistryKnown
  <2>4. CASE Passes(j)
    BY <2>4 DEF Passes, Keeps, Admits, Admitted
  <2>5. CASE Wins(j) \/ Begins(j)
    <3>1. pc[j] \in {"claim", "answer"}
      BY <2>5 DEF Wins, Claim, Begins, BeginAlarm, BeginOnline, Answered
    <3>2. Admitted(j)' /\ (IsAlarm(j)' <=> IsAlarm(j))
      BY <2>5, <3>1 DEF Wins, Begins, Keeps, Admitted, IsAlarm
    <3> QED
      BY <2>5, <3>2 DEF Wins, Begins, Keeps
  <2> QED
    BY <1>1, <2>1, <2>2, <2>3, <2>4, <2>5, ReceiverMoves DEF Moves
<1> QED
  BY <1>1, <1>2, <1>3 DEF HandsInv

LEMMA HandsInvariant == Spec => []HandsInv
  BY HandsInvInit, HandsInvStep, PTL DEF Spec

-----------------------------------------------------------------------------
(* Only a genuine message uses up a nonce.                                 *)

(* A SET that Redis has yet to apply is also that of a genuine message.    *)
SentByGenuine ==
  \A k \in ReplayKeys : unanswered[k] = "sent" => \E n \in Genuine : signed_replay_key(n) = k

GenuineInv == HandsInv /\ NonceUsedByGenuine /\ SentByGenuine

LEMMA ClaimantIsGenuine ==
  ASSUME HandsInv, NEW i \in Instances, pc[i] = "claim"
  PROVE  msg[i].note \in Genuine /\ msg[i].note \in Notes /\ ReplayKey(i) \in ReplayKeys
<1>1. msg[i] \in Messages /\ WellFormed(msg[i]) /\ Admitted(i)
  BY DEF HandsInv, TypeOK, Checked, Hands
<1>2. msg[i].note \in Notes /\ ReplayKey(i) \in ReplayKeys
  BY <1>1, ConstantTypes DEF ReplayKey
<1> QED
  BY <1>1, <1>2 DEF Genuine, Admitted

LEMMA GenuineInvStep == GenuineInv /\ [Next]_vars => GenuineInv'
<1> SUFFICES ASSUME GenuineInv, [Next]_vars PROVE GenuineInv'
  OBVIOUS
<1>1. HandsInv /\ HandsInv' /\ TypeOK /\ TypeOK'
  BY HandsInvStep DEF GenuineInv, HandsInv
<1>2. \A n \in Notes : claimed'[n] >= 1 => n \in Genuine
  <2>1. ASSUME NEW i \in Instances, Gains(i), NEW n \in Notes, claimed'[n] >= 1
        PROVE  n \in Genuine
    <3>1. n = msg[i].note \/ claimed'[n] = claimed[n]
      BY <1>1, <2>1 DEF Gains, TypeOK
    <3> QED
      BY <1>1, <2>1, <3>1, ClaimantIsGenuine
         DEF Gains, Wins, Claim, GenuineInv, NonceUsedByGenuine
  <2>2. CASE claimed' = claimed
    BY <2>2 DEF GenuineInv, NonceUsedByGenuine
  <2> QED
    BY <1>1, <2>1, <2>2, Ledger DEF Idles, Ends, history
<1>3. ASSUME NEW k \in ReplayKeys, replay'[k] > 0 \/ unanswered'[k] = "sent"
      PROVE  \E n \in Genuine : signed_replay_key(n) = k
  <2>1. CASE replay'[k] = replay[k] /\ unanswered'[k] = unanswered[k]
    BY <1>3, <2>1 DEF GenuineInv, NonceUsedByGenuine, SentByGenuine
  <2>2. ASSUME NEW i \in Instances, pc[i] = "claim", k = ReplayKey(i)
        PROVE  \E n \in Genuine : signed_replay_key(n) = k
    BY <1>1, <2>2, ClaimantIsGenuine DEF ReplayKey
  <2>3. ASSUME NEW i \in Instances, Claim(i), k # ReplayKey(i)
        PROVE  replay'[k] = replay[k] /\ unanswered'[k] = unanswered[k]
    BY <1>1, <2>3 DEF Claim, SetNonce, TypeOK
  <2>4. ASSUME NEW i \in Instances, GiveUpClaim(ReplayKey(i)), replay' = replay, k # ReplayKey(i)
        PROVE  replay'[k] = replay[k] /\ unanswered'[k] = unanswered[k]
    BY <1>1, <2>4 DEF GiveUpClaim, TypeOK
  <2>5. ASSUME NEW j \in ReplayKeys, LateSet(j)
        PROVE  \/ unanswered[k] = "sent"
               \/ replay'[k] = replay[k] /\ unanswered'[k] = unanswered[k]
    BY <1>1, <2>5 DEF LateSet, SetNonce, TypeOK
  <2>6. CASE unanswered[k] = "sent"
    BY <2>6 DEF GenuineInv, SentByGenuine
  <2>7. CASE UNCHANGED cache
    BY <2>1, <2>7 DEF cache
  <2> QED
    BY <1>1, <2>1, <2>2, <2>3, <2>4, <2>5, <2>6, <2>7, CacheMoves DEF Claim
<1> QED
  BY <1>1, <1>2, <1>3 DEF GenuineInv, NonceUsedByGenuine, SentByGenuine

(* A forged or misdirected message uses up no nonce, in the hands of       *)
(* however many receivers and however late Redis applies their SETs: all   *)
(* that process_mqtt_message must refuse is refused before the claim of    *)
(* main.rs:330.                                                            *)
THEOREM NoncesAreGenuine == Spec => []NonceUsedByGenuine
<1>1. Init => GenuineInv
  BY HandsInvInit DEF Init, GenuineInv, NonceUsedByGenuine, SentByGenuine
<1>2. GenuineInv => NonceUsedByGenuine
  BY DEF GenuineInv
<1> QED
  BY <1>1, <1>2, GenuineInvStep, PTL DEF Spec

-----------------------------------------------------------------------------
(* At most one effect.                                                     *)

(* A notification that has won its nonce is in the hands of one receiver,  *)
(* or in a store, or lost, and no two of these.                            *)
SolelyHeld ==
  \A j \in Instances : Held(j) =>
    /\ claimed[msg[j].note] = 1
    /\ stored[msg[j].note] = 0
    /\ msg[j].note \notin failed \cup aborted
    /\ \A i \in Instances : Held(i) /\ msg[i].note = msg[j].note => i = j

OneOutcome ==
  /\ \A n \in Notes : stored[n] <= claimed[n]
  /\ \A n \in failed \cup aborted : claimed[n] = 1 /\ stored[n] = 0

EffectInv == ClaimInv /\ SolelyHeld /\ OneOutcome

LEMMA HeldNotes ==
  ASSUME TypeOK, NEW i \in Instances, pc[i] # "idle"
  PROVE  msg[i].note \in Notes
BY ConstantTypes DEF TypeOK

LEMMA EffectInvInit == Init => EffectInv
<1> SUFFICES ASSUME Init PROVE EffectInv
  OBVIOUS
<1>1. SolelyHeld
  BY DEF Init, SolelyHeld, Held
<1>2. OneOutcome
  BY DEF Init, OneOutcome
<1> QED
  BY <1>1, <1>2, ClaimInvInit DEF EffectInv

(* The winner of a nonce is the first to hold the notification.            *)
LEMMA WinnerIsFirst ==
  ASSUME EffectInv, NEW i \in Instances, Gains(i)
  PROVE  /\ claimed[msg[i].note] = 0 /\ stored[msg[i].note] = 0
         /\ msg[i].note \notin failed \cup aborted
         /\ \A j \in Instances : Held(j) => msg[j].note # msg[i].note
<1> DEFINE n == msg[i].note
<1>1. pc[i] = "claim" /\ AnswersInTime(i) /\ ~Cached(ReplayKey(i))
  BY DEF Gains, Wins, Claim
<1>2. claimed[n] = 0 /\ n \in Notes
  BY <1>1, ClaimedIsCached, HeldNotes DEF EffectInv, ClaimInv
<1>3. stored[n] \in Nat /\ stored[n] <= claimed[n]
  BY <1>2 DEF EffectInv, ClaimInv, TypeOK, OneOutcome
<1> QED
  BY <1>2, <1>3 DEF EffectInv, OneOutcome, SolelyHeld

LEMMA EffectInvStep == EffectInv /\ [Next]_vars => EffectInv'
<1> SUFFICES ASSUME EffectInv, [Next]_vars PROVE EffectInv'
  OBVIOUS
<1>1. ClaimInv' /\ TypeOK /\ TypeOK'
  BY ClaimInvStep, StepTyped DEF EffectInv, ClaimInv
<1>2. CASE Idles
  <2>1. SolelyHeld'
    BY <1>2 DEF EffectInv, SolelyHeld, Idles, Keeps, history
  <2> QED
    BY <1>1, <1>2, <2>1 DEF EffectInv, OneOutcome, Idles, history
<1>3. ASSUME NEW i \in Instances, Gains(i) PROVE SolelyHeld' /\ OneOutcome'
  <2> DEFINE n == msg[i].note
  <2>1. /\ n \in Notes
        /\ claimed \in [Notes -> Nat] /\ stored \in [Notes -> Nat]
        /\ failed \cup aborted \subseteq Notes
    BY <1>1, <1>3, HeldNotes DEF Gains, Wins, Claim, TypeOK
  <2>2. /\ claimed[n] = 0 /\ stored[n] = 0 /\ n \notin failed \cup aborted
        /\ \A j \in Instances : Held(j) => msg[j].note # n
    BY <1>3, WinnerIsFirst
  <2>3. /\ claimed'[n] = 1 /\ stored' = stored /\ failed' = failed /\ aborted' = aborted
        /\ \A o \in Notes \ {n} : claimed'[o] = claimed[o]
    BY <1>3, <2>1, <2>2 DEF Gains
  <2>4. OneOutcome'
    <3>1. \A o \in Notes : stored'[o] <= claimed'[o]
      BY <2>1, <2>2, <2>3 DEF EffectInv, OneOutcome
    <3>2. \A o \in failed' \cup aborted' : claimed'[o] = 1 /\ stored'[o] = 0
      BY <2>1, <2>2, <2>3 DEF EffectInv, OneOutcome
    <3> QED
      BY <3>1, <3>2 DEF OneOutcome
  <2>5. ASSUME NEW j \in Instances, Held(j)', j # i
        PROVE  Held(j) /\ msg'[j] = msg[j] /\ msg[j].note \in Notes \ {n}
    <3>1. Stays(j)
      BY <1>3, <2>5 DEF Gains
    <3>2. Held(j) /\ msg'[j] = msg[j]
      BY <2>5, <3>1 DEF Stays, Held
    <3> QED
      BY <1>1, <2>2, <3>2, HeldNotes DEF Held
  <2>6. msg'[i] = msg[i]
    BY <1>3 DEF Gains, Wins, Keeps
  <2>8. SolelyHeld'
    <3> SUFFICES ASSUME NEW j \in Instances, Held(j)'
        PROVE  /\ claimed'[msg'[j].note] = 1
               /\ stored'[msg'[j].note] = 0
               /\ msg'[j].note \notin failed' \cup aborted'
               /\ \A k \in Instances : Held(k)' /\ msg'[k].note = msg'[j].note => k = j
      BY DEF SolelyHeld
    <3>1. CASE j = i
      BY <2>2, <2>3, <2>5, <2>6, <3>1
    <3>2. CASE j # i
      <4>1. /\ claimed[msg[j].note] = 1 /\ stored[msg[j].note] = 0
            /\ msg[j].note \notin failed \cup aborted
            /\ \A k \in Instances : Held(k) /\ msg[k].note = msg[j].note => k = j
        BY <2>5, <3>2 DEF EffectInv, SolelyHeld
      <4> QED
        BY <2>3, <2>5, <2>6, <3>2, <4>1
    <3> QED
      BY <3>1, <3>2
  <2> QED
    BY <2>4, <2>8
<1>4. ASSUME NEW i \in Instances, Ends(i) PROVE SolelyHeld' /\ OneOutcome'
  <2> DEFINE n == msg[i].note
  <2>1. /\ n \in Notes
        /\ claimed \in [Notes -> Nat] /\ stored \in [Notes -> Nat]
        /\ failed \cup aborted \subseteq Notes
    BY <1>1, <1>4, HeldNotes DEF Ends, Held, TypeOK
  <2>2. /\ claimed[n] = 1 /\ stored[n] = 0 /\ n \notin failed \cup aborted
        /\ claimed' = claimed
    BY <1>4 DEF Ends, EffectInv, SolelyHeld
  <2>3. /\ \A o \in Notes \ {n} : stored'[o] = stored[o]
        /\ failed' \cup aborted' \subseteq failed \cup aborted \cup {n}
        /\ \/ stored'[n] = 0
           \/ stored'[n] = 1 /\ failed' = failed /\ aborted' = aborted
    BY <1>4, <2>1, <2>2 DEF Ends, Store, Lose
  <2>4. OneOutcome'
    BY <2>1, <2>2, <2>3 DEF EffectInv, OneOutcome
  <2>5. ASSUME NEW j \in Instances, Held(j)'
        PROVE  Held(j) /\ msg'[j] = msg[j] /\ msg[j].note \in Notes \ {n}
    <3>1. j # i
      BY <1>4, <2>5 DEF Ends, Held
    <3>2. Held(j) /\ msg'[j] = msg[j]
      BY <1>4, <2>5, <3>1 DEF Ends, Stays, Held
    <3>3. msg[j].note # n
      BY <1>4, <3>1, <3>2 DEF Ends, EffectInv, SolelyHeld
    <3> QED
      BY <1>1, <3>2, <3>3, HeldNotes DEF Held
  <2>6. SolelyHeld'
    BY <2>2, <2>3, <2>5 DEF EffectInv, SolelyHeld
  <2> QED
    BY <2>4, <2>6
<1> QED
  BY <1>1, <1>2, <1>3, <1>4, Ledger DEF EffectInv

LEMMA EffectInvariant == Spec => []EffectInv
  BY EffectInvInit, EffectInvStep, PTL DEF Spec

(* However often a notification is delivered, to however many receivers    *)
(* and on however many topics, and wherever they crash, it reaches the     *)
(* stores at most once, and only after its claim (main.rs:330-349).        *)
THEOREM OneEffect == Spec => []EffectOnce
<1>1. EffectInv => EffectOnce
  <2> SUFFICES ASSUME EffectInv, NEW n \in Notes PROVE stored[n] <= claimed[n] /\ stored[n] <= 1
    BY DEF EffectOnce
  <2>1. stored[n] \in Nat /\ claimed[n] \in Nat
    BY DEF EffectInv, ClaimInv, TypeOK
  <2>2. stored[n] <= claimed[n] /\ claimed[n] <= 1
    BY DEF EffectInv, ClaimInv, AtMostOnce, OneOutcome
  <2> QED
    BY <2>1, <2>2
<1> QED
  BY <1>1, EffectInvariant, PTL

-----------------------------------------------------------------------------
(* What becomes of a notification that has won its nonce.                  *)

Traced(n) == Outcome(n) \/ InFlight(n)

LEMMA TracedStays ==
  ASSUME TypeOK, [Next]_vars, NEW n \in Notes, Traced(n)
  PROVE  Traced(n)'
<1>0. stored \in [Notes -> Nat]
  BY DEF TypeOK
<1>1. Outcome(n) => Outcome(n)'
  BY <1>0, HeldNotes, Ledger DEF Outcome, Idles, Gains, Ends, Store, Lose, history
<1>2. ASSUME NEW i \in Instances, Ends(i), msg[i].note = n
      PROVE  Outcome(n)'
  BY <1>0, <1>2 DEF Ends, Store, Lose, Outcome
<1>3. ASSUME NEW j \in Instances, Held(j), msg[j].note = n, ~Ends(j)
      PROVE  InFlight(n)'
  <2>1. Held(j)' /\ msg'[j] = msg[j]
    <3>1. CASE Idles
      BY <1>3, <3>1 DEF Idles, Keeps
    <3>2. ASSUME NEW i \in Instances, Gains(i) \/ Ends(i) PROVE Stays(j)
      <4>1. j # i
        BY <1>3, <3>2 DEF Gains, Wins, Claim, Held
      <4> QED
        BY <3>2, <4>1 DEF Gains, Ends
    <3>3. Stays(j) => Held(j)' /\ msg'[j] = msg[j]
      BY <1>3 DEF Stays, Held
    <3> QED
      BY <3>1, <3>2, <3>3, Ledger
  <2> QED
    BY <1>3, <2>1 DEF InFlight
<1> QED
  BY <1>1, <1>2, <1>3 DEF Traced, InFlight

(* Whoever wins a nonce holds the notification.                            *)
LEMMA WinnerIsTraced ==
  ASSUME NEW i \in Instances, Gains(i), NEW n \in Notes, n = msg[i].note
  PROVE  Traced(n)'
BY DEF Gains, Wins, Keeps, Traced, InFlight, Held

LEMMA AccountedStep == TypeOK /\ ClaimAccountedFor /\ [Next]_vars => ClaimAccountedFor'
<1> SUFFICES ASSUME TypeOK, ClaimAccountedFor, [Next]_vars PROVE ClaimAccountedFor'
  OBVIOUS
<1>1. ASSUME NEW n \in Notes, claimed'[n] >= 1 PROVE Traced(n)'
  <2>1. CASE claimed[n] >= 1
    BY <2>1, TracedStays DEF ClaimAccountedFor, Traced
  <2>2. CASE ~(claimed[n] >= 1)
    <3>1. PICK i \in Instances : Gains(i)
      BY <1>1, <2>2, Ledger DEF Idles, Ends, history
    <3>2. n = msg[i].note
      BY <1>1, <2>2, <3>1 DEF Gains, TypeOK
    <3> QED
      BY <3>1, <3>2, WinnerIsTraced
  <2> QED
    BY <2>1, <2>2
<1>2. ASSUME NEW k \in ReplayKeys, replay'[k] > 0, unanswered'[k] = "never"
      PROVE  \E n \in Notes : signed_replay_key(n) = k /\ Traced(n)'
  <2>1. CASE replay'[k] = replay[k] /\ unanswered'[k] = unanswered[k]
    <3>1. PICK n \in Notes : signed_replay_key(n) = k /\ Traced(n)
      BY <1>2, <2>1 DEF ClaimAccountedFor, Traced
    <3> QED
      BY <3>1, TracedStays
  <2>2. ASSUME NEW i \in Instances, Claim(i), k = ReplayKey(i)
        PROVE  \E n \in Notes : signed_replay_key(n) = k /\ Traced(n)'
    <3>1. Gains(i)
      <4>1. \/ Idles
            \/ \E j \in Instances : Gains(j) \/ Ends(j)
        BY Ledger
      <4>2. claimed' # claimed /\ pc[i] = "claim" /\ pc'[i] # "claim"
        BY <2>2, HeldNotes DEF Claim, TypeOK
      <4> QED
        BY <4>1, <4>2 DEF Idles, history, Gains, Ends, Stays
    <3>2. msg[i].note \in Notes
      BY <2>2, HeldNotes DEF Claim
    <3> QED
      BY <2>2, <3>1, <3>2, WinnerIsTraced DEF ReplayKey
  <2>3. ASSUME NEW i \in Instances, Claim(i), k # ReplayKey(i)
        PROVE  replay'[k] = replay[k] /\ unanswered'[k] = unanswered[k]
    BY <2>3 DEF Claim, SetNonce, TypeOK
  <2>4. ASSUME NEW i \in Instances, GiveUpClaim(ReplayKey(i)), replay' = replay
        PROVE  replay'[k] = replay[k] /\ unanswered'[k] = unanswered[k]
    BY <1>2, <2>4 DEF GiveUpClaim, TypeOK
  <2>5. ASSUME NEW j \in ReplayKeys, LateSet(j)
        PROVE  replay'[k] = replay[k] /\ unanswered'[k] = unanswered[k]
    BY <1>2, <2>5 DEF LateSet, SetNonce, TypeOK
  <2>6. CASE UNCHANGED cache
    BY <2>1, <2>6 DEF cache
  <2> QED
    BY <2>1, <2>2, <2>3, <2>4, <2>5, <2>6, CacheMoves
<1> QED
  BY <1>1, <1>2 DEF ClaimAccountedFor, Traced

(* Between the claim (main.rs:330) and the end of the write (main.rs:349)  *)
(* no notification vanishes, unless the task that holds it is dropped (an  *)
(* abort, main.rs:284, or a crash): it is held, stored or reported, and a  *)
(* replay key for which no claim went unanswered stands for such a one.    *)
THEOREM NothingVanishes == Spec => []ClaimAccountedFor
<1>1. Init => ClaimAccountedFor
  BY DEF Init, ClaimAccountedFor
<1> QED
  BY <1>1, InitTyped, StepTyped, AccountedStep, PTL DEF Spec
=============================================================================
