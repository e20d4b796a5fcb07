------------------------- MODULE ReceiverStoreProofs -------------------------
(***************************************************************************)
(* Theorems about what Receiver leaves in the two stores: the alarm events *)
(* of Redis 3 with their index, and the hashes of Redis 0.                 *)
(***************************************************************************)
EXTENDS ReceiverProofs

(* The only step that writes an alarm event.                               *)
LEMMA AlarmMoves ==
  ASSUME [Next]_vars
  PROVE  UNCHANGED << alarms, pending >> \/ \E i \in Instances : StoreAlarm(i)
BY DEF Next, Step, Receive, Lookup, Admit, Reject, Claim, Refuse, ClaimFails, LateSet, BeginAlarm,
   BeginOnline, InvalidUuid, AnswerLost, AlarmFails, ReadOnline, StoreOnline, OnlineFails, Abort,
   ChangeSensor, Tick, vars, stores

(* ... and what it writes.                                                 *)
LEMMA Stored ==
  ASSUME TypeOK, NEW i \in Instances, StoreAlarm(i)
  PROVE  /\ msg[i] \in Messages /\ msg[i].note \in Notes
         /\ alarm_event_key(msg[i]) \in EventKeys
         /\ \A k \in EventKeys :
              IF k = alarm_event_key(msg[i])
                THEN /\ alarms'[k].api_token = auth[i].api_token
                     /\ alarms'[k].payload = msg[i].note.payload
                     /\ alarms'[k].created_at = 1000 * msg[i].note.timestamp
                     /\ alarms'[k].received_at = at[i]
                     /\ alarms'[k].expire_at = clock + 1000 * ALARM_RETENTION_SECONDS
                     /\ pending'[k] = at[i]
                ELSE alarms'[k] = alarms[k] /\ pending'[k] = pending[k]
<1>1. msg[i] \in Messages
  BY DEF StoreAlarm, TypeOK
<1>2. msg[i].note \in Notes /\ alarm_event_key(msg[i]) \in EventKeys
  BY <1>1, ConstantTypes
<1> QED
  BY <1>1, <1>2 DEF StoreAlarm, Alarms!insert_alarm_event, Alarms!ToMillis, TypeOK, Alarms!TypeOK

LEMMA ClaimsStay ==
  ASSUME TypeOK, [Next]_vars, NEW n \in Notes, claimed[n] >= 1
  PROVE  claimed'[n] >= 1
BY HeldNotes, Ledger DEF Idles, Gains, Wins, Ends, Claim, history, TypeOK

StoreInv == EffectInv /\ HandsInv

LEMMA StoreInvariant == Spec => []StoreInv
  BY EffectInvariant, HandsInvariant, PTL DEF StoreInv

-----------------------------------------------------------------------------
(* Whose the alarm events are.                                             *)

(* Alarm event k stems from message m, signed with document d.             *)
StemsFrom(k, m, d) ==
  /\ alarm_event_key(m) = k
  /\ claimed[m.note] >= 1
  /\ SignedFor(d, m.note)
  /\ TopicFitsFeature(TopicOf(m.topic), d.feature_name)
  /\ validate_alarm_payload(TopicOf(m.topic).alarm_type, m.note.payload)
  /\ StorableIds(d.api_token, m.note)
  /\ alarms[k].api_token = d.api_token
  /\ alarms[k].payload = m.note.payload
  /\ alarms[k].created_at = 1000 * m.note.timestamp

LEMMA JustifiedStep == StoreInv /\ AlarmJustified /\ [Next]_vars => AlarmJustified'
<1> SUFFICES ASSUME StoreInv, AlarmJustified, [Next]_vars,
                    NEW k \in EventKeys, alarms'[k] # Alarms!NoEvent
             PROVE  \E m \in Messages : \E d \in Registrations[SensorOf(m.note)] :
                      StemsFrom(k, m, d)'
  BY DEF AlarmJustified, StemsFrom
<1>1. TypeOK
  BY DEF StoreInv, HandsInv
<1>2. CASE alarms'[k] = alarms[k]
  <2>1. PICK m \in Messages : \E d \in Registrations[SensorOf(m.note)] : StemsFrom(k, m, d)
    BY <1>2 DEF AlarmJustified, StemsFrom
  <2>2. PICK d \in Registrations[SensorOf(m.note)] : StemsFrom(k, m, d)
    BY <2>1
  <2>3. m.note \in Notes
    BY ConstantTypes
  <2>4. claimed'[m.note] >= 1
    BY <1>1, <2>2, <2>3, ClaimsStay DEF StemsFrom
  <2> QED
    BY <1>2, <2>2, <2>4 DEF StemsFrom
<1>3. ASSUME NEW i \in Instances, StoreAlarm(i), k = alarm_event_key(msg[i])
      PROVE  \E m \in Messages : \E d \in Registrations[SensorOf(m.note)] : StemsFrom(k, m, d)'
  <2>1. pc[i] = "alarm" /\ Held(i) /\ claimed' = claimed
    BY <1>3 DEF StoreAlarm, Held
  <2>2. PICK m \in Messages : m = msg[i]
    BY <1>1, <1>3, Stored
  <2>3. PICK d \in Registrations[SensorOf(m.note)] : d = auth[i]
    BY <2>1, <2>2 DEF StoreInv, HandsInv, Hands, Admitted
  <2>4. Admitted(i) /\ StorableIds(d.api_token, m.note) /\ claimed[m.note] = 1
    BY <2>1, <2>2, <2>3 DEF StoreInv, HandsInv, Hands, EffectInv, SolelyHeld
  <2>5. /\ alarms'[k].api_token = d.api_token
        /\ alarms'[k].payload = m.note.payload
        /\ alarms'[k].created_at = 1000 * m.note.timestamp
    BY <1>1, <1>3, <2>2, <2>3, Stored
  <2> QED
    BY <1>3, <2>1, <2>2, <2>3, <2>4, <2>5 DEF StemsFrom, Admitted
<1> QED
  BY <1>1, <1>2, <1>3, AlarmMoves, Stored

(* No alarm event that no sensor signed, that its payload does not justify *)
(* or that is filed under somebody else's token comes into Redis 3, also   *)
(* where the sensor changes hands between the lookup and the write         *)
(* (main.rs:318-337).                                                      *)
THEOREM AlarmsAreJustified == Spec => []AlarmJustified
<1>1. Init => AlarmJustified
  BY DEF Init, Alarms!Init, AlarmJustified
<1> QED
  BY <1>1, StoreInvariant, JustifiedStep, PTL DEF Spec

-----------------------------------------------------------------------------
(* The times of an alarm event.                                            *)

Slack == 1000 * SIGNED_MESSAGE_MAX_SKEW_SECS + 2 * MaxClockError

(* Who waits for the answer to the SET tested the freshness in the past.   *)
(* The receipt of an alarm that is about to be written is close to the     *)
(* time its device gave it, and not ahead of Redis by more than the clock. *)
Receipts ==
  \A i \in Instances :
    /\ pc[i] = "answer" =>
         /\ at[i] <= clock
         /\ Opens(msg[i].note) <= at[i] /\ at[i] <= Closes(msg[i].note)
    /\ pc[i] = "alarm" =>
         /\ 1000 * msg[i].note.timestamp - at[i] <= Slack
         /\ at[i] - 1000 * msg[i].note.timestamp <= Slack + 999 + MaxClaimDelay
         /\ at[i] <= clock + MaxClockError

LEMMA SlackTypes ==
  /\ MaxClockError \in Nat /\ MaxClaimDelay \in Nat /\ Slack \in Nat
  /\ ALARM_RETENTION_SECONDS \in Nat
  /\ \A n \in Notes : /\ 1000 * n.timestamp \in Int
                      /\ Opens(n) + Slack = 1000 * n.timestamp + MaxClockError
                      /\ Closes(n) + MaxClockError = 1000 * n.timestamp + Slack + 999
<1>1. /\ MaxClockError \in Nat /\ MaxClaimDelay \in Nat /\ ALARM_RETENTION_SECONDS \in Nat
      /\ SIGNED_MESSAGE_MAX_SKEW_SECS \in Nat
  BY ReceiverAssumption, SkewAssumption
<1> QED
  BY <1>1, NoteTypes DEF Slack, Opens, Closes

(* What a reading of the clock says of it.                                 *)
LEMMA NowTypes ==
  ASSUME TypeOK, NEW now \in Now
  PROVE  now \in Int /\ clock - MaxClockError <= now /\ now <= clock + MaxClockError
<1>1. clock \in Instants
  BY DEF TypeOK, Online!TypeOK
<1> QED
  BY <1>1, Readings

LEMMA ReceiptsStep == StoreInv /\ Receipts /\ [Next]_vars => Receipts'
<1> SUFFICES ASSUME StoreInv, Receipts, [Next]_vars, NEW i \in Instances
             PROVE  /\ pc'[i] = "answer" =>
                         /\ at'[i] <= clock'
                         /\ Opens(msg'[i].note) <= at'[i] /\ at'[i] <= Closes(msg'[i].note)
                    /\ pc'[i] = "alarm" =>
                         /\ 1000 * msg'[i].note.timestamp - at'[i] <= Slack
                         /\ at'[i] - 1000 * msg'[i].note.timestamp
                              <= Slack + 999 + MaxClaimDelay
                         /\ at'[i] <= clock' + MaxClockError
  BY DEF Receipts, Slack, Opens, Closes
<1>1. TypeOK /\ TypeOK'
  BY StepTyped DEF StoreInv, HandsInv
<1>2. clock \in Nat /\ clock' \in Nat /\ at[i] \in Int /\ clock <= clock'
  BY <1>1, ClockMoves DEF TypeOK
<1>3. CASE Stays(i)
  BY <1>2, <1>3, SlackTypes DEF Stays, Receipts
<1>4. CASE Wins(i)
  <2>1. /\ at[i] <= clock
        /\ Opens(msg[i].note) <= at[i] /\ at[i] <= Closes(msg[i].note)
    BY <1>4 DEF Wins, Claim, StoreInv, EffectInv, ClaimInv, Timing
  <2> QED
    BY <1>4, <2>1 DEF Wins, Keeps, Claim
<1>5. CASE Begins(i)
  <2>1. /\ pc[i] = "answer" /\ clock <= at[i] + MaxClaimDelay
        /\ msg'[i] = msg[i] /\ clock' = clock
        /\ pc'[i] # "answer" /\ (pc'[i] = "alarm" => at'[i] \in Now)
    BY <1>5 DEF Begins, BeginAlarm, BeginOnline, Answered, AnswersInTime, Keeps, Online!Begin
  <2> SUFFICES ASSUME pc'[i] = "alarm"
               PROVE  /\ 1000 * msg[i].note.timestamp - at'[i] <= Slack
                      /\ at'[i] - 1000 * msg[i].note.timestamp <= Slack + 999 + MaxClaimDelay
                      /\ at'[i] <= clock' + MaxClockError
    BY <2>1
  <2>2. msg[i].note \in Notes
    BY <1>1, <2>1, HeldNotes
  <2>3. /\ at[i] <= clock
        /\ Opens(msg[i].note) <= at[i] /\ at[i] <= Closes(msg[i].note)
    BY <2>1 DEF Receipts
  <2>4. at'[i] \in Int /\ clock - MaxClockError <= at'[i] /\ at'[i] <= clock + MaxClockError
    BY <1>1, <2>1, NowTypes
  <2>5. /\ Opens(msg[i].note) \in Int /\ Closes(msg[i].note) \in Int
        /\ 1000 * msg[i].note.timestamp \in Int
        /\ Opens(msg[i].note) + Slack = 1000 * msg[i].note.timestamp + MaxClockError
        /\ Closes(msg[i].note) + MaxClockError = 1000 * msg[i].note.timestamp + Slack + 999
    BY <2>2, SlackTypes, WindowTypes
  <2> QED
    BY <1>2, <2>1, <2>3, <2>4, <2>5, SlackTypes
<1> QED
  BY <1>1, <1>3, <1>4, <1>5, ReceiverMoves DEF Moves, Looks, Passes

LEMMA ReceiptsInvariant == Spec => [](StoreInv /\ Receipts)
<1>1. Init => Receipts
  BY DEF Init, Receipts
<1> QED
  BY <1>1, StoreInvariant, ReceiptsStep, PTL DEF Spec

LEMMA TimelyStep == StoreInv /\ Receipts /\ AlarmTimely /\ [Next]_vars => AlarmTimely'
<1> SUFFICES ASSUME StoreInv, Receipts, AlarmTimely, [Next]_vars,
                    NEW k \in EventKeys, alarms'[k] # Alarms!NoEvent
             PROVE  /\ alarms'[k].created_at - alarms'[k].received_at <= Slack
                    /\ alarms'[k].received_at - alarms'[k].created_at
                         <= Slack + 999 + MaxClaimDelay
  BY DEF AlarmTimely, Slack
<1>1. TypeOK
  BY DEF StoreInv, HandsInv
<1>2. CASE alarms'[k] = alarms[k]
  BY <1>2 DEF AlarmTimely, Slack
<1>3. ASSUME NEW i \in Instances, StoreAlarm(i), k = alarm_event_key(msg[i])
      PROVE  /\ alarms'[k].created_at - alarms'[k].received_at <= Slack
             /\ alarms'[k].received_at - alarms'[k].created_at <= Slack + 999 + MaxClaimDelay
  <2>1. /\ 1000 * msg[i].note.timestamp - at[i] <= Slack
        /\ at[i] - 1000 * msg[i].note.timestamp <= Slack + 999 + MaxClaimDelay
    BY <1>3 DEF StoreAlarm, Receipts
  <2>2. /\ alarms'[k].created_at = 1000 * msg[i].note.timestamp
        /\ alarms'[k].received_at = at[i]
    BY <1>1, <1>3, Stored
  <2> QED
    BY <2>1, <2>2
<1> QED
  BY <1>1, <1>2, <1>3, AlarmMoves, Stored

(* createdAt and receivedAt (alarm.rs:45-46) of an event are no further    *)
(* apart than the signature window and two clock readings and, when        *)
(* receivedAt is the later, what as_secs cuts off (main.rs:76) and the     *)
(* delay of the claim.                                                     *)
THEOREM AlarmsAreTimely == Spec => []AlarmTimely
<1>1. Init => AlarmTimely
  BY DEF Init, Alarms!Init, AlarmTimely
<1> QED
  BY <1>1, ReceiptsInvariant, TimelyStep, PTL DEF Spec

-----------------------------------------------------------------------------
(* The index of the alarm events.                                          *)

(* The index agrees with the hashes, and no hash expires before its        *)
(* retention is over, counted from its receivedAt less the clock's error.  *)
Indexed ==
  \A k \in EventKeys :
    /\ pending[k] = alarms[k].received_at
    /\ pending[k] # Alarms!NotIndexed =>
         pending[k] + 1000 * ALARM_RETENTION_SECONDS
           <= alarms[k].expire_at + MaxClockError

LEMMA IndexedStep == StoreInv /\ Receipts /\ Indexed /\ [Next]_vars => Indexed'
<1> SUFFICES ASSUME StoreInv, Receipts, Indexed, [Next]_vars, NEW k \in EventKeys
             PROVE  /\ pending'[k] = alarms'[k].received_at
                    /\ pending'[k] # Alarms!NotIndexed =>
                         pending'[k] + 1000 * ALARM_RETENTION_SECONDS
                           <= alarms'[k].expire_at + MaxClockError
  BY DEF Indexed, Alarms!NotIndexed
<1>1. TypeOK
  BY DEF StoreInv, HandsInv
<1>2. CASE alarms'[k] = alarms[k] /\ pending'[k] = pending[k]
  BY <1>2 DEF Indexed
<1>3. ASSUME NEW i \in Instances, StoreAlarm(i), k = alarm_event_key(msg[i])
      PROVE  /\ pending'[k] = alarms'[k].received_at
             /\ pending'[k] + 1000 * ALARM_RETENTION_SECONDS
                  <= alarms'[k].expire_at + MaxClockError
  <2>1. at[i] \in Int /\ clock \in Nat
    BY <1>1 DEF TypeOK
  <2>2. at[i] <= clock + MaxClockError
    BY <1>3 DEF StoreAlarm, Receipts
  <2>3. /\ pending'[k] = at[i] /\ alarms'[k].received_at = at[i]
        /\ alarms'[k].expire_at = clock + 1000 * ALARM_RETENTION_SECONDS
    BY <1>1, <1>3, Stored
  <2> QED
    BY <2>1, <2>2, <2>3, SlackTypes
<1> QED
  BY <1>1, <1>2, <1>3, AlarmMoves, Stored

(* A reader of alarms:pending finds the event of every entry younger than  *)
(* the retention (less the clock's error), under the score it has, however *)
(* often the event was overwritten (alarm.rs:48-76).                       *)
THEOREM PendingLeadsToEvents == Spec => []PendingResolves
<1>1. Init => Indexed
  <2> SUFFICES ASSUME Init, NEW k \in EventKeys
               PROVE  pending[k] = alarms[k].received_at /\ pending[k] = Alarms!NotIndexed
    BY DEF Indexed
  <2>1. alarms[k] = Alarms!NoEvent /\ pending[k] = Alarms!NotIndexed
    BY DEF Init, Alarms!Init
  <2>2. Alarms!NoEvent.received_at = Alarms!NotIndexed
    BY DEF Alarms!NoEvent, Alarms!NotIndexed
  <2> QED
    BY <2>1, <2>2
<1>2. TypeOK /\ Indexed => PendingResolves
  <2> SUFFICES ASSUME TypeOK, Indexed, NEW k \in EventKeys, pending[k] # Alarms!NotIndexed,
                      clock + MaxClockError < pending[k] + 1000 * ALARM_RETENTION_SECONDS
               PROVE  clock < alarms[k].expire_at
    BY DEF Indexed, PendingResolves, Alarms!Live
  <2>1. clock \in Nat /\ pending[k] \in Int /\ alarms[k].expire_at \in Nat
    BY DEF TypeOK, Alarms!TypeOK, Alarms!Event
  <2>2. pending[k] + 1000 * ALARM_RETENTION_SECONDS
          <= alarms[k].expire_at + MaxClockError
    BY DEF Indexed
  <2> QED
    BY <2>1, <2>2, SlackTypes
<1> QED
  BY <1>1, <1>2, TypeCorrect, ReceiptsInvariant, IndexedStep, PTL DEF Spec

-----------------------------------------------------------------------------
(* Two events under one key.                                               *)

(* The replay key behind an event key.                                     *)
ReplayKeyOf(k) == << k[1], k[2], k[4] >>

Ttl == 1000 * SIGNED_REPLAY_CACHE_TTL_SECS

(* What two receipts under one replay key are apart.                       *)
Apart == Ttl - MaxClaimDelay - 2 * MaxClockError

FarApart(x, y) == x - y >= Apart \/ y - x >= Apart

(* r is the receipt of an event in Redis 3, or of one about to be written, *)
(* under a replay key.                                                     *)
Receipt(r, key) ==
  \/ \E i \in Instances : pc[i] = "alarm" /\ ReplayKey(i) = key /\ at[i] = r
  \/ \E k \in EventKeys : /\ alarms[k] # Alarms!NoEvent /\ ReplayKeyOf(k) = key
                          /\ alarms[k].received_at = r

(* It was made when its replay key was set, or little later.               *)
ReceiptsCached ==
  \A key \in ReplayKeys : \A r \in Int :
    Receipt(r, key) => r + Ttl <= replay[key] + MaxClockError + MaxClaimDelay

(* Receiver i has waited too long for the answer to its SET.               *)
Late(i) == clock > at[i] + MaxClaimDelay

(* Whoever waits for the answer to its SET in time is alone in this, and   *)
(* all receipts under its key are a whole TTL old.                         *)
AnswersApart ==
  \A i \in Instances : pc[i] = "answer" =>
    /\ at[i] + Ttl <= replay[ReplayKey(i)]
    /\ \A r \in Int : Receipt(r, ReplayKey(i)) =>
         Late(i) \/ r + Ttl <= clock + MaxClockError + MaxClaimDelay
    /\ \A j \in Instances \ {i} : pc[j] = "answer" /\ ReplayKey(j) = ReplayKey(i) =>
         Late(i) \/ Late(j)

(* No two receipts under one replay key are close.                         *)
ReceiptsApart ==
  \A i \in Instances : pc[i] = "alarm" =>
    /\ \A j \in Instances \ {i} : pc[j] = "alarm" /\ ReplayKey(j) = ReplayKey(i) =>
         FarApart(at[i], at[j])
    /\ \A k \in EventKeys : alarms[k] # Alarms!NoEvent /\ ReplayKeyOf(k) = ReplayKey(i) =>
         FarApart(at[i], alarms[k].received_at)

ApartInv == ClaimInv /\ ReceiptsCached /\ AnswersApart /\ ReceiptsApart

LEMMA ApartTypes ==
  /\ Ttl \in Nat /\ MaxClockError \in Nat /\ MaxClaimDelay \in Nat /\ Apart \in Int
  /\ Apart = Ttl - MaxClaimDelay - 2 * MaxClockError
  /\ Ttl > MaxClaimDelay
<1>1. /\ SIGNED_REPLAY_CACHE_TTL_SECS \in Nat /\ SIGNED_MESSAGE_MAX_SKEW_SECS \in Nat
      /\ MaxClaimDelay \in Nat /\ MaxClockError \in Nat
  BY ReceiverAssumption, SkewAssumption
<1> QED
  BY <1>1, CacheOutlivesWindow DEF Apart, Ttl

LEMMA KeysAgree ==
  /\ \A m \in Messages : ReplayKeyOf(alarm_event_key(m)) = signed_replay_key(m.note)
  /\ \A k \in EventKeys : ReplayKeyOf(k) \in ReplayKeys
<1>1. \A m \in Messages : ReplayKeyOf(alarm_event_key(m)) = signed_replay_key(m.note)
  BY DEF ReplayKeyOf, alarm_event_key, signed_replay_key
<1> QED
  BY <1>1, ConstantTypes DEF EventKeys

(* The steps that matter here: a nonce is won, its winner goes on to write *)
(* an alarm, and the alarm is written.  In every other step the replay     *)
(* keys last no shorter, and nobody but those who did before waits for the *)
(* answer to a SET or holds an alarm.                                      *)
Quiet ==
  /\ alarms' = alarms
  /\ \A key \in ReplayKeys : replay[key] <= replay'[key]
  /\ \A j \in Instances : pc'[j] \in {"answer", "alarm"} => Stays(j)

LEMMA ApartMoves ==
  ASSUME TypeOK, [Next]_vars
  PROVE  Quiet \/ \E i \in Instances : Claim(i) \/ BeginAlarm(i) \/ StoreAlarm(i)
<1> SUFFICES ASSUME \A i \in Instances : ~Claim(i) /\ ~BeginAlarm(i) /\ ~StoreAlarm(i)
             PROVE  Quiet
  OBVIOUS
<1>1. alarms' = alarms
  BY AlarmMoves
<1>2. \A key \in ReplayKeys : replay[key] <= replay'[key]
  <2>1. \A key \in ReplayKeys : replay[key] \in Nat
    BY DEF TypeOK
  <2>2. ASSUME NEW j \in ReplayKeys, LateSet(j)
        PROVE  \A key \in ReplayKeys : replay[key] <= replay'[key]
    BY <2>1, <2>2, SetNonceExtends DEF LateSet
  <2> QED
    BY <2>1, <2>2, CacheMoves DEF cache
<1>3. ASSUME NEW j \in Instances, pc'[j] \in {"answer", "alarm"}
      PROVE  Stays(j)
  <2>1. ~Wins(j)
    BY DEF Wins
  <2>2. CASE Begins(j)
    <3>1. BeginOnline(j)
      BY <2>2 DEF Begins
    <3>2. pc'[j] = "online"
      BY <3>1 DEF BeginOnline, TypeOK
    <3> QED
      BY <1>3, <3>2
  <2> QED
    BY <1>3, <2>1, <2>2, ReceiverMoves DEF Moves, Looks, Passes
<1> QED
  BY <1>1, <1>2, <1>3 DEF Quiet

(* What the three steps do.                                                *)
LEMMA ClaimMoves ==
  ASSUME TypeOK, NEW i \in Instances, Claim(i)
  PROVE  /\ ReplayKey(i) \in ReplayKeys
         /\ clock' = clock /\ alarms' = alarms
         /\ replay[ReplayKey(i)] <= clock /\ replay'[ReplayKey(i)] = clock + Ttl
         /\ \A key \in ReplayKeys : replay[key] <= replay'[key]
         /\ pc'[i] = "answer" /\ msg'[i] = msg[i] /\ at'[i] = at[i]
         /\ \A j \in Instances \ {i} : Stays(j)
<1>1. ReplayKey(i) \in ReplayKeys
  BY HeldNotes, NoteTypes DEF Claim, ReplayKey
<1>2. replay[ReplayKey(i)] <= clock
  BY <1>1 DEF Claim, Cached, TypeOK
<1>3. /\ clock' = clock /\ alarms' = alarms
      /\ pc'[i] = "answer" /\ msg'[i] = msg[i] /\ at'[i] = at[i]
      /\ \A j \in Instances \ {i} : Stays(j)
  BY DEF Claim, Stays, TypeOK
<1> QED
  BY <1>1, <1>2, <1>3, SetNonceExtends DEF Claim, Ttl

LEMMA BeginMoves ==
  ASSUME TypeOK, NEW i \in Instances, BeginAlarm(i)
  PROVE  /\ ReplayKey(i) \in ReplayKeys
         /\ clock' = clock /\ alarms' = alarms /\ replay' = replay
         /\ pc[i] = "answer" /\ clock <= at[i] + MaxClaimDelay /\ ~Late(i)
         /\ pc'[i] = "alarm" /\ msg'[i] = msg[i]
         /\ at'[i] \in Int
         /\ clock - MaxClockError <= at'[i] /\ at'[i] <= clock + MaxClockError
         /\ \A j \in Instances \ {i} : Stays(j)
<1>1. /\ clock' = clock /\ alarms' = alarms /\ replay' = replay
      /\ pc[i] = "answer" /\ clock <= at[i] + MaxClaimDelay
      /\ pc'[i] = "alarm" /\ msg'[i] = msg[i] /\ at'[i] \in Now
      /\ \A j \in Instances \ {i} : Stays(j)
  BY DEF BeginAlarm, Answered, AnswersInTime, stores, cache, Stays, TypeOK
<1>2. ReplayKey(i) \in ReplayKeys
  BY <1>1, HeldNotes, NoteTypes DEF ReplayKey
<1>3. ~Late(i)
  BY <1>1, ApartTypes DEF Late, TypeOK
<1> QED
  BY <1>1, <1>2, <1>3, NowTypes

LEMMA StoreMoves ==
  ASSUME TypeOK, NEW i \in Instances, StoreAlarm(i)
  PROVE  /\ alarm_event_key(msg[i]) \in EventKeys
         /\ ReplayKeyOf(alarm_event_key(msg[i])) = ReplayKey(i)
         /\ clock' = clock /\ replay' = replay
         /\ pc[i] = "alarm" /\ pc'[i] = "idle"
         /\ alarms'[alarm_event_key(msg[i])].received_at = at[i]
         /\ \A k \in EventKeys \ {alarm_event_key(msg[i])} : alarms'[k] = alarms[k]
         /\ \A j \in Instances \ {i} : Stays(j)
<1>1. /\ clock' = clock /\ replay' = replay
      /\ pc[i] = "alarm" /\ pc'[i] = "idle"
      /\ \A j \in Instances \ {i} : Stays(j)
  BY DEF StoreAlarm, Return, cache, Stays, TypeOK
<1> QED
  BY <1>1, Stored, KeysAgree DEF ReplayKey

(* A receipt is new only where a winner goes on to write an alarm.         *)
LEMMA ReceiptMoves ==
  ASSUME TypeOK, [Next]_vars, NEW key, NEW r, Receipt(r, key)'
  PROVE  \/ Receipt(r, key)
         \/ \E i \in Instances : BeginAlarm(i) /\ key = ReplayKey(i) /\ r = at'[i]
<1>1. ASSUME NEW j \in Instances, pc'[j] = "alarm", ReplayKey(j)' = key, at'[j] = r, Stays(j)
      PROVE  Receipt(r, key)
  BY <1>1 DEF Receipt, Stays, ReplayKey
<1>2. ASSUME NEW k \in EventKeys, alarms'[k] # Alarms!NoEvent, ReplayKeyOf(k) = key,
             alarms'[k].received_at = r, alarms'[k] = alarms[k]
      PROVE  Receipt(r, key)
  BY <1>2 DEF Receipt
<1>3. CASE Quiet
  BY <1>1, <1>2, <1>3 DEF Quiet, Receipt
<1>4. ASSUME NEW i \in Instances, Claim(i) PROVE Receipt(r, key)
  <2>1. alarms' = alarms /\ pc'[i] = "answer" /\ \A j \in Instances \ {i} : Stays(j)
    BY <1>4, ClaimMoves
  <2> QED
    BY <1>1, <1>2, <2>1 DEF Receipt
<1>5. ASSUME NEW i \in Instances, BeginAlarm(i)
      PROVE  Receipt(r, key) \/ (key = ReplayKey(i) /\ r = at'[i])
  <2>1. alarms' = alarms /\ msg'[i] = msg[i] /\ \A j \in Instances \ {i} : Stays(j)
    BY <1>5, BeginMoves
  <2>2. ReplayKey(i)' = ReplayKey(i)
    BY <2>1 DEF ReplayKey
  <2> QED
    BY <1>1, <1>2, <2>1, <2>2 DEF Receipt
<1>6. ASSUME NEW i \in Instances, StoreAlarm(i) PROVE Receipt(r, key)
  <2> DEFINE e == alarm_event_key(msg[i])
  <2>1. /\ pc[i] = "alarm" /\ pc'[i] = "idle" /\ ReplayKeyOf(e) = ReplayKey(i)
        /\ alarms'[e].received_at = at[i]
        /\ \A k \in EventKeys \ {e} : alarms'[k] = alarms[k]
        /\ \A j \in Instances \ {i} : Stays(j)
    BY <1>6, StoreMoves
  <2>2. CASE key = ReplayKey(i) /\ r = at[i]
    BY <2>1, <2>2 DEF Receipt
  <2> HIDE DEF e
  <2>3. CASE \E j \in Instances : pc'[j] = "alarm" /\ ReplayKey(j)' = key /\ at'[j] = r
    BY <1>1, <2>1, <2>3
  <2>4. ASSUME NEW k \in EventKeys, alarms'[k] # Alarms!NoEvent, ReplayKeyOf(k) = key,
               alarms'[k].received_at = r
        PROVE  Receipt(r, key)
    BY <1>2, <2>1, <2>2, <2>4
  <2> QED
    BY <2>3, <2>4 DEF Receipt
<1> QED
  BY <1>3, <1>4, <1>5, <1>6, ApartMoves

LEMMA ReceiptsCachedStep == ApartInv /\ [Next]_vars => ReceiptsCached'
<1> SUFFICES ASSUME ApartInv, [Next]_vars,
                    NEW key \in ReplayKeys, NEW r \in Int, Receipt(r, key)'
             PROVE  r + Ttl <= replay'[key] + MaxClockError + MaxClaimDelay
  BY DEF ReceiptsCached, Ttl
<1>1. TypeOK /\ TypeOK'
  BY StepTyped DEF ApartInv, ClaimInv
<1>2. replay[key] \in Nat /\ replay'[key] \in Nat /\ replay[key] <= replay'[key]
  <2>1. replay[key] \in Nat /\ replay'[key] \in Nat
    BY <1>1 DEF TypeOK
  <2> QED
    BY <1>1, <2>1, ApartMoves, ClaimMoves, BeginMoves, StoreMoves DEF Quiet
<1>3. CASE Receipt(r, key)
  BY <1>2, <1>3, ApartTypes DEF ApartInv, ReceiptsCached
<1>4. ASSUME NEW i \in Instances, BeginAlarm(i), key = ReplayKey(i), r = at'[i]
      PROVE  r + Ttl <= replay'[key] + MaxClockError + MaxClaimDelay
  <2>1. /\ pc[i] = "answer" /\ clock <= at[i] + MaxClaimDelay /\ r <= clock + MaxClockError
        /\ clock \in Nat /\ at[i] \in Int
    BY <1>1, <1>4, BeginMoves DEF TypeOK
  <2>2. at[i] + Ttl <= replay[key]
    BY <1>4, <2>1 DEF ApartInv, AnswersApart
  <2> QED
    BY <1>2, <2>1, <2>2, ApartTypes
<1> QED
  BY <1>1, <1>3, <1>4, ReceiptMoves

LEMMA AnswersApartStep == ApartInv /\ [Next]_vars => AnswersApart'
<1> SUFFICES ASSUME ApartInv, [Next]_vars, NEW i \in Instances, pc'[i] = "answer"
             PROVE  /\ at'[i] + Ttl <= replay'[ReplayKey(i)']
                    /\ \A r \in Int : Receipt(r, ReplayKey(i))' =>
                         Late(i)' \/ r + Ttl <= clock' + MaxClockError + MaxClaimDelay
                    /\ \A j \in Instances \ {i} :
                         pc'[j] = "answer" /\ ReplayKey(j)' = ReplayKey(i)' =>
                           Late(i)' \/ Late(j)'
  BY DEF AnswersApart, Ttl
<1>1. TypeOK /\ TypeOK' /\ AnswersApart /\ Timing
  BY StepTyped DEF ApartInv, ClaimInv
<1>2. clock \in Nat /\ clock' \in Nat /\ clock <= clock' /\ at \in [Instances -> Int]
  BY <1>1, ClockMoves DEF TypeOK
<1>3. ASSUME NEW j \in Instances, pc'[j] = "answer"
      PROVE  /\ msg'[j] = msg[j] /\ at'[j] = at[j] /\ ReplayKey(j)' = ReplayKey(j)
             /\ Late(j) => Late(j)'
             /\ pc[j] = "answer" \/ Claim(j)
  <2>1. msg'[j] = msg[j] /\ at'[j] = at[j] /\ (pc[j] = "answer" \/ Claim(j))
    BY <1>1, <1>3, ReceiverMoves
       DEF Moves, Stays, Looks, Passes, Wins, Keeps, Begins, BeginAlarm, BeginOnline, TypeOK
  <2> QED
    BY <1>2, <2>1, ApartTypes DEF Late, ReplayKey
<1>4. ReplayKey(i)' = ReplayKey(i) /\ at'[i] = at[i] /\ ReplayKey(i) \in ReplayKeys
  <2>1. pc[i] # "idle"
    BY <1>3 DEF Claim
  <2> QED
    BY <1>1, <1>3, <2>1, HeldNotes, NoteTypes DEF ReplayKey
<1>5. at'[i] + Ttl <= replay'[ReplayKey(i)]
  <2>1. CASE Claim(i)
    <3>1. at[i] <= clock /\ replay'[ReplayKey(i)] = clock + Ttl
      BY <1>1, <2>1, ClaimMoves DEF Timing, Claim
    <3> QED
      BY <1>2, <1>4, <3>1, ApartTypes
  <2>2. CASE pc[i] = "answer"
    <3>1. at[i] + Ttl <= replay[ReplayKey(i)]
      BY <1>1, <2>2 DEF AnswersApart
    <3>2. /\ replay[ReplayKey(i)] \in Nat /\ replay'[ReplayKey(i)] \in Nat
          /\ replay[ReplayKey(i)] <= replay'[ReplayKey(i)]
      <4>1. replay[ReplayKey(i)] \in Nat /\ replay'[ReplayKey(i)] \in Nat
        BY <1>1, <1>4 DEF TypeOK
      <4> QED
        BY <1>1, <1>4, <4>1, ApartMoves, ClaimMoves, BeginMoves, StoreMoves DEF Quiet
    <3> QED
      BY <1>2, <1>4, <3>1, <3>2, ApartTypes
  <2> QED
    BY <1>3, <2>1, <2>2
<1>6. ASSUME NEW r \in Int, Receipt(r, ReplayKey(i))', ~Late(i)'
      PROVE  r + Ttl <= clock' + MaxClockError + MaxClaimDelay
  <2>1. ~Late(i)
    BY <1>3, <1>6
  <2>2. CASE Claim(i)
    <3>1. clock' = clock /\ replay[ReplayKey(i)] <= clock /\ replay[ReplayKey(i)] \in Nat
      BY <1>1, <1>4, <2>2, ClaimMoves DEF TypeOK
    <3>2. ~\E j \in Instances : BeginAlarm(j)
      BY <1>1, <2>2, ClaimMoves DEF Claim, BeginAlarm, TypeOK, Stays
    <3>3. Receipt(r, ReplayKey(i))
      BY <1>1, <1>4, <1>6, <3>2, ReceiptMoves
    <3>4. r + Ttl <= replay[ReplayKey(i)] + MaxClockError + MaxClaimDelay
      BY <1>4, <3>3 DEF ApartInv, ReceiptsCached
    <3> QED
      BY <1>2, <3>1, <3>4, ApartTypes
  <2>3. CASE pc[i] = "answer" /\ Receipt(r, ReplayKey(i))
    <3>1. r + Ttl <= clock + MaxClockError + MaxClaimDelay
      BY <1>1, <2>1, <2>3 DEF AnswersApart
    <3> DEFINE now == clock'
    <3>2. /\ clock \in Nat /\ now \in Nat /\ clock <= now
          /\ Ttl \in Nat /\ MaxClockError \in Nat /\ MaxClaimDelay \in Nat
      BY <1>2, ApartTypes
    <3> HIDE DEF now
    <3>3. r + Ttl <= now + MaxClockError + MaxClaimDelay
      BY <3>1, <3>2
    <3> QED
      BY <3>3 DEF now
  <2>4. ASSUME pc[i] = "answer", NEW j \in Instances, BeginAlarm(j), ReplayKey(i) = ReplayKey(j)
        PROVE  FALSE
    <3>1. pc[j] = "answer" /\ ~Late(j) /\ pc'[j] = "alarm"
      BY <1>1, <2>4, BeginMoves
    <3> QED
      BY <1>1, <2>1, <2>4, <3>1 DEF AnswersApart
  <2> QED
    BY <1>1, <1>3, <1>4, <1>6, <2>2, <2>3, <2>4, ReceiptMoves
<1>7. ASSUME NEW j \in Instances \ {i}, pc'[j] = "answer", ReplayKey(j)' = ReplayKey(i)'
      PROVE  Late(i)' \/ Late(j)'
  <2>1. ReplayKey(j) = ReplayKey(i)
    BY <1>3, <1>4, <1>7
  <2>2. CASE pc[i] = "answer" /\ pc[j] = "answer"
    BY <1>1, <1>3, <1>7, <2>1, <2>2 DEF AnswersApart
  <2>3. ASSUME NEW x \in Instances, NEW y \in Instances, Claim(x), pc[y] = "answer",
               pc'[y] = "answer", ReplayKey(y) = ReplayKey(x)
        PROVE  Late(y)'
    <3>1. at[y] + Ttl <= replay[ReplayKey(x)]
      BY <1>1, <2>3 DEF AnswersApart
    <3>2. /\ clock' = clock /\ replay[ReplayKey(x)] <= clock /\ replay[ReplayKey(x)] \in Nat
      BY <1>1, <2>3, ClaimMoves DEF TypeOK
    <3>3. at'[y] = at[y] /\ at[y] \in Int
      BY <1>2, <1>3, <2>3
    <3> QED
      BY <1>2, <3>1, <3>2, <3>3, ApartTypes DEF Late
  <2>4. ~(Claim(i) /\ Claim(j))
    <3> SUFFICES ASSUME Claim(i), Claim(j) PROVE FALSE
      OBVIOUS
    <3>1. Stays(j) /\ pc'[j] = "answer" /\ pc[j] = "claim"
      BY <1>1, <1>7, ClaimMoves DEF Claim
    <3> QED
      BY <3>1 DEF Stays
  <2> QED
    BY <1>3, <1>7, <2>1, <2>2, <2>3, <2>4
<1> QED
  BY <1>4, <1>5, <1>6, <1>7

(* A new receipt is far from all others under its key.                     *)
LEMMA NewReceiptIsApart ==
  ASSUME ApartInv, NEW i \in Instances, BeginAlarm(i), NEW r \in Int, Receipt(r, ReplayKey(i))
  PROVE  at'[i] - r >= Apart
<1>1. TypeOK /\ AnswersApart
  BY DEF ApartInv, ClaimInv
<1>2. /\ pc[i] = "answer" /\ ~Late(i)
      /\ at'[i] \in Int /\ clock \in Nat /\ clock - MaxClockError <= at'[i]
  BY <1>1, BeginMoves DEF TypeOK
<1>3. r + Ttl <= clock + MaxClockError + MaxClaimDelay
  BY <1>1, <1>2 DEF AnswersApart
<1> QED
  BY <1>2, <1>3, ApartTypes

LEMMA ReceiptsApartStep == ApartInv /\ [Next]_vars => ReceiptsApart'
<1> SUFFICES ASSUME ApartInv, [Next]_vars, NEW i \in Instances, pc'[i] = "alarm"
             PROVE  /\ \A j \in Instances \ {i} :
                         pc'[j] = "alarm" /\ ReplayKey(j)' = ReplayKey(i)' =>
                           FarApart(at'[i], at'[j])
                    /\ \A k \in EventKeys :
                         alarms'[k] # Alarms!NoEvent /\ ReplayKeyOf(k) = ReplayKey(i)' =>
                           FarApart(at'[i], alarms'[k].received_at)
  BY DEF ReceiptsApart, FarApart, Apart, Ttl
<1>1. TypeOK /\ TypeOK' /\ ReceiptsApart
  BY StepTyped DEF ApartInv, ClaimInv
<1>2. ASSUME NEW j \in Instances, pc'[j] = "alarm"
      PROVE  /\ ReplayKey(j)' = ReplayKey(j) /\ at'[j] \in Int /\ at[j] \in Int
             /\ Stays(j) \/ BeginAlarm(j)
  <2>1. Stays(j) \/ BeginAlarm(j)
    BY <1>1, <1>2, ReceiverMoves
       DEF Moves, Looks, Passes, Wins, Begins, BeginOnline, TypeOK
  <2>2. msg'[j] = msg[j]
    BY <1>1, <2>1, BeginMoves DEF Stays
  <2> QED
    BY <1>1, <2>1, <2>2 DEF ReplayKey, TypeOK
<1>3. ASSUME NEW x \in Instances, NEW y \in Instances \ {x}, BeginAlarm(x), pc'[y] = "alarm",
             ReplayKey(y)' = ReplayKey(x)
      PROVE  FarApart(at'[x], at'[y]) /\ FarApart(at'[y], at'[x])
  <2>1. Stays(y) /\ at'[x] \in Int
    BY <1>1, <1>3, BeginMoves
  <2>2. Receipt(at[y], ReplayKey(x)) /\ at'[y] = at[y]
    BY <1>2, <1>3, <2>1 DEF Receipt, Stays
  <2>3. at'[x] - at'[y] >= Apart
    BY <1>2, <1>3, <2>2, NewReceiptIsApart
  <2> QED
    BY <2>3 DEF FarApart
<1>4. ASSUME NEW j \in Instances \ {i}, pc'[j] = "alarm", ReplayKey(j)' = ReplayKey(i)'
      PROVE  FarApart(at'[i], at'[j])
  <2>1. CASE Stays(i) /\ Stays(j)
    BY <1>1, <1>2, <1>4, <2>1 DEF ReceiptsApart, Stays
  <2> QED
    BY <1>2, <1>3, <1>4, <2>1
<1>5. ASSUME NEW k \in EventKeys, alarms'[k] # Alarms!NoEvent, ReplayKeyOf(k) = ReplayKey(i)'
      PROVE  FarApart(at'[i], alarms'[k].received_at)
  <2>1. CASE BeginAlarm(i)
    <3>1. alarms' = alarms
      BY <1>1, <2>1, BeginMoves
    <3>2. alarms[k].received_at \in Int
      BY <1>1 DEF TypeOK, Alarms!TypeOK, Alarms!Event
    <3>3. Receipt(alarms[k].received_at, ReplayKey(i))
      BY <1>2, <1>5, <3>1 DEF Receipt
    <3> QED
      BY <2>1, <3>1, <3>2, <3>3, NewReceiptIsApart DEF FarApart
  <2>2. CASE Stays(i) /\ alarms'[k] = alarms[k]
    BY <1>1, <1>2, <1>5, <2>2 DEF ReceiptsApart, Stays
  <2>3. ASSUME NEW j \in Instances, StoreAlarm(j), k = alarm_event_key(msg[j])
        PROVE  FarApart(at'[i], alarms'[k].received_at)
    <3>1. /\ pc[j] = "alarm" /\ pc'[j] = "idle" /\ ReplayKeyOf(k) = ReplayKey(j)
          /\ alarms'[k].received_at = at[j]
          /\ \A x \in Instances \ {j} : Stays(x)
      BY <1>1, <2>3, StoreMoves
    <3>2. j # i /\ pc[i] = "alarm" /\ at'[i] = at[i] /\ ReplayKey(j) = ReplayKey(i)
      BY <1>2, <1>5, <3>1 DEF Stays
    <3> QED
      BY <1>1, <3>1, <3>2 DEF ReceiptsApart
  <2>4. alarms'[k] = alarms[k] \/ \E j \in Instances : StoreAlarm(j) /\ k = alarm_event_key(msg[j])
    BY <1>1, AlarmMoves, StoreMoves
  <2> QED
    BY <1>2, <2>1, <2>2, <2>3, <2>4
<1> QED
  BY <1>4, <1>5

LEMMA OverwrittenApart ==
  ASSUME ApartInv, [Next]_vars, NEW k \in EventKeys,
         alarms[k] # Alarms!NoEvent, alarms'[k] # alarms[k]
  PROVE  FarApart(alarms'[k].received_at, alarms[k].received_at)
<1>1. TypeOK /\ ReceiptsApart
  BY DEF ApartInv, ClaimInv
<1>2. PICK i \in Instances : StoreAlarm(i) /\ k = alarm_event_key(msg[i])
  BY <1>1, AlarmMoves, Stored
<1>3. ReplayKey(i) = ReplayKeyOf(k) /\ pc[i] = "alarm" /\ alarms'[k].received_at = at[i]
  BY <1>1, <1>2, StoreMoves
<1> QED
  BY <1>1, <1>3 DEF ReceiptsApart

(* An alarm event is overwritten only by one received a whole TTL of the   *)
(* replay cache earlier or later, less the clock's error and the delay     *)
(* with which the answer to a SET may come (main.rs:135-136), in whichever *)
(* order the transactions of alarm.rs:48-76 arrive.                        *)
THEOREM EventsAreApart == Spec => EventsApart
<1>1. Init => ApartInv
  <2> SUFFICES ASSUME Init PROVE ApartInv
    OBVIOUS
  <2>1. /\ \A i \in Instances : pc[i] = "idle"
        /\ \A k \in EventKeys : alarms[k] = Alarms!NoEvent
    BY DEF Init, Alarms!Init
  <2>2. \A r, key : ~Receipt(r, key)
    BY <2>1 DEF Receipt
  <2> QED
    BY <2>1, <2>2, ClaimInvInit DEF ApartInv, ReceiptsCached, AnswersApart, ReceiptsApart
<1>2. ApartInv /\ [Next]_vars => ApartInv'
  BY ClaimInvStep, ReceiptsCachedStep, AnswersApartStep, ReceiptsApartStep DEF ApartInv
<1>3. ApartInv /\ [Next]_vars =>
        [\A k \in EventKeys : alarms[k] # Alarms!NoEvent /\ alarms'[k] # alarms[k] =>
           LET apart == 1000 * SIGNED_REPLAY_CACHE_TTL_SECS - MaxClaimDelay - 2 * MaxClockError
           IN  \/ alarms'[k].received_at - alarms[k].received_at >= apart
               \/ alarms[k].received_at - alarms'[k].received_at >= apart]_vars
  BY OverwrittenApart DEF FarApart, Apart, Ttl
<1> QED
  BY <1>1, <1>2, <1>3, PTL DEF Spec, EventsApart

-----------------------------------------------------------------------------
(* Whose the hashes of Redis 0 are.                                        *)

(* A reply on the way keeps a call in progress, and its arguments.         *)
LEMMA ReadingKeeps ==
  ASSUME TypeOK, NEW i \in Instances, ReadOnline(i)
  PROVE  /\ \A j \in Instances : j # i => call'[j] = call[j]
         /\ call[i].step # "idle" /\ call'[i].step # "idle"
         /\ call'[i].sensor = call[i].sensor /\ call'[i].api_token = call[i].api_token
<1>1. call \in [Instances -> Online!Call] /\ call[i] \in Online!Call
  BY DEF TypeOK, Online!TypeOK
<1>2. \A j \in Instances : j # i => call'[j] = call[j]
  BY <1>1 DEF ReadOnline, Online!Exists, Online!HgetCreatedAt, Online!HgetCreatedAtFails,
     Online!HgetFcmToken, Online!HgetFcmTokenFails
<1> DEFINE Kept == /\ call[i].step # "idle" /\ call'[i].step # "idle"
                   /\ call'[i].sensor = call[i].sensor /\ call'[i].api_token = call[i].api_token
<1>3. CASE Online!Exists(i)
  <2> DEFINE next == IF online[call[i].sensor] # Online!NoHash THEN "created_at" ELSE "fcm_token"
  <2>0. PICK now \in Now :
          call' = [call EXCEPT ![i] = [@ EXCEPT !.step = next, !.timestamp = now]]
    BY <1>3 DEF Online!Exists, Now
  <2>1. call[i].step # "idle" /\ next # "idle"
    BY <1>3 DEF Online!Exists
  <2> HIDE DEF next
  <2> DEFINE answered == [call[i] EXCEPT !.step = next, !.timestamp = now]
  <2>2. /\ answered.step = next
        /\ answered.sensor = call[i].sensor /\ answered.api_token = call[i].api_token
    BY <1>1 DEF Online!Call
  <2>3. call' = [call EXCEPT ![i] = answered]
    BY <2>0
  <2> HIDE DEF answered
  <2> QED
    BY <1>1, <2>1, <2>2, <2>3
<1>4. CASE Online!HgetCreatedAtFails(i)
  BY <1>1, <1>4 DEF Online!Call, Online!HgetCreatedAtFails
<1>5. CASE Online!HgetCreatedAt(i)
  <2> DEFINE createdAt == online[call[i].sensor].createdAt
  <2>1. /\ call[i].step # "idle"
        /\ call' = [call EXCEPT ![i].step = "fcm_token", ![i].created_at = createdAt]
    BY <1>5 DEF Online!HgetCreatedAt
  <2> HIDE DEF createdAt
  <2> QED
    BY <1>1, <2>1 DEF Online!Call
<1>6. CASE Online!HgetFcmTokenFails(i)
  BY <1>1, <1>6 DEF Online!Call, Online!HgetFcmTokenFails
<1>7. CASE Online!HgetFcmToken(i)
  <2> DEFINE fcmToken == fcm_by_api_token[call[i].api_token]
  <2>1. /\ call[i].step # "idle"
        /\ call' = [call EXCEPT ![i].step = "hset", ![i].fcm_token = fcmToken]
    BY <1>7 DEF Online!HgetFcmToken
  <2> HIDE DEF fcmToken
  <2> QED
    BY <1>1, <2>1 DEF Online!Call
<1>8. Kept
  BY <1>3, <1>4, <1>5, <1>6, <1>7 DEF ReadOnline
<1> QED
  BY <1>2, <1>8

(* A heartbeat in progress is about the sensor and the token of the        *)
(* message its receiver holds.                                             *)
CallsMatch ==
  \A i \in Instances : pc[i] = "online" /\ call[i].step # "idle" =>
    /\ call[i].sensor = SensorOf(msg[i].note)
    /\ call[i].api_token = auth[i].api_token

LEMMA CallsMatchStep == StoreInv /\ CallsMatch /\ [Next]_vars => CallsMatch'
<1> SUFFICES ASSUME StoreInv, CallsMatch, [Next]_vars,
                    NEW j \in Instances, pc'[j] = "online", call'[j].step # "idle"
             PROVE  /\ call'[j].sensor = SensorOf(msg'[j].note)
                    /\ call'[j].api_token = auth'[j].api_token
  BY DEF CallsMatch
<1>1. TypeOK
  BY DEF StoreInv, HandsInv
<1>2. /\ pc \in [Instances -> {"idle", "lookup", "verify", "claim", "answer", "alarm", "online"}]
      /\ call \in [Instances -> Online!Call]
  BY <1>1 DEF TypeOK, Online!TypeOK
<1>3. CASE /\ pc[j] = "online" /\ Stays(j)
           /\ \/ call'[j] = call[j]
              \/ /\ call[j].step # "idle"
                 /\ call'[j].sensor = call[j].sensor /\ call'[j].api_token = call[j].api_token
  BY <1>3 DEF CallsMatch, Stays
<1>4. CASE Begins(j)
  <2>1. Online!Begin(j, SensorOf(msg[j].note), auth[j].api_token) /\ Keeps(j)
    BY <1>2, <1>4 DEF Begins, BeginAlarm, BeginOnline
  <2> QED
    BY <1>2, <2>1 DEF Keeps, Online!Begin, Online!NoCall
<1>5. CASE pc[j] = "online" /\ Stays(j)
  <2>1. ASSUME NEW i \in Instances, ReadOnline(i)
        PROVE  \/ call'[j] = call[j]
               \/ /\ call[j].step # "idle"
                  /\ call'[j].sensor = call[j].sensor /\ call'[j].api_token = call[j].api_token
    BY <1>1, <2>1, ReadingKeeps
  <2>2. ASSUME NEW i \in Instances,
               BeginOnline(i) \/ StoreOnline(i) \/ OnlineFails(i) \/ Abort(i)
        PROVE  call'[j] = call[j]
    <3>1. j # i
      BY <1>2, <1>5, <2>2 DEF Stays, BeginOnline, Answered, StoreOnline, OnlineFails, Abort, Return
    <3> QED
      BY <1>2, <2>2, <3>1 DEF BeginOnline, StoreOnline, OnlineFails, Abort, Online!Begin,
         Online!HsetMultiple, Online!CallFails
  <2>3. CASE call' = call
    BY <1>3, <1>5, <2>3
  <2> QED
    BY <1>3, <1>5, <2>1, <2>2, <2>3
       DEF Next, Step, Receive, Lookup, Admit, Reject, Claim, Refuse, ClaimFails, LateSet, BeginAlarm,
           InvalidUuid, AnswerLost, StoreAlarm, AlarmFails, ChangeSensor, Tick, vars, stores
<1> QED
  BY <1>1, <1>4, <1>5, ReceiverMoves DEF Moves, Looks, Passes, Wins, Stays

(* On an alarm topic no alarm type is empty: a message without one came on *)
(* an online topic.                                                        *)
LEMMA HeartbeatsFit ==
  ASSUME HandsInv, NEW i \in Instances, pc[i] = "online"
  PROVE  auth[i].feature_name = "online"
<1>1. WellFormed(msg[i]) /\ Admitted(i) /\ ~IsAlarm(i)
  BY DEF HandsInv, Checked, Hands
<1>2. ~IsAlarmTopic(msg[i].topic)
  BY <1>1, NamesAssumption DEF IsAlarm, TopicOf, IsAlarmTopic, None
<1>3. TopicOf(msg[i].topic).family = "online"
  BY <1>1, <1>2 DEF WellFormed, ParsesAsTopic, IsOnlineTopic, TopicOf
<1> QED
  BY <1>1, <1>3 DEF Admitted, TopicFitsFeature

(* The hash of sensor s stems from notification n, signed with d.          *)
BeatOf(s, n, d) ==
  /\ SensorOf(n) = s
  /\ claimed[n] >= 1
  /\ d.feature_name = "online"
  /\ SignedFor(d, n)
  /\ online[s].apiToken = d.api_token

LEMMA OnlineJustifiedStep ==
  StoreInv /\ CallsMatch /\ OnlineJustified /\ [Next]_vars => OnlineJustified'
<1> SUFFICES ASSUME StoreInv, CallsMatch, OnlineJustified, [Next]_vars,
                    NEW s \in Sensors, online'[s].modifiedAt # 0
             PROVE  \E n \in Notes : \E d \in Registrations[s] : BeatOf(s, n, d)'
  BY DEF OnlineJustified, BeatOf
<1>1. TypeOK
  BY DEF StoreInv, HandsInv
<1>2. CASE online'[s] = online[s]
  <2>1. PICK n \in Notes : \E d \in Registrations[s] : BeatOf(s, n, d)
    BY <1>2 DEF OnlineJustified, BeatOf
  <2>2. PICK d \in Registrations[s] : BeatOf(s, n, d)
    BY <2>1
  <2>3. claimed'[n] >= 1
    BY <1>1, <2>2, ClaimsStay DEF BeatOf
  <2> QED
    BY <1>2, <2>2, <2>3 DEF BeatOf
<1>3. ASSUME NEW i \in Instances, StoreOnline(i), s = call[i].sensor
      PROVE  \E n \in Notes : \E d \in Registrations[s] : BeatOf(s, n, d)'
  <2>1. /\ pc[i] = "online" /\ Held(i) /\ claimed' = claimed /\ call[i].step # "idle"
        /\ online' = [online EXCEPT ![s] = Online!Written(@, call[i])]
    BY <1>3 DEF StoreOnline, Online!HsetMultiple, Held
  <2>2. PICK n \in Notes : n = msg[i].note
    BY <1>1, <2>1, HeldNotes
  <2>3. SensorOf(n) = s /\ call[i].api_token = auth[i].api_token
    BY <1>3, <2>1, <2>2 DEF CallsMatch
  <2>4. PICK d \in Registrations[s] : d = auth[i]
    BY <2>1, <2>2, <2>3 DEF StoreInv, HandsInv, Hands, Admitted
  <2>5. SignedFor(d, n) /\ d.feature_name = "online" /\ claimed[n] = 1
    BY <2>1, <2>2, <2>4, HeartbeatsFit
       DEF StoreInv, HandsInv, Hands, Admitted, EffectInv, SolelyHeld
  <2>6. online'[s].apiToken = d.api_token
    <3>1. online[s] \in Online!Hash
      BY <1>1 DEF TypeOK, Online!TypeOK
    <3>2. Online!Written(online[s], call[i]).apiToken = call[i].api_token
      BY <3>1 DEF Online!Written, Online!Hash
    <3>3. online'[s] = Online!Written(online[s], call[i])
      BY <1>1, <2>1 DEF TypeOK, Online!TypeOK
    <3> QED
      BY <2>3, <2>4, <3>2, <3>3
  <2> QED
    BY <2>1, <2>3, <2>5, <2>6 DEF BeatOf
<1>4. ASSUME NEW i \in Instances, StoreOnline(i), s # call[i].sensor
      PROVE  online'[s] = online[s]
  BY <1>1, <1>4 DEF StoreOnline, Online!HsetMultiple, TypeOK, Online!TypeOK
<1>5. online' = online \/ \E i \in Instances : StoreOnline(i)
  BY DEF Next, Step, Receive, Lookup, Admit, Reject, Claim, Refuse, ClaimFails, LateSet, BeginAlarm,
     BeginOnline, InvalidUuid, AnswerLost, StoreAlarm, AlarmFails, ReadOnline, OnlineFails, Abort, ChangeSensor, Tick, vars, stores, Online!Begin,
     Online!Exists, Online!HgetCreatedAt, Online!HgetCreatedAtFails, Online!HgetFcmToken,
     Online!HgetFcmTokenFails, Online!CallFails
<1> QED
  BY <1>2, <1>3, <1>4, <1>5

(* A sensor is marked online only by a notification of its own, signed     *)
(* with the token its hash then names, that won its nonce (main.rs:344).   *)
THEOREM OnlineIsJustified == Spec => []OnlineJustified
<1>1. Init => CallsMatch
  BY DEF Init, CallsMatch
<1>2. Init => OnlineJustified
  <2> SUFFICES ASSUME Init, NEW s \in Sensors PROVE online[s].modifiedAt = 0
    BY DEF OnlineJustified
  <2>1. online[s] = Online!NoHash
    BY DEF Init
  <2>2. Online!NoHash.modifiedAt = 0
    BY DEF Online!NoHash
  <2> QED
    BY <2>1, <2>2
<1> QED
  BY <1>1, <1>2, StoreInvariant, CallsMatchStep, OnlineJustifiedStep, PTL DEF Spec

-----------------------------------------------------------------------------
(* The refinement of OnlineStatus.                                         *)

(* A receiver is in a call exactly while it handles a heartbeat.           *)
CallsBegunAndEnded ==
  \A i \in Instances : IF pc[i] = "online" THEN call[i].step # "idle" ELSE call[i] = Online!NoCall

LEMMA CallsBegunAndEndedStep ==
  TypeOK /\ CallsBegunAndEnded /\ [Next]_vars => CallsBegunAndEnded'
<1> SUFFICES ASSUME TypeOK, CallsBegunAndEnded, [Next]_vars, NEW j \in Instances
             PROVE  IF pc'[j] = "online" THEN call'[j].step # "idle"
                      ELSE call'[j] = Online!NoCall
  BY DEF CallsBegunAndEnded
<1>1. /\ pc \in [Instances -> {"idle", "lookup", "verify", "claim", "answer", "alarm", "online"}]
      /\ call \in [Instances -> Online!Call]
  BY DEF TypeOK, Online!TypeOK
<1>2. IF pc[j] = "online" THEN call[j].step # "idle" ELSE call[j] = Online!NoCall
  BY DEF CallsBegunAndEnded
<1>3. ASSUME NEW i \in Instances, ReadOnline(i)
      PROVE  IF pc'[j] = "online" THEN call'[j].step # "idle" ELSE call'[j] = Online!NoCall
  <2>1. pc' = pc /\ pc[i] = "online"
    BY <1>3 DEF ReadOnline, task
  <2> QED
    BY <1>2, <1>3, <2>1, ReadingKeeps
<1>4. ASSUME NEW i \in Instances, BeginOnline(i)
      PROVE  IF pc'[j] = "online" THEN call'[j].step # "idle" ELSE call'[j] = Online!NoCall
  <2>1. CASE j # i
    BY <1>1, <1>2, <1>4, <2>1 DEF BeginOnline, Online!Begin
  <2>2. CASE j = i
    <3>1. PICK s, t : Online!Begin(j, s, t)
      BY <1>4, <2>2 DEF BeginOnline
    <3> DEFINE c == [Online!NoCall EXCEPT !.step = "exists", !.sensor = s, !.api_token = t]
    <3>2. call' = [call EXCEPT ![j] = c]
      BY <3>1 DEF Online!Begin
    <3>3. c.step = "exists"
      BY DEF Online!NoCall
    <3> HIDE DEF c
    <3>4. pc'[j] = "online"
      BY <1>1, <1>4, <2>2 DEF BeginOnline
    <3> QED
      BY <1>1, <3>2, <3>3, <3>4
  <2> QED
    BY <2>1, <2>2
<1>5. ASSUME NEW i \in Instances, StoreOnline(i) \/ OnlineFails(i) \/ Abort(i)
      PROVE  IF pc'[j] = "online" THEN call'[j].step # "idle" ELSE call'[j] = Online!NoCall
  <2>1. /\ pc' = [pc EXCEPT ![i] = "idle"]
        /\ call' = [call EXCEPT ![i] = Online!NoCall]
    BY <1>5 DEF StoreOnline, OnlineFails, Abort, Return, Online!HsetMultiple, Online!CallFails
  <2> QED
    BY <1>1, <1>2, <2>1
<1>6. CASE call' = call /\ (pc'[j] = "online" <=> pc[j] = "online")
  BY <1>2, <1>6
<1>7. ASSUME NEW i \in Instances,
             \/ Lookup(i) \/ Admit(i) \/ Reject(i) \/ Claim(i) \/ Refuse(i) \/ ClaimFails(i)
             \/ BeginAlarm(i) \/ InvalidUuid(i) \/ AnswerLost(i)
             \/ StoreAlarm(i) \/ AlarmFails(i) \/ \E m \in Messages : Receive(i, m)
      PROVE  call' = call /\ (pc'[j] = "online" <=> pc[j] = "online")
  BY <1>1, <1>7 DEF Lookup, Admit, Reject, Claim, Refuse, ClaimFails, BeginAlarm, InvalidUuid,
     AnswerLost, Answered, StoreAlarm, AlarmFails, Receive, Return, stores
<1> QED
  BY <1>3, <1>4, <1>5, <1>6, <1>7 DEF Next, Step, LateSet, ChangeSensor, Tick, vars, task, stores

(* Every step is one of OnlineStatus, or one it does not see.              *)
LEMMA OnlineStep ==
  TypeOK /\ CallsBegunAndEnded /\ [Next]_vars => [Online!Next]_(Online!onlineVars)
<1> SUFFICES ASSUME TypeOK, CallsBegunAndEnded, [Next]_vars
             PROVE  Online!Next \/ UNCHANGED Online!onlineVars
  OBVIOUS
<1>1. /\ msg \in [Instances -> Messages \cup {NoMessage}]
      /\ call \in [Instances -> Online!Call]
      /\ \A i \in Instances : /\ pc[i] # "idle" => msg[i] \in Messages
                              /\ pc[i] \notin {"idle", "lookup"} => auth[i] \in Documents
  BY DEF TypeOK, Online!TypeOK
<1>2. ASSUME NEW i \in Instances, BeginOnline(i)
      PROVE  Online!Next
  <2>1. pc[i] # "idle" /\ pc[i] \notin {"idle", "lookup"}
    BY <1>2 DEF BeginOnline, Answered
  <2>2. msg[i] \in Messages /\ auth[i] \in Documents
    BY <1>1, <2>1, Zenon
  <2>3. SensorOf(msg[i].note) \in Sensors /\ auth[i].api_token \in ApiTokens
    BY <2>2 DEF Sensors, Notes, ApiTokens
  <2> QED
    BY <1>2, <2>3 DEF BeginOnline, Online!Next
<1>3. ASSUME NEW i \in Instances, ReadOnline(i) \/ StoreOnline(i) \/ OnlineFails(i)
      PROVE  Online!Next
  <2>1. Online!CallStep(i)
    BY <1>3 DEF ReadOnline, StoreOnline, OnlineFails, Online!CallStep
  <2> QED
    BY <2>1 DEF Online!Next
<1>4. ASSUME NEW i \in Instances, Abort(i)
      PROVE  Online!Next \/ UNCHANGED Online!onlineVars
  <2>1. /\ call' = [call EXCEPT ![i] = Online!NoCall]
        /\ UNCHANGED << clock, online, fcm_by_api_token >>
    BY <1>4 DEF Abort
  <2>2. CASE call[i].step # "idle"
    <3>1. Online!CallAborted(i)
      BY <2>1, <2>2 DEF Online!CallAborted
    <3> QED
      BY <3>1 DEF Online!Next, Online!CallStep
  <2>3. CASE call[i].step = "idle"
    <3>1. call[i] = Online!NoCall
      BY <2>3 DEF CallsBegunAndEnded
    <3>2. call' = call
      BY <1>1, <2>1, <3>1
    <3> QED
      BY <2>1, <3>2 DEF Online!onlineVars
  <2> QED
    BY <2>2, <2>3
<1>5. CASE Tick
  <2>1. Online!Tick
    BY <1>5 DEF Tick, stores, Online!Tick
  <2> QED
    BY <2>1 DEF Online!Next, Online!Environment
<1>6. CASE UNCHANGED << clock, online, fcm_by_api_token, call >>
  BY <1>6 DEF Online!onlineVars
<1> QED
  BY <1>2, <1>3, <1>4, <1>5, <1>6
     DEF Next, Step, Receive, Lookup, Admit, Reject, Claim, Refuse, ClaimFails, LateSet, BeginAlarm,
         InvalidUuid, AnswerLost, StoreAlarm, AlarmFails, ChangeSensor, vars, stores

(* process_mqtt_message implements OnlineStatus: whatever becomes of its   *)
(* task, the hashes of Redis 0 see only calls as insert_or_update_online   *)
(* makes them (main.rs:344).                                               *)
THEOREM HandlerRunsAsOnlineStatus == Spec => ImplementsOnlineStatus
<1>1. Init => Online!Init /\ CallsBegunAndEnded
  <2> SUFFICES ASSUME Init PROVE Online!Init /\ CallsBegunAndEnded
    OBVIOUS
  <2>1. online \in [Sensors -> {Online!NoHash, [Online!NoHash EXCEPT !.preferences = TRUE]}]
    BY DEF Init
  <2>2. fcm_by_api_token \in [ApiTokens -> FcmTokens \cup {""}]
    BY DEF Init, None
  <2> QED
    BY <2>1, <2>2 DEF Init, Online!Init, CallsBegunAndEnded
<1> QED
  BY <1>1, InitTyped, StepTyped, CallsBegunAndEndedStep, OnlineStep, PTL
     DEF Spec, ImplementsOnlineStatus, Online!Spec
=============================================================================
