------------------------- MODULE OnlineStatusProofs -------------------------
(***************************************************************************)
(* Theorems about OnlineStatus, for every set of receivers, sensors and    *)
(* tokens.                                                                 *)
(***************************************************************************)
EXTENDS OnlineStatus, TLAPS

(* What a call knows: its time, once EXISTS has been answered, and a       *)
(* createdAt if it found one.                                              *)
Timed(c) == c.step \in {"created_at", "fcm_token", "hset"}

-----------------------------------------------------------------------------
(* A reading of the clock is positive and off by no more than the error.   *)
LEMMA Readings ==
  ASSUME clock \in Instants
  PROVE  /\ MaxClockError \in Nat
         /\ clock \in Nat /\ clock > MaxClockError
         /\ \A now \in Now : /\ now \in Nat /\ now >= 1
                            /\ now <= clock + MaxClockError
                            /\ clock <= now + MaxClockError
<1>1. MaxClockError \in Nat /\ clock \in Nat /\ clock > MaxClockError
  BY OnlineAssumption
<1>2. ASSUME NEW error \in ClockErrors
      PROVE  error \in Int /\ -MaxClockError <= error /\ error <= MaxClockError
  <2>1. error \in -MaxClockError .. MaxClockError
    BY <1>2, OnlineAssumption, Zenon
  <2> QED
    BY <1>1, <2>1
<1> QED
  BY <1>1, <1>2 DEF Now

LEMMA ClockTyped ==
  ASSUME TypeOK
  PROVE  clock \in Instants /\ clock \in Nat /\ MaxClockError \in Nat
<1>1. clock \in Instants
  BY DEF TypeOK
<1> QED
  BY <1>1, Readings

-----------------------------------------------------------------------------
(* Type correctness.                                                       *)

LEMMA NoCallTyped ==
  NoCall \in Call /\ NoCall.step = "idle" /\ NoCall.created_at = 0 /\ ~Timed(NoCall)
  BY DEF NoCall, Call, Timed

LEMMA NoHashTyped == NoHash \in Hash /\ [NoHash EXCEPT !.preferences = TRUE] \in Hash
  BY DEF NoHash, Hash

(* The HSET leaves a hash whose times are those of the call, or a          *)
(* createdAt that was there.                                               *)
LEMMA WrittenHash ==
  ASSUME NEW h \in Hash, NEW c \in Call
  PROVE  /\ Written(h, c) \in Hash
         /\ Written(h, c).modifiedAt = c.timestamp
         /\ Written(h, c).createdAt = IF c.created_at = 0 THEN c.timestamp ELSE h.createdAt
  BY DEF Hash, Call, Written

LEMMA InitTyped == Init => TypeOK
  BY NoCallTyped, NoHashTyped, OnlineAssumption DEF Init, TypeOK

(* What a step of receiver i makes of its call, and of the hashes.         *)
Advanced(c, d) ==
  /\ d \in Call
  /\ d.step # "idle" => d.sensor \in Sensors /\ d.api_token \in ApiTokens
  /\ ~Timed(d) => d.created_at = 0
  /\ Timed(d) =>
       \/ ~Timed(c) /\ d.timestamp \in Now /\ d.created_at = c.created_at
       \/ /\ Timed(c)
          /\ d.timestamp = c.timestamp
          /\ d.sensor = c.sensor
          /\ d.created_at \in {c.created_at, online[c.sensor].createdAt}

ByCall(i) ==
  /\ UNCHANGED << clock, fcm_by_api_token >>
  /\ call' = [call EXCEPT ![i] = call'[i]]
  /\ Advanced(call[i], call'[i])
  /\ \/ online' = online
     \/ /\ Timed(call[i])
        /\ online' = [online EXCEPT ![call[i].sensor] = Written(@, call[i])]

LEMMA CallEffect ==
  ASSUME TypeOK, NEW i \in Instances,
         CallStep(i) \/ \E s \in Sensors, t \in ApiTokens : Begin(i, s, t)
  PROVE  ByCall(i)
<1> DEFINE c == call[i]
           d == call'[i]
<1>1. /\ call \in [Instances -> Call] /\ c \in Call
      /\ c.step # "idle" => c.sensor \in Sensors /\ c.api_token \in ApiTokens
      /\ \A s \in Sensors : online[s] \in Hash
      /\ \A t \in ApiTokens : fcm_by_api_token[t] \in FcmTokens \cup {""}
  BY DEF TypeOK
<1>2. ASSUME NEW s \in Sensors, NEW t \in ApiTokens, Begin(i, s, t)
      PROVE  ByCall(i)
  BY <1>1, <1>2 DEF Begin, ByCall, Advanced, Timed, Call, NoCall
<1>3. CASE Exists(i)
  <2> DEFINE next == IF online[call[i].sensor] # NoHash THEN "created_at" ELSE "fcm_token"
  <2>1. next \in {"created_at", "fcm_token"}
    OBVIOUS
  <2>2. PICK now \in Now :
          /\ call' = [call EXCEPT ![i] = [@ EXCEPT !.step = next, !.timestamp = now]]
          /\ call[i].step = "exists"
          /\ UNCHANGED << clock, online, fcm_by_api_token >>
    BY <1>3 DEF Exists
  <2>3. now \in Nat
    BY Readings DEF TypeOK
  <2> HIDE DEF next
  <2> QED
    BY <1>1, <2>1, <2>2, <2>3 DEF ByCall, Advanced, Timed, Call
<1>4. CASE HgetCreatedAt(i) \/ HgetCreatedAtFails(i)
  <2>1. PICK x \in {c.created_at, online[c.sensor].createdAt} :
          call' = [call EXCEPT ![i] = [@ EXCEPT !.step = "fcm_token", !.created_at = x]]
    BY <1>1, <1>4 DEF HgetCreatedAt, HgetCreatedAtFails, Call
  <2>2. c.step = "created_at" /\ UNCHANGED << clock, online, fcm_by_api_token >>
    BY <1>4 DEF HgetCreatedAt, HgetCreatedAtFails
  <2>3. x \in Nat
    BY <1>1, <2>1, <2>2 DEF Hash, Call
  <2>4. d = [c EXCEPT !.step = "fcm_token", !.created_at = x]
    BY <1>1, <2>1
  <2>5. Advanced(c, d)
    BY <1>1, <2>1, <2>2, <2>3, <2>4 DEF Advanced, Timed, Call
  <2> QED
    BY <1>1, <2>1, <2>2, <2>4, <2>5 DEF ByCall
<1>5. CASE HgetFcmToken(i) \/ HgetFcmTokenFails(i)
  <2>1. PICK f \in FcmTokens \cup {""} :
          call' = [call EXCEPT ![i] = [@ EXCEPT !.step = "hset", !.fcm_token = f]]
    BY <1>1, <1>5 DEF HgetFcmToken, HgetFcmTokenFails
  <2>2. c.step = "fcm_token" /\ UNCHANGED << clock, online, fcm_by_api_token >>
    BY <1>5 DEF HgetFcmToken, HgetFcmTokenFails
  <2>3. d = [c EXCEPT !.step = "hset", !.fcm_token = f]
    BY <1>1, <2>1
  <2>4. Advanced(c, d)
    BY <1>1, <2>1, <2>2, <2>3 DEF Advanced, Timed, Call
  <2> QED
    BY <1>1, <2>1, <2>2, <2>3, <2>4 DEF ByCall
<1>6. CASE HsetMultiple(i) \/ CallFails(i) \/ CallAborted(i)
  <2>1. call' = [call EXCEPT ![i] = NoCall] /\ call'[i] = NoCall
    BY <1>1, <1>6 DEF HsetMultiple, CallFails, CallAborted
  <2>2. Advanced(c, d)
    BY <2>1, NoCallTyped DEF Advanced
  <2> QED
    BY <1>1, <1>6, <2>1, <2>2
       DEF HsetMultiple, CallFails, CallAborted, ByCall, Timed
<1> QED
  BY <1>2, <1>3, <1>4, <1>5, <1>6 DEF CallStep

(* What a step of the other services, or of time, leaves alone.            *)
LEMMA EnvironmentEffect ==
  ASSUME TypeOK, Environment
  PROVE  /\ UNCHANGED call /\ clock' \in Instants /\ clock' >= clock
         /\ fcm_by_api_token' \in [ApiTokens -> FcmTokens \cup {""}]
         /\ \/ online' = online
            \/ \E s \in Sensors : online' = [online EXCEPT ![s].preferences = TRUE]
            \/ MayBeRemoved /\ \E s \in Sensors : online' = [online EXCEPT ![s] = NoHash]
<1>1. ASSUME NEW t \in ApiTokens, NEW f \in FcmTokens \cup {""}, RegisterFcmToken(t, f)
      PROVE  /\ UNCHANGED << call, clock, online >>
             /\ fcm_by_api_token' \in [ApiTokens -> FcmTokens \cup {""}]
  BY <1>1 DEF RegisterFcmToken, TypeOK
<1>2. ASSUME NEW s \in Sensors, WritePreferences(s) \/ RemoveHash(s)
      PROVE  /\ UNCHANGED << call, clock, fcm_by_api_token >>
             /\ \/ online' = [online EXCEPT ![s].preferences = TRUE]
                \/ MayBeRemoved /\ online' = [online EXCEPT ![s] = NoHash]
  BY <1>2 DEF WritePreferences, RemoveHash
<1>0. clock \in Instants /\ clock \in Nat /\ clock >= clock
  BY ClockTyped
<1>3. CASE Tick
  <2>1. PICK t \in Instants : t > clock /\ clock' = t
    BY <1>3 DEF Tick
  <2>2. t \in Nat
    BY OnlineAssumption
  <2>3. clock' \in Instants /\ clock' >= clock
    BY <1>0, <2>1, <2>2
  <2>4. UNCHANGED << online, fcm_by_api_token, call >>
    BY <1>3 DEF Tick
  <2>5. fcm_by_api_token' \in [ApiTokens -> FcmTokens \cup {""}]
    BY <2>4 DEF TypeOK
  <2> QED
    BY <2>3, <2>4, <2>5, Zenon
<1>4. fcm_by_api_token \in [ApiTokens -> FcmTokens \cup {""}]
  BY DEF TypeOK
<1>5. CASE \E t \in ApiTokens, f \in FcmTokens \cup {""} : RegisterFcmToken(t, f)
  BY <1>0, <1>1, <1>5
<1>6. CASE \E s \in Sensors : WritePreferences(s) \/ RemoveHash(s)
  BY <1>0, <1>2, <1>4, <1>6
<1> QED
  BY <1>3, <1>5, <1>6 DEF Environment

(* What the other services do to the two times of a hash.                  *)
LEMMA EnvironmentTimes ==
  ASSUME TypeOK, Environment, NEW s \in Sensors
  PROVE  \/ /\ online'[s].createdAt = online[s].createdAt
            /\ online'[s].modifiedAt = online[s].modifiedAt
         \/ online'[s].createdAt = 0 /\ online'[s].modifiedAt = 0
<1>0. online \in [Sensors -> Hash]
  BY DEF TypeOK
<1>1. ASSUME NEW r \in Sensors, online' = [online EXCEPT ![r].preferences = TRUE]
      PROVE  /\ online'[s].createdAt = online[s].createdAt
             /\ online'[s].modifiedAt = online[s].modifiedAt
  BY <1>0, <1>1 DEF Hash
<1>2. ASSUME NEW r \in Sensors, online' = [online EXCEPT ![r] = NoHash]
      PROVE  online'[s] \in {online[s], NoHash}
  BY <1>0, <1>2
<1>3. NoHash.createdAt = 0 /\ NoHash.modifiedAt = 0
  BY DEF NoHash
<1> QED
  BY <1>1, <1>2, <1>3, EnvironmentEffect

LEMMA TypeStep == TypeOK /\ [Next]_onlineVars => TypeOK'
<1> SUFFICES ASSUME TypeOK, [Next]_onlineVars PROVE TypeOK'
  OBVIOUS
<1>1. ASSUME NEW i \in Instances, ByCall(i) PROVE TypeOK'
  <2>1. /\ call \in [Instances -> Call] /\ online \in [Sensors -> Hash]
        /\ call[i] \in Call
    BY DEF TypeOK
  <2>2. call' \in [Instances -> Call]
    BY <1>1, <2>1 DEF ByCall, Advanced
  <2>3. \A j \in Instances : call'[j].step # "idle" =>
          call'[j].sensor \in Sensors /\ call'[j].api_token \in ApiTokens
    BY <1>1, <2>1 DEF ByCall, Advanced, TypeOK
  <2>4. online' \in [Sensors -> Hash]
    <3>1. CASE Timed(call[i]) /\ online' = [online EXCEPT ![call[i].sensor] = Written(@, call[i])]
      <4>1. call[i].sensor \in Sensors
        BY <3>1 DEF TypeOK, Timed
      <4>2. Written(online[call[i].sensor], call[i]) \in Hash
        BY <2>1, <4>1, WrittenHash
      <4> QED
        BY <2>1, <3>1, <4>2
    <3> QED
      BY <1>1, <2>1, <3>1 DEF ByCall
  <2> QED
    BY <1>1, <2>2, <2>3, <2>4 DEF ByCall, TypeOK
<1>2. CASE Environment
  <2>1. online \in [Sensors -> Hash]
    BY DEF TypeOK
  <2>2. online' \in [Sensors -> Hash]
    <3>1. ASSUME NEW s \in Sensors, online' = [online EXCEPT ![s].preferences = TRUE]
          PROVE  online' \in [Sensors -> Hash]
      <4>1. [online[s] EXCEPT !.preferences = TRUE] \in Hash
        BY <2>1 DEF Hash
      <4> QED
        BY <2>1, <3>1, <4>1
    <3> QED
      BY <1>2, <2>1, <3>1, EnvironmentEffect, NoHashTyped
  <2> QED
    BY <1>2, <2>2, EnvironmentEffect DEF TypeOK
<1>3. CASE UNCHANGED onlineVars
  BY <1>3 DEF onlineVars, TypeOK
<1> QED
  BY <1>1, <1>2, <1>3, CallEffect DEF Next

(* Hashes, tokens and calls keep their shape whatever the receivers and    *)
(* the other services do, and a call in progress knows its sensor and its  *)
(* api token at each of its four commands (online.rs:20-68).               *)
THEOREM OnlineTypeCorrect == Spec => []TypeOK
  BY InitTyped, TypeStep, PTL DEF Spec

-----------------------------------------------------------------------------
(* No hash that was heard of lacks its createdAt.                          *)

(* A call's time is one that the clock may have shown.  A createdAt is     *)
(* known only to a call that has asked for it.                             *)
CallTimes ==
  \A i \in Instances :
    /\ ~Timed(call[i]) => call[i].created_at = 0
    /\ Timed(call[i]) => call[i].timestamp \in 1 .. (clock + MaxClockError)

(* A createdAt that a call has read is there still.                        *)
ReadIsThere ==
  \A i \in Instances :
    call[i].created_at # 0 => online[call[i].sensor].createdAt # 0

(* HashComplete does not follow from itself: a call that has read a        *)
(* createdAt will not write one.                                           *)
CompleteInv == TypeOK /\ CallTimes /\ ReadIsThere /\ HashComplete

LEMMA CallTimesInit == Init => CallTimes
<1> SUFFICES ASSUME Init PROVE CallTimes
  OBVIOUS
<1>1. \A i \in Instances : call[i] = NoCall
  BY DEF Init
<1> QED
  BY <1>1, NoCallTyped DEF CallTimes

LEMMA CallTimesStep == TypeOK /\ CallTimes /\ [Next]_onlineVars => CallTimes'
<1> SUFFICES ASSUME TypeOK, CallTimes, [Next]_onlineVars PROVE CallTimes'
  OBVIOUS
<1>0. clock \in Nat /\ MaxClockError \in Nat /\ call \in [Instances -> Call]
  BY Readings DEF TypeOK
<1>1. ASSUME NEW i \in Instances, ByCall(i) PROVE CallTimes'
  <2>1. clock' = clock
    BY <1>1 DEF ByCall
  <2>2. ~Timed(call'[i]) => call'[i].created_at = 0
    BY <1>1 DEF ByCall, Advanced
  <2>3. Timed(call'[i]) => call'[i].timestamp \in 1 .. (clock + MaxClockError)
    <3>1. \A now \in Now : now \in 1 .. (clock + MaxClockError)
      BY <1>0, ClockTyped, Readings
    <3> QED
      BY <1>1, <2>1, <3>1 DEF ByCall, Advanced, CallTimes
  <2>4. \A j \in Instances : j # i => call'[j] = call[j]
    BY <1>0, <1>1 DEF ByCall
  <2> QED
    BY <2>1, <2>2, <2>3, <2>4 DEF CallTimes, Timed
<1>2. CASE Environment
  <2>1. UNCHANGED call /\ clock' \in Nat /\ clock' >= clock
    BY <1>2, EnvironmentEffect, OnlineAssumption
  <2> QED
    BY <1>0, <2>1 DEF CallTimes, Timed
<1>3. CASE UNCHANGED onlineVars
  BY <1>3 DEF onlineVars, CallTimes, Timed
<1> QED
  BY <1>1, <1>2, <1>3, CallEffect DEF Next

(* What a receiver's step does to the createdAt of the hashes.             *)
LEMMA CreatedAtEffect ==
  ASSUME TypeOK, NEW i \in Instances, ByCall(i), NEW s \in Sensors
  PROVE  \/ online'[s] = online[s]
         \/ /\ Timed(call[i]) /\ s = call[i].sensor
            /\ online'[s].modifiedAt = call[i].timestamp
            /\ online'[s].createdAt =
                 IF call[i].created_at = 0 THEN call[i].timestamp ELSE online[s].createdAt
<1>1. /\ online \in [Sensors -> Hash] /\ call[i] \in Call /\ online[s] \in Hash
      /\ Timed(call[i]) => call[i].sensor \in Sensors
  BY DEF TypeOK, Timed
<1>2. CASE Timed(call[i]) /\ online' = [online EXCEPT ![call[i].sensor] = Written(@, call[i])]
  <2>1. CASE s = call[i].sensor
    <3>1. online'[s] = Written(online[s], call[i])
      BY <1>1, <1>2, <2>1
    <3> QED
      BY <1>1, <1>2, <2>1, <3>1, WrittenHash
  <2>2. CASE s # call[i].sensor
    BY <1>1, <1>2, <2>2
  <2> QED
    BY <2>1, <2>2
<1> QED
  BY <1>2 DEF ByCall

LEMMA CompleteStep ==
  ASSUME ~MayBeRemoved
  PROVE  CompleteInv /\ [Next]_onlineVars => ReadIsThere' /\ HashComplete'
<1> SUFFICES ASSUME CompleteInv, [Next]_onlineVars PROVE ReadIsThere' /\ HashComplete'
  OBVIOUS
<1> USE DEF CompleteInv
<1>0. /\ call \in [Instances -> Call] /\ online \in [Sensors -> Hash]
      /\ \A i \in Instances :
           call[i].created_at # 0 => Timed(call[i]) /\ call[i].sensor \in Sensors
  BY DEF TypeOK, CallTimes, Timed
<1>1. ASSUME NEW i \in Instances, ByCall(i) PROVE ReadIsThere' /\ HashComplete'
  <2>1. ASSUME NEW s \in Sensors
        PROVE  /\ online[s].createdAt # 0 => online'[s].createdAt # 0
               /\ online'[s].modifiedAt # 0 => online'[s].createdAt # 0
    <3>1. CASE online'[s] = online[s]
      BY <3>1 DEF HashComplete
    <3>2. CASE online'[s] # online[s]
      <4>1. Timed(call[i]) /\ s = call[i].sensor
            /\ online'[s].createdAt =
                 IF call[i].created_at = 0 THEN call[i].timestamp ELSE online[s].createdAt
        BY <1>1, <3>2, CreatedAtEffect
      <4>2. call[i].timestamp # 0
        BY <1>0, <4>1 DEF CallTimes
      <4>3. call[i].created_at # 0 => online[s].createdAt # 0
        BY <4>1 DEF ReadIsThere
      <4> QED
        BY <4>1, <4>2, <4>3
    <3> QED
      BY <3>1, <3>2
  <2>2. ASSUME NEW j \in Instances, call'[j].created_at # 0
        PROVE  online'[call'[j].sensor].createdAt # 0
    <3>1. CASE j # i
      <4>1. call'[j] = call[j]
        BY <1>0, <1>1, <3>1 DEF ByCall
      <4> QED
        BY <1>0, <2>1, <2>2, <4>1 DEF ReadIsThere
    <3>2. CASE j = i
      <4>1. Advanced(call[i], call'[i]) /\ Timed(call'[i])
        BY <1>1, <2>2, <3>2 DEF ByCall, Advanced
      <4>2. /\ Timed(call[i]) /\ call'[i].sensor = call[i].sensor
            /\ call'[i].created_at \in {call[i].created_at, online[call[i].sensor].createdAt}
        BY <2>2, <3>2, <4>1 DEF Advanced, CallTimes
      <4>3. online[call[i].sensor].createdAt # 0 /\ call[i].sensor \in Sensors
        BY <2>2, <3>2, <4>2 DEF ReadIsThere, TypeOK, Timed
      <4> QED
        BY <2>1, <3>2, <4>2, <4>3
    <3> QED
      BY <3>1, <3>2
  <2> QED
    BY <2>1, <2>2 DEF ReadIsThere, HashComplete
<1>2. CASE Environment
  <2>1. UNCHANGED call
    BY <1>2, EnvironmentEffect
  <2>2. \A s \in Sensors : /\ online'[s].createdAt = online[s].createdAt
                           /\ online'[s].modifiedAt = online[s].modifiedAt
    <3>1. ASSUME NEW r \in Sensors, online' = [online EXCEPT ![r].preferences = TRUE]
          PROVE  \A s \in Sensors : /\ online'[s].createdAt = online[s].createdAt
                                    /\ online'[s].modifiedAt = online[s].modifiedAt
      BY <1>0, <3>1 DEF Hash
    <3> QED
      BY <1>2, <3>1, EnvironmentEffect
  <2> QED
    BY <1>0, <2>1, <2>2 DEF ReadIsThere, HashComplete
<1>3. CASE UNCHANGED onlineVars
  BY <1>3 DEF onlineVars, ReadIsThere, HashComplete
<1> QED
  BY <1>1, <1>2, <1>3, CallEffect DEF Next

(* Where no service deletes hashes, a heartbeat leaves a hash with both    *)
(* its times for any number of overlapping receivers, also over a hash     *)
(* that was begun elsewhere and also when the HGETs fail (online.rs:43-62).*)
THEOREM HashesComplete ==
  ASSUME ~MayBeRemoved
  PROVE  Spec => []HashComplete
<1>1. Init => CompleteInv
  <2> SUFFICES ASSUME Init PROVE CompleteInv
    OBVIOUS
  <2>1. \A i \in Instances : call[i].created_at = 0
    BY NoCallTyped DEF Init
  <2>2. \A s \in Sensors : online[s].modifiedAt = 0
    <3>1. NoHash.modifiedAt = 0 /\ [NoHash EXCEPT !.preferences = TRUE].modifiedAt = 0
      BY DEF NoHash
    <3> QED
      BY <3>1 DEF Init
  <2> QED
    BY <2>1, <2>2, InitTyped, CallTimesInit DEF CompleteInv, ReadIsThere, HashComplete
<1>2. CompleteInv /\ [Next]_onlineVars => CompleteInv'
  BY CompleteStep, TypeStep, CallTimesStep DEF CompleteInv
<1>3. CompleteInv => HashComplete
  BY DEF CompleteInv
<1> QED
  BY <1>1, <1>2, <1>3, PTL DEF Spec

-----------------------------------------------------------------------------
(* The two times of a hash are in order.                                   *)

(* But for the error of the clock, no createdAt lies ahead of it, and none *)
(* ahead of a call that has read its time: what makes                      *)
(* CreatedBeforeModified survive the HSET.                                 *)
NoneAhead ==
  /\ \A s \in Sensors : online[s].createdAt <= clock + MaxClockError
  /\ \A i \in Instances : Timed(call[i]) =>
       online[call[i].sensor].createdAt <= call[i].timestamp + 2 * MaxClockError

OrderInv == TypeOK /\ CallTimes /\ NoneAhead /\ CreatedBeforeModified

LEMMA OrderStep ==
  ASSUME \A i, j \in Instances : i = j
  PROVE  OrderInv /\ [Next]_onlineVars => NoneAhead' /\ CreatedBeforeModified'
<1> SUFFICES ASSUME OrderInv, [Next]_onlineVars PROVE NoneAhead' /\ CreatedBeforeModified'
  OBVIOUS
<1> USE DEF OrderInv
<1>0. /\ call \in [Instances -> Call] /\ online \in [Sensors -> Hash]
      /\ clock \in Nat /\ MaxClockError \in Nat
      /\ \A i \in Instances : call[i].timestamp \in Nat
      /\ \A s \in Sensors : online[s].createdAt \in Nat /\ online[s].modifiedAt \in Nat
      /\ \A i \in Instances : Timed(call[i]) => call[i].sensor \in Sensors
  BY Readings DEF TypeOK, Timed, Call, Hash
<1>1. ASSUME NEW i \in Instances, ByCall(i) PROVE NoneAhead' /\ CreatedBeforeModified'
  <2>1. clock' = clock
    BY <1>1 DEF ByCall
  <2>2. ASSUME NEW s \in Sensors, online'[s] # online[s]
        PROVE  /\ Timed(call[i]) /\ s = call[i].sensor
               /\ online'[s].createdAt \in Nat
               /\ online'[s].createdAt <= call[i].timestamp + 2 * MaxClockError
               /\ online'[s].createdAt <= clock + MaxClockError
               /\ online'[s].modifiedAt = call[i].timestamp
    <3>1. /\ Timed(call[i]) /\ s = call[i].sensor
          /\ online'[s].modifiedAt = call[i].timestamp
          /\ online'[s].createdAt \in {call[i].timestamp, online[s].createdAt}
      BY <1>1, <2>2, CreatedAtEffect
    <3>2. /\ online[s].createdAt <= call[i].timestamp + 2 * MaxClockError
          /\ online[s].createdAt <= clock + MaxClockError
          /\ call[i].timestamp <= clock + MaxClockError
      BY <1>0, <3>1 DEF NoneAhead, CallTimes
    <3> QED
      BY <1>0, <3>1, <3>2
  <2>3. \A s \in Sensors : online'[s].createdAt <= clock + MaxClockError
    <3> SUFFICES ASSUME NEW s \in Sensors PROVE online'[s].createdAt <= clock + MaxClockError
      OBVIOUS
    <3>1. CASE online'[s] = online[s]
      BY <3>1 DEF NoneAhead
    <3>2. CASE online'[s] # online[s]
      BY <2>2, <3>2
    <3> QED
      BY <3>1, <3>2
  <2>4. \A s \in Sensors :
          online'[s].modifiedAt # 0 =>
            online'[s].createdAt <= online'[s].modifiedAt + 2 * MaxClockError
    BY <2>2 DEF CreatedBeforeModified
  <2>5. ASSUME NEW j \in Instances, Timed(call'[j])
        PROVE  online'[call'[j].sensor].createdAt <= call'[j].timestamp + 2 * MaxClockError
    <3>1. j = i
      OBVIOUS
    <3>2. Advanced(call[i], call'[i]) /\ call'[i].sensor \in Sensors
      BY <1>1, <2>5, <3>1 DEF ByCall, Advanced, Timed
    <3>3. CASE ~Timed(call[i])
      <4>1. /\ online' = online /\ call'[i].timestamp \in Nat
            /\ clock <= call'[i].timestamp + MaxClockError
        BY <1>1, <2>5, <3>1, <3>2, <3>3, Readings DEF ByCall, Advanced, TypeOK
      <4> QED
        BY <1>0, <3>1, <3>2, <4>1 DEF NoneAhead
    <3>4. CASE Timed(call[i])
      <4>1. call'[i].timestamp = call[i].timestamp /\ call'[i].sensor = call[i].sensor
        BY <2>5, <3>1, <3>2, <3>4 DEF Advanced
      <4>2. CASE online'[call[i].sensor] = online[call[i].sensor]
        BY <3>1, <3>4, <4>1, <4>2 DEF NoneAhead
      <4>3. CASE online'[call[i].sensor] # online[call[i].sensor]
        BY <1>0, <2>2, <3>1, <3>4, <4>1, <4>3
      <4> QED
        BY <4>2, <4>3
    <3> QED
      BY <3>3, <3>4
  <2> QED
    BY <2>1, <2>3, <2>4, <2>5 DEF NoneAhead, CreatedBeforeModified, Timed
<1>2. CASE Environment
  <2>1. UNCHANGED call /\ clock' \in Nat /\ clock' >= clock
    BY <1>2, EnvironmentEffect, OnlineAssumption
  <2>2. \A s \in Sensors :
          \/ /\ online'[s].createdAt = online[s].createdAt
             /\ online'[s].modifiedAt = online[s].modifiedAt
          \/ online'[s].createdAt = 0 /\ online'[s].modifiedAt = 0
    BY <1>2, EnvironmentTimes
  <2>3. \A s \in Sensors : online'[s].createdAt <= clock' + MaxClockError
    BY <1>0, <2>1, <2>2 DEF NoneAhead
  <2>4. \A j \in Instances : Timed(call[j]) =>
          online'[call[j].sensor].createdAt <= call[j].timestamp + 2 * MaxClockError
    BY <1>0, <2>2 DEF NoneAhead
  <2> QED
    BY <1>0, <2>1, <2>2, <2>3, <2>4 DEF NoneAhead, CreatedBeforeModified, Timed
<1>3. CASE UNCHANGED onlineVars
  BY <1>3 DEF onlineVars, NoneAhead, CreatedBeforeModified, Timed
<1> QED
  BY <1>1, <1>2, <1>3, CallEffect DEF Next

(* As long as one receiver runs, no hash is modified before it was         *)
(* created, by more than two errors of the clock, also when reads fail,    *)
(* calls are aborted and hashes are deleted between the commands: the      *)
(* timestamp is read once, after EXISTS (online.rs:42).                    *)
THEOREM TimesInOrder ==
  ASSUME \A i, j \in Instances : i = j
  PROVE  Spec => []CreatedBeforeModified
<1>1. Init => OrderInv
  <2> SUFFICES ASSUME Init PROVE OrderInv
    OBVIOUS
  <2>1. \A i \in Instances : ~Timed(call[i])
    BY NoCallTyped DEF Init
  <2>2. \A s \in Sensors : online[s].modifiedAt = 0 /\ online[s].createdAt = 0
    <3>1. /\ NoHash.modifiedAt = 0 /\ [NoHash EXCEPT !.preferences = TRUE].modifiedAt = 0
          /\ NoHash.createdAt = 0 /\ [NoHash EXCEPT !.preferences = TRUE].createdAt = 0
      BY DEF NoHash
    <3> QED
      BY <3>1 DEF Init
  <2>3. clock + MaxClockError >= 0 /\ 2 * MaxClockError >= 0
    <3>1. clock \in Nat /\ MaxClockError \in Nat
      BY InitTyped, ClockTyped
    <3> QED
      BY <3>1
  <2> QED
    BY <2>1, <2>2, <2>3, InitTyped, CallTimesInit
       DEF OrderInv, NoneAhead, CreatedBeforeModified
<1>2. OrderInv /\ [Next]_onlineVars => OrderInv'
  BY OrderStep, TypeStep, CallTimesStep DEF OrderInv
<1>3. OrderInv => CreatedBeforeModified
  BY DEF OrderInv
<1> QED
  BY <1>1, <1>2, <1>3, PTL DEF Spec

-----------------------------------------------------------------------------
(* One receiver whose reads are answered: four commands as one step.       *)

(* A call that has put the question for createdAt behind it.               *)
Asked(c) == c.step \in {"fcm_token", "hset"}

(* What such a call knows of its hash stays true until its HSET: where it  *)
(* found no createdAt there is none, and the hash was not modified after   *)
(* the time the call has read, but for the error of the clock.             *)
Current ==
  /\ \A s \in Sensors : online[s].modifiedAt <= clock + MaxClockError
  /\ \A i \in Instances :
       /\ Timed(call[i]) =>
            online[call[i].sensor].modifiedAt <= call[i].timestamp + 2 * MaxClockError
       /\ Asked(call[i]) /\ call[i].created_at = 0 => online[call[i].sensor].createdAt = 0

PresenceInv == TypeOK /\ CallTimes /\ Current

(* What a step of a receiver's call adds to ByCall: only HSET writes, and  *)
(* it ends the call; createdAt is missed only where there is none.         *)
LEMMA CallAnswered ==
  ASSUME TypeOK, ~ReadsMayFail, NEW i \in Instances,
         CallStep(i) \/ \E s \in Sensors, t \in ApiTokens : Begin(i, s, t)
  PROVE  /\ online' # online =>
              /\ HsetMultiple(i)
              /\ ~Timed(call'[i])
         /\ Asked(call'[i]) /\ call'[i].created_at = 0 =>
              \/ online[call'[i].sensor].createdAt = 0
              \/ /\ Asked(call[i]) /\ call[i].created_at = 0
                 /\ call'[i].sensor = call[i].sensor
<1> DEFINE c == call[i]
           d == call'[i]
<1>1. /\ call \in [Instances -> Call] /\ c \in Call
      /\ \A s \in Sensors : online[s] \in Hash
  BY DEF TypeOK
<1>2. ASSUME NEW s \in Sensors, NEW t \in ApiTokens, Begin(i, s, t)
      PROVE  online' = online /\ ~Asked(d)
  BY <1>1, <1>2 DEF Begin, Asked, NoCall
<1>3. CASE Exists(i)
  <2> DEFINE next == IF online[c.sensor] # NoHash THEN "created_at" ELSE "fcm_token"
  <2>1. PICK now \in Now :
          /\ call' = [call EXCEPT ![i] = [@ EXCEPT !.step = next, !.timestamp = now]]
          /\ online' = online
    BY <1>3 DEF Exists
  <2>2. next = "fcm_token" => online[c.sensor].createdAt = 0
    <3>1. next = "fcm_token" => online[c.sensor] = NoHash
      OBVIOUS
    <3>2. NoHash.createdAt = 0
      BY DEF NoHash
    <3> QED
      BY <3>1, <3>2
  <2>3. next \in {"created_at", "fcm_token"}
    OBVIOUS
  <2> HIDE DEF next
  <2>4. d.step = next /\ d.sensor = c.sensor
    BY <1>1, <2>1 DEF Call
  <2> QED
    BY <2>1, <2>2, <2>3, <2>4 DEF Asked
<1>4. CASE HgetCreatedAt(i)
  <2> DEFINE x == online[c.sensor].createdAt
  <2>1. /\ call' = [call EXCEPT ![i] = [@ EXCEPT !.step = "fcm_token", !.created_at = x]]
        /\ online' = online
    BY <1>1, <1>4 DEF HgetCreatedAt, Call
  <2> HIDE DEF x
  <2>2. d.created_at = x /\ d.sensor = c.sensor
    BY <1>1, <2>1 DEF Call
  <2> QED
    BY <2>1, <2>2 DEF x
<1>5. CASE HgetFcmToken(i)
  <2> DEFINE f == fcm_by_api_token[c.api_token]
  <2>1. /\ call' = [call EXCEPT ![i] = [@ EXCEPT !.step = "hset", !.fcm_token = f]]
        /\ online' = online /\ c.step = "fcm_token"
    BY <1>5 DEF HgetFcmToken
  <2> HIDE DEF f
  <2>2. d.created_at = c.created_at /\ d.sensor = c.sensor
    BY <1>1, <2>1 DEF Call
  <2> QED
    BY <2>1, <2>2 DEF Asked
<1>6. CASE HsetMultiple(i) \/ CallFails(i) \/ CallAborted(i)
  <2>1. d = NoCall
    BY <1>1, <1>6 DEF HsetMultiple, CallFails, CallAborted
  <2>2. ~Asked(NoCall)
    BY DEF NoCall, Asked
  <2> QED
    BY <1>6, <2>1, <2>2, NoCallTyped DEF CallFails, CallAborted
<1>7. ~HgetCreatedAtFails(i) /\ ~HgetFcmTokenFails(i)
  BY DEF HgetCreatedAtFails, HgetFcmTokenFails
<1> QED
  BY <1>2, <1>3, <1>4, <1>5, <1>6, <1>7 DEF CallStep

LEMMA CurrentStep ==
  ASSUME \A i, j \in Instances : i = j, ~ReadsMayFail
  PROVE  PresenceInv /\ [Next]_onlineVars => Current'
<1> SUFFICES ASSUME PresenceInv, [Next]_onlineVars PROVE Current'
  OBVIOUS
<1> USE DEF PresenceInv
<1>0. /\ call \in [Instances -> Call] /\ online \in [Sensors -> Hash]
      /\ clock \in Nat /\ MaxClockError \in Nat
      /\ \A i \in Instances : call[i].timestamp \in Nat
      /\ \A s \in Sensors : online[s].createdAt \in Nat /\ online[s].modifiedAt \in Nat
      /\ \A i \in Instances : Timed(call[i]) => call[i].sensor \in Sensors
      /\ \A i \in Instances : Asked(call[i]) => Timed(call[i])
  BY Readings DEF TypeOK, Timed, Asked, Call, Hash
<1>1. ASSUME NEW i \in Instances,
             CallStep(i) \/ \E s \in Sensors, t \in ApiTokens : Begin(i, s, t)
      PROVE  Current'
  <2>1. ByCall(i) /\ clock' = clock
    BY <1>1, CallEffect DEF ByCall
  <2>2. \A s \in Sensors : online'[s].modifiedAt <= clock + MaxClockError
    <3> SUFFICES ASSUME NEW s \in Sensors PROVE online'[s].modifiedAt <= clock + MaxClockError
      OBVIOUS
    <3>1. CASE online'[s] = online[s]
      BY <3>1 DEF Current
    <3>2. CASE online'[s] # online[s]
      BY <1>0, <2>1, <3>2, CreatedAtEffect DEF CallTimes
    <3> QED
      BY <3>1, <3>2
  <2>3. ASSUME Timed(call'[i])
        PROVE  online'[call'[i].sensor].modifiedAt <= call'[i].timestamp + 2 * MaxClockError
    <3>1. online' = online
      BY <1>1, <2>3, CallAnswered
    <3>2. Advanced(call[i], call'[i]) /\ call'[i].sensor \in Sensors
      BY <2>1, <2>3 DEF ByCall, Advanced, Timed
    <3>3. CASE Timed(call[i])
      BY <2>3, <3>1, <3>2, <3>3 DEF Advanced, Current
    <3>4. CASE ~Timed(call[i])
      <4>1. /\ call'[i].timestamp \in Nat
            /\ clock <= call'[i].timestamp + MaxClockError
        BY <2>3, <3>2, <3>4, Readings DEF Advanced, TypeOK
      <4> QED
        BY <1>0, <3>1, <3>2, <4>1 DEF Current
    <3> QED
      BY <3>3, <3>4
  <2>4. ASSUME Asked(call'[i]), call'[i].created_at = 0
        PROVE  online'[call'[i].sensor].createdAt = 0
    <3>1. online' = online
      BY <1>1, <2>4, CallAnswered DEF Asked, Timed
    <3>2. \/ online[call'[i].sensor].createdAt = 0
          \/ /\ Asked(call[i]) /\ call[i].created_at = 0
             /\ call'[i].sensor = call[i].sensor
      BY <1>1, <2>4, CallAnswered
    <3> QED
      BY <3>1, <3>2 DEF Current
  <2>5. \A j \in Instances : j = i
    OBVIOUS
  <2> QED
    BY <2>1, <2>2, <2>3, <2>4, <2>5 DEF Current, Timed, Asked
<1>2. CASE Environment
  <2>1. UNCHANGED call /\ clock' \in Nat /\ clock' >= clock
    BY <1>2, EnvironmentEffect, OnlineAssumption
  <2>2. \A s \in Sensors :
          \/ /\ online'[s].createdAt = online[s].createdAt
             /\ online'[s].modifiedAt = online[s].modifiedAt
          \/ online'[s].createdAt = 0 /\ online'[s].modifiedAt = 0
    BY <1>2, EnvironmentTimes
  <2>3. \A s \in Sensors : online'[s].modifiedAt <= clock' + MaxClockError
    BY <1>0, <2>1, <2>2 DEF Current
  <2>4. \A j \in Instances :
          /\ Timed(call[j]) =>
               online'[call[j].sensor].modifiedAt <= call[j].timestamp + 2 * MaxClockError
          /\ Asked(call[j]) /\ call[j].created_at = 0 =>
               online'[call[j].sensor].createdAt = 0
    BY <1>0, <2>2 DEF Current
  <2> QED
    BY <2>1, <2>3, <2>4 DEF Current, Timed, Asked
<1>3. CASE UNCHANGED onlineVars
  BY <1>3 DEF onlineVars, Current, Timed, Asked
<1> QED
  BY <1>1, <1>2, <1>3 DEF Next

LEMMA PresenceInvariant ==
  ASSUME \A i, j \in Instances : i = j, ~ReadsMayFail
  PROVE  Spec => []PresenceInv
<1>1. Init => PresenceInv
  <2> SUFFICES ASSUME Init PROVE PresenceInv
    OBVIOUS
  <2>1. \A i \in Instances : ~Timed(call[i]) /\ ~Asked(call[i])
    BY NoCallTyped DEF Init, Timed, Asked
  <2>2. \A s \in Sensors : online[s].modifiedAt = 0
    <3>1. NoHash.modifiedAt = 0 /\ [NoHash EXCEPT !.preferences = TRUE].modifiedAt = 0
      BY DEF NoHash
    <3> QED
      BY <3>1 DEF Init
  <2>3. clock + MaxClockError >= 0 /\ 2 * MaxClockError >= 0
    <3>1. clock \in Nat /\ MaxClockError \in Nat
      BY InitTyped, ClockTyped
    <3> QED
      BY <3>1
  <2> QED
    BY <2>1, <2>2, <2>3, InitTyped, CallTimesInit DEF PresenceInv, Current
<1>2. PresenceInv /\ [Next]_onlineVars => PresenceInv'
  BY CurrentStep, TypeStep, CallTimesStep DEF PresenceInv
<1> QED
  BY <1>1, <1>2, PTL DEF Spec

(* As long as one receiver runs and its reads are answered, no heartbeat   *)
(* moves a createdAt (online.rs:43-55): another service may delete the     *)
(* hash between any two of the commands, but the createdAt it deletes is   *)
(* not written again by a call that has read it.                           *)
THEOREM CreatedAtStays ==
  ASSUME \A i, j \in Instances : i = j, ~ReadsMayFail
  PROVE  Spec => CreatedAtHistorical
<1> DEFINE Stays == \A s \in Sensors :
             online[s].createdAt # 0 => online[s]'.createdAt \in {online[s].createdAt, 0}
<1>1. PresenceInv /\ [Next]_onlineVars => Stays
  <2> SUFFICES ASSUME PresenceInv, [Next]_onlineVars, NEW s \in Sensors,
                      online[s].createdAt # 0
               PROVE  online'[s].createdAt \in {online[s].createdAt, 0}
    OBVIOUS
  <2>1. ASSUME NEW i \in Instances,
               CallStep(i) \/ \E r \in Sensors, t \in ApiTokens : Begin(i, r, t)
        PROVE  online'[s].createdAt = online[s].createdAt
    <3>1. CASE online'[s] = online[s]
      BY <3>1
    <3>2. CASE online'[s] # online[s]
      <4>1. ByCall(i)
        BY <2>1, CallEffect DEF PresenceInv
      <4>2. /\ s = call[i].sensor
            /\ online'[s].createdAt =
                 IF call[i].created_at = 0 THEN call[i].timestamp ELSE online[s].createdAt
        BY <3>2, <4>1, CreatedAtEffect DEF PresenceInv
      <4>3. Asked(call[i])
        BY <2>1, <3>2, CallAnswered DEF PresenceInv, HsetMultiple, Asked
      <4>4. call[i].created_at # 0
        BY <4>2, <4>3 DEF PresenceInv, Current
      <4> QED
        BY <4>2, <4>4
    <3> QED
      BY <3>1, <3>2
  <2>2. CASE Environment
    BY <2>2, EnvironmentTimes DEF PresenceInv
  <2>3. CASE UNCHANGED onlineVars
    BY <2>3 DEF onlineVars
  <2> QED
    BY <2>1, <2>2, <2>3 DEF Next
<1>2. PresenceInv /\ [Next]_onlineVars => [Stays]_onlineVars
  BY <1>1
<1> QED
  BY <1>2, PresenceInvariant, PTL DEF Spec, CreatedAtHistorical

-----------------------------------------------------------------------------
(* The refinement.                                                         *)

(* The HSET is the heartbeat.                                              *)
LEMMA HsetIsHeartbeat ==
  ASSUME PresenceInv, NEW i \in Instances, HsetMultiple(i)
  PROVE  AsOneStep!Heartbeat(call[i].sensor)
<1> DEFINE c == call[i]
           h == online[c.sensor]
           fcm == IF c.fcm_token # "" THEN c.fcm_token ELSE h.fcmToken
           created == IF c.created_at = 0 THEN c.timestamp ELSE 0
<1> USE DEF PresenceInv
<1>1. /\ online \in [Sensors -> Hash] /\ c \in Call /\ Timed(c) /\ Asked(c)
      /\ c.sensor \in Sensors /\ c.api_token \in ApiTokens
  BY DEF TypeOK, HsetMultiple, Timed, Asked
<1>2. /\ c.timestamp \in 1 .. (clock + MaxClockError)
      /\ c.timestamp + 2 * MaxClockError >= h.modifiedAt
  <2>1. /\ c.timestamp \in 1 .. (clock + MaxClockError)
        /\ h.modifiedAt <= c.timestamp + 2 * MaxClockError
    BY <1>1 DEF CallTimes, Current
  <2>2. h.modifiedAt \in Nat /\ c.timestamp \in Nat /\ MaxClockError \in Nat
    BY <1>1, OnlineAssumption DEF Hash, Call
  <2> QED
    BY <2>1, <2>2
<1>3. fcm \in FcmTokens \cup {h.fcmToken} /\ created \in {c.timestamp, 0}
  BY <1>1 DEF Call
<1>4. Written(h, c) =
        [ h EXCEPT !.apiToken = c.api_token, !.fcmToken = fcm, !.modifiedAt = c.timestamp,
                   !.createdAt = IF @ # 0 THEN @ ELSE created ]
  <2>1. c.created_at = 0 => h.createdAt = 0
    BY <1>1 DEF Current
  <2> QED
    BY <1>1, <2>1 DEF Written, Hash, Call
<1>5. online' = [online EXCEPT ![c.sensor] = Written(h, c)] /\ UNCHANGED clock
  BY <1>1 DEF HsetMultiple
<1> HIDE DEF fcm, created
<1> DEFINE Beat(token, f, time, made) ==
             [ h EXCEPT !.apiToken = token, !.fcmToken = f, !.modifiedAt = time,
                        !.createdAt = IF @ # 0 THEN @ ELSE made ]
<1>6. online' = [online EXCEPT ![c.sensor] = Beat(c.api_token, fcm, c.timestamp, created)]
  BY <1>4, <1>5
<1>7. \E token \in ApiTokens, f \in FcmTokens \cup {h.fcmToken} :
        \E time \in 1 .. (clock + MaxClockError) :
          /\ time + 2 * MaxClockError >= h.modifiedAt
          /\ \E made \in {time, 0} :
               online' = [online EXCEPT ![c.sensor] = Beat(token, f, time, made)]
          /\ UNCHANGED clock
  <2> HIDE DEF Beat, h
  <2>1. \E made \in {c.timestamp, 0} :
          online' = [online EXCEPT ![c.sensor] = Beat(c.api_token, fcm, c.timestamp, made)]
    BY <1>3, <1>6, Zenon
  <2>2. \E time \in 1 .. (clock + MaxClockError) :
          /\ time + 2 * MaxClockError >= h.modifiedAt
          /\ \E made \in {time, 0} :
               online' = [online EXCEPT ![c.sensor] = Beat(c.api_token, fcm, time, made)]
          /\ UNCHANGED clock
    BY <1>2, <1>5, <2>1, Zenon
  <2> QED
    BY <1>1, <1>3, <2>2, Zenon
<1> QED
  BY <1>7 DEF AsOneStep!Heartbeat

(* While one receiver runs and its reads are answered, the four commands   *)
(* of a heartbeat are as one step (online.rs:20-68), whatever the other    *)
(* services write or delete between them and whichever of them is the      *)
(* last that is sent.                                                      *)
THEOREM HeartbeatsAreSteps ==
  ASSUME \A i, j \in Instances : i = j, ~ReadsMayFail
  PROVE  Spec => ImplementsPresence
<1>1. Init => AsOneStep!Init
  <2>1. NoHash = AsOneStep!Absent
    BY DEF NoHash, AsOneStep!Absent
  <2>2. clock \in Instants => clock \in Nat \ {0}
    BY Readings
  <2> QED
    BY <2>1, <2>2 DEF Init, AsOneStep!Init
<1>2. PresenceInv /\ [Next]_onlineVars => [AsOneStep!Next]_(AsOneStep!vars)
  <2> SUFFICES ASSUME PresenceInv, [Next]_onlineVars
               PROVE  AsOneStep!Next \/ UNCHANGED AsOneStep!vars
    OBVIOUS
  <2>1. ASSUME NEW i \in Instances,
               CallStep(i) \/ \E s \in Sensors, t \in ApiTokens : Begin(i, s, t)
        PROVE  AsOneStep!Next \/ UNCHANGED AsOneStep!vars
    <3>1. CASE online' = online
      <4>1. clock' = clock
        BY <2>1, CallEffect DEF PresenceInv, ByCall
      <4> QED
        BY <3>1, <4>1 DEF AsOneStep!vars
    <3>2. CASE online' # online
      <4>1. HsetMultiple(i) /\ call[i].sensor \in Sensors
        BY <2>1, <3>2, CallAnswered DEF PresenceInv, TypeOK, HsetMultiple
      <4> QED
        BY <4>1, HsetIsHeartbeat DEF AsOneStep!Next
    <3> QED
      BY <3>1, <3>2
  <2>2. CASE Environment
    <3>1. ASSUME NEW t \in ApiTokens, NEW f \in FcmTokens \cup {""}, RegisterFcmToken(t, f)
          PROVE  UNCHANGED AsOneStep!vars
      BY <3>1 DEF RegisterFcmToken, AsOneStep!vars
    <3>2. ASSUME NEW s \in Sensors, WritePreferences(s)
          PROVE  AsOneStep!SetPreferences(s)
      BY <3>2 DEF WritePreferences, AsOneStep!SetPreferences
    <3>3. ASSUME NEW s \in Sensors, RemoveHash(s)
          PROVE  AsOneStep!Remove(s)
      BY <3>3 DEF RemoveHash, AsOneStep!Remove, NoHash, AsOneStep!Absent
    <3>4. CASE Tick
      BY <3>4, OnlineAssumption DEF Tick, AsOneStep!Elapse, AsOneStep!Next
    <3> QED
      BY <2>2, <3>1, <3>2, <3>3, <3>4 DEF Environment, AsOneStep!Next
  <2>3. CASE UNCHANGED onlineVars
    BY <2>3 DEF onlineVars, AsOneStep!vars
  <2> QED
    BY <2>1, <2>2, <2>3 DEF Next
<1> QED
  BY <1>1, <1>2, PresenceInvariant, PTL DEF Spec, ImplementsPresence, AsOneStep!Spec
=============================================================================
