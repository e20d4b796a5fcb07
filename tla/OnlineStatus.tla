---------------------------- MODULE OnlineStatus ----------------------------
(***************************************************************************)
(* insert_or_update_online (db/online.rs): one heartbeat updates one hash  *)
(* of Redis database 0 with four commands, EXISTS, HGET createdAt,         *)
(* HGET fcm_by_api_token, HSET, each awaited.  Other services own other    *)
(* fields of the same hashes and the fcm_by_api_token map, and act between *)
(* any two of the commands.                                                *)
(*                                                                         *)
(* call[i] is the state of the call that receiver i is in.  Times are in   *)
(* milliseconds; 0 is a missing field.                                     *)
(***************************************************************************)
EXTENDS Integers

CONSTANTS
  Instances,      \* the receiver processes that may overlap
  Sensors,        \* the device and feature pairs, one hash each
  ApiTokens,
  FcmTokens,      \* FCM registration tokens, none of them empty
  ReadsMayFail,   \* may an HGET be answered by an error?
  MayBeRemoved,   \* may another service delete a hash?
  Instants,       \* when something may happen: the bound on time
  ClockErrors,    \* by how much a reading of the clock may be off
  MaxClockError

ASSUME OnlineAssumption ==
  /\ MaxClockError \in Nat
  /\ Instants \subseteq Nat
  /\ \A t \in Instants : t > MaxClockError
  /\ ClockErrors \subseteq -MaxClockError .. MaxClockError
  /\ ReadsMayFail \in BOOLEAN /\ MayBeRemoved \in BOOLEAN
  /\ "" \notin FcmTokens

VARIABLES
  clock,             \* true time
  online,            \* the hash of each sensor
  fcm_by_api_token,  \* "" where the map has no entry
  call

onlineVars == << clock, online, fcm_by_api_token, call >>

(* preferences stands for the fields other services write.                 *)
NoHash ==
  [ preferences |-> FALSE, apiToken |-> "", createdAt |-> 0, modifiedAt |-> 0,
    fcmToken |-> "" ]

NoCall ==
  [ step |-> "idle", sensor |-> << >>, api_token |-> "", timestamp |-> 0,
    created_at |-> 0, fcm_token |-> "" ]

Hash ==
  [ preferences : BOOLEAN, apiToken : ApiTokens \cup {""}, createdAt : Nat,
    modifiedAt : Nat, fcmToken : FcmTokens \cup {""} ]

Call ==
  [ step : {"idle", "exists", "created_at", "fcm_token", "hset"},
    sensor : Sensors \cup {<< >>}, api_token : ApiTokens \cup {""},
    timestamp : Nat, created_at : Nat, fcm_token : FcmTokens \cup {""} ]

(* Each variable keeps its shape; a call in progress knows its arguments.  *)
TypeOK ==
  /\ clock \in Instants
  /\ online \in [Sensors -> Hash]
  /\ fcm_by_api_token \in [ApiTokens -> FcmTokens \cup {""}]
  /\ call \in [Instances -> Call]
  /\ \A i \in Instances : call[i].step # "idle" =>
       call[i].sensor \in Sensors /\ call[i].api_token \in ApiTokens

Init ==
  /\ clock \in Instants
  /\ online \in [Sensors -> {NoHash, [NoHash EXCEPT !.preferences = TRUE]}]
  /\ fcm_by_api_token \in [ApiTokens -> FcmTokens \cup {""}]
  /\ call = [i \in Instances |-> NoCall]

(* What SystemTime::now may return.                                        *)
Now == { clock + error : error \in ClockErrors }

-----------------------------------------------------------------------------
(* The call, one action per reply of Redis.                                *)

Begin(i, sensor, api_token) ==
  /\ call[i].step = "idle"
  /\ call' = [call EXCEPT ![i] =
       [NoCall EXCEPT !.step = "exists", !.sensor = sensor, !.api_token = api_token]]
  /\ UNCHANGED << clock, online, fcm_by_api_token >>

(* EXISTS is answered; the timestamp of the call is read next, before the  *)
(* other commands are sent.                                                *)
Exists(i) ==
  /\ call[i].step = "exists"
  /\ \E now \in Now : call' = [call EXCEPT ![i] =
       [@ EXCEPT !.step = IF online[call[i].sensor] # NoHash THEN "created_at" ELSE "fcm_token",
                 !.timestamp = now]]
  /\ UNCHANGED << clock, online, fcm_by_api_token >>

(* Mutant: EXISTS alone decides whether the hash has a createdAt.          *)
HgetCreatedAtAssumed(i) ==
  /\ call[i].step = "created_at"
  /\ call' = [call EXCEPT ![i].step = "fcm_token", ![i].created_at = call[i].timestamp]
  /\ UNCHANGED << clock, online, fcm_by_api_token >>

HgetCreatedAt(i) ==
  /\ call[i].step = "created_at"
  /\ call' = [call EXCEPT ![i].step = "fcm_token",
                          ![i].created_at = online[call[i].sensor].createdAt]
  /\ UNCHANGED << clock, online, fcm_by_api_token >>

(* An unreadable field counts as missing.                                  *)
HgetCreatedAtFails(i) ==
  /\ ReadsMayFail
  /\ call[i].step = "created_at"
  /\ call' = [call EXCEPT ![i].step = "fcm_token"]
  /\ UNCHANGED << clock, online, fcm_by_api_token >>

HgetFcmToken(i) ==
  /\ call[i].step = "fcm_token"
  /\ call' = [call EXCEPT ![i].step = "hset",
                          ![i].fcm_token = fcm_by_api_token[call[i].api_token]]
  /\ UNCHANGED << clock, online, fcm_by_api_token >>

HgetFcmTokenFails(i) ==
  /\ ReadsMayFail
  /\ call[i].step = "fcm_token"
  /\ call' = [call EXCEPT ![i].step = "hset", ![i].fcm_token = ""]
  /\ UNCHANGED << clock, online, fcm_by_api_token >>

(* Mutant: createdAt is written whatever HGET returned.                    *)
WrittenAnew(h, c) ==
  [ h EXCEPT
      !.apiToken = c.api_token,
      !.modifiedAt = c.timestamp,
      !.createdAt = c.timestamp,
      !.fcmToken = IF c.fcm_token # "" THEN c.fcm_token ELSE @ ]

(* Mutant: createdAt is read from the clock a second time.                 *)
WrittenLater(h, c) ==
  [ h EXCEPT
      !.apiToken = c.api_token,
      !.modifiedAt = c.timestamp,
      !.createdAt = IF c.created_at = 0 THEN clock ELSE @,
      !.fcmToken = IF c.fcm_token # "" THEN c.fcm_token ELSE @ ]

(* Mutant: the first FCM token is kept for ever.                           *)
WrittenOnce(h, c) ==
  [ h EXCEPT
      !.apiToken = c.api_token,
      !.modifiedAt = c.timestamp,
      !.createdAt = IF c.created_at = 0 THEN c.timestamp ELSE @,
      !.fcmToken = IF @ = "" THEN c.fcm_token ELSE @ ]

(* Mutant: the hash is written as a whole.                                 *)
WrittenWhole(h, c) ==
  [ NoHash EXCEPT
      !.apiToken = c.api_token,
      !.modifiedAt = c.timestamp,
      !.createdAt = IF c.created_at = 0 THEN c.timestamp ELSE c.created_at,
      !.fcmToken = IF c.fcm_token # "" THEN c.fcm_token ELSE h.fcmToken ]

(* The fields the HSET of call c leaves in hash h.                         *)
Written(h, c) ==
  [ h EXCEPT
      !.apiToken = c.api_token,
      !.modifiedAt = c.timestamp,
      !.createdAt = IF c.created_at = 0 THEN c.timestamp ELSE @,
      !.fcmToken = IF c.fcm_token # "" THEN c.fcm_token ELSE @ ]

(* Mutant: the call is not over when its HSET is answered.                 *)
HsetMultipleKept(i) ==
  /\ call[i].step = "hset"
  /\ online' = [online EXCEPT ![call[i].sensor] = Written(@, call[i])]
  /\ call' = [call EXCEPT ![i].sensor = << >>]
  /\ UNCHANGED << clock, fcm_by_api_token >>

HsetMultiple(i) ==
  /\ call[i].step = "hset"
  /\ online' = [online EXCEPT ![call[i].sensor] = Written(@, call[i])]
  /\ call' = [call EXCEPT ![i] = NoCall]
  /\ UNCHANGED << clock, fcm_by_api_token >>

(* EXISTS or HSET is answered by an error, and the call returns it.  An    *)
(* HSET that Redis did apply before the answer was lost is HsetMultiple.   *)
CallFails(i) ==
  /\ call[i].step \in {"exists", "hset"}
  /\ call' = [call EXCEPT ![i] = NoCall]
  /\ UNCHANGED << clock, online, fcm_by_api_token >>

(* The process dies, or the task is aborted, at one of the awaits.         *)
CallAborted(i) ==
  /\ call[i].step # "idle"
  /\ call' = [call EXCEPT ![i] = NoCall]
  /\ UNCHANGED << clock, online, fcm_by_api_token >>

-----------------------------------------------------------------------------
(* External: what other services do to database 0.                         *)

RegisterFcmToken(api_token, fcm_token) ==
  /\ fcm_by_api_token' = [fcm_by_api_token EXCEPT ![api_token] = fcm_token]
  /\ UNCHANGED << clock, online, call >>

WritePreferences(sensor) ==
  /\ online' = [online EXCEPT ![sensor].preferences = TRUE]
  /\ UNCHANGED << clock, fcm_by_api_token, call >>

RemoveHash(sensor) ==
  /\ MayBeRemoved
  /\ online' = [online EXCEPT ![sensor] = NoHash]
  /\ UNCHANGED << clock, fcm_by_api_token, call >>

Tick ==
  /\ \E t \in Instants : t > clock /\ clock' = t
  /\ UNCHANGED << online, fcm_by_api_token, call >>

-----------------------------------------------------------------------------
CallStep(i) ==
  \/ Exists(i)
  \/ HgetCreatedAt(i)
  \/ HgetCreatedAtFails(i)
  \/ HgetFcmToken(i)
  \/ HgetFcmTokenFails(i)
  \/ HsetMultiple(i)
  \/ CallFails(i)
  \/ CallAborted(i)

Environment ==
  \/ \E t \in ApiTokens, f \in FcmTokens \cup {""} : RegisterFcmToken(t, f)
  \/ \E s \in Sensors : WritePreferences(s) \/ RemoveHash(s)
  \/ Tick

Next ==
  \/ \E i \in Instances :
       \/ \E s \in Sensors, t \in ApiTokens : Begin(i, s, t)
       \/ CallStep(i)
  \/ Environment

Spec == Init /\ [][Next]_onlineVars

(* Heartbeats of every sensor keep coming, and a command that is sent time *)
(* and again is answered some time; the HSET also when it carries a token, *)
(* for it does not fail because the HGET before it did not.  A sensor that *)
(* goes silent, or a Redis that never answers, leaves its hash as it is.   *)
FairSpec ==
  /\ Spec
  /\ \A i \in Instances :
       /\ \A s \in Sensors : SF_onlineVars(\E t \in ApiTokens : Begin(i, s, t))
       /\ SF_onlineVars(Exists(i))
       /\ SF_onlineVars(HgetCreatedAt(i) \/ HgetCreatedAtFails(i))
       /\ SF_onlineVars(HgetFcmToken(i))
       /\ SF_onlineVars(HsetMultiple(i))
       /\ SF_onlineVars(HsetMultiple(i) /\ call[i].fcm_token # "")

-----------------------------------------------------------------------------
(* Properties.                                                             *)

(* A heartbeat leaves a hash with both its times, also where it found one  *)
(* that other services had begun (preferences only), where two receivers   *)
(* overlap, and where the HGETs failed (online.rs:43-62): no hash of a     *)
(* sensor that has been heard of lacks its createdAt.                      *)
HashComplete == \A s \in Sensors : online[s].modifiedAt # 0 => online[s].createdAt # 0

(* As long as one receiver runs and HGET is answered, the createdAt of a   *)
(* hash is historical: no heartbeat moves it (online.rs:43-55).            *)
CreatedAtHistorical ==
  [][\A s \in Sensors :
       online[s].createdAt # 0 => online[s]'.createdAt \in {online[s].createdAt, 0}]_onlineVars

(* ... and then the two times of a hash are in order, but for two readings *)
(* of an inexact clock: the one timestamp of online.rs:42, read after      *)
(* EXISTS, is never older than a createdAt the same call or an earlier one *)
(* wrote.                                                                  *)
CreatedBeforeModified ==
  \A s \in Sensors : online[s].modifiedAt # 0 =>
    online[s].createdAt <= online[s].modifiedAt + 2 * MaxClockError

(* ... and then every hash changes as if its heartbeats were single steps: *)
(* the times move back by no more than the clock's error, one heartbeat    *)
(* leaves one time, and the fields of other services survive it            *)
(* (online.rs:60-68), whatever those services do between its commands.     *)
AsOneStep == INSTANCE Presence

ImplementsPresence == AsOneStep!Spec

(* A hash that lost its createdAt, because another service deleted it      *)
(* between the HGET and the HSET of a heartbeat, is repaired by a later    *)
(* heartbeat (online.rs:43-47).                                            *)
IncompleteRepaired ==
  \A s \in Sensors :
    (online[s].modifiedAt # 0 /\ online[s].createdAt = 0)
      ~> (online[s].createdAt # 0 \/ online[s].modifiedAt = 0)

(* Once the FCM token registered for every api token stays the same, the   *)
(* hash of a sensor comes to hold it again and again, whatever it held     *)
(* before and however often it is deleted (online.rs:56-66).               *)
FcmTokenFollows ==
  \A f \in FcmTokens :
    <>[](\A t \in ApiTokens : fcm_by_api_token[t] = f)
      => \A s \in Sensors : []<>(online[s].fcmToken = f)
=============================================================================
