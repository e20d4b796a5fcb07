------------------------------ MODULE Presence ------------------------------
(***************************************************************************)
(* What db/online.rs promises of the online statuses while one receiver    *)
(* runs and its reads are answered: a heartbeat changes the hash of its    *)
(* sensor at one instant, with one reading of the clock, and what it does  *)
(* not know of stays as it is.  Redis's four commands and their order are  *)
(* not in it.                                                              *)
(***************************************************************************)
EXTENDS Integers

CONSTANTS
  Sensors, ApiTokens, FcmTokens,
  MaxClockError   \* how far a reading of the clock may be off

VARIABLES clock, online

vars == << clock, online >>

Absent ==
  [ preferences |-> FALSE, apiToken |-> "", createdAt |-> 0, modifiedAt |-> 0,
    fcmToken |-> "" ]

Init ==
  /\ clock \in Nat \ {0}
  /\ online \in [Sensors -> {Absent, [Absent EXCEPT !.preferences = TRUE]}]

(* But for the error of the clock, the time of a heartbeat is past, and    *)
(* not before that of the last one.  The first heartbeat is the creation,  *)
(* though that is not recorded when the hash was deleted while the         *)
(* heartbeat was under way.                                                *)
Heartbeat(s) ==
  \E token \in ApiTokens, fcm \in FcmTokens \cup {online[s].fcmToken} :
    \E time \in 1 .. (clock + MaxClockError) :
      /\ time + 2 * MaxClockError >= online[s].modifiedAt
      /\ \E created \in {time, 0} :
           online' = [online EXCEPT ![s] =
             [ online[s] EXCEPT !.apiToken = token, !.fcmToken = fcm, !.modifiedAt = time,
                                !.createdAt = IF @ # 0 THEN @ ELSE created ]]
      /\ UNCHANGED clock

(* External: other services.                                               *)
SetPreferences(s) ==
  /\ online' = [online EXCEPT ![s].preferences = TRUE]
  /\ UNCHANGED clock

Remove(s) ==
  /\ online' = [online EXCEPT ![s] = Absent]
  /\ UNCHANGED clock

Elapse ==
  /\ clock' \in Nat /\ clock' > clock
  /\ UNCHANGED online

Next ==
  \/ \E s \in Sensors : Heartbeat(s) \/ SetPreferences(s) \/ Remove(s)
  \/ Elapse

Spec == Init /\ [][Next]_vars
=============================================================================
