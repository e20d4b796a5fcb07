----------------------------- MODULE Admission -----------------------------
(***************************************************************************)
(* What alarm-receiver promises of signed notifications, without MQTT,     *)
(* MongoDB, replay cache or receivers: a genuine notification is admitted  *)
(* at most once, inside its window of time, and what is admitted is        *)
(* applied to the stores once or given up, never both.  Times are in       *)
(* milliseconds.                                                           *)
(***************************************************************************)
EXTENDS Integers

CONSTANTS
  Notes,
  Genuine,          \* the notifications some sensor may have signed
  Earliest, Latest  \* for each notification, its window

VARIABLES
  clock,
  status   \* of each notification

vars == << clock, status >>

Init ==
  /\ clock \in Nat
  /\ status = [n \in Notes |-> "new"]

Become(n, s) ==
  /\ status' = [status EXCEPT ![n] = s]
  /\ UNCHANGED clock

Admit(n) ==
  /\ status[n] = "new"
  /\ n \in Genuine
  /\ clock \in Earliest[n] .. Latest[n]
  /\ Become(n, "admitted")

Apply(n) == status[n] = "admitted" /\ Become(n, "applied")

GiveUp(n) == status[n] = "admitted" /\ Become(n, "lost")

TimePasses ==
  /\ clock' \in Nat /\ clock' > clock
  /\ UNCHANGED status

Next ==
  \/ \E n \in Notes : Admit(n) \/ Apply(n) \/ GiveUp(n)
  \/ TimePasses

Spec == Init /\ [][Next]_vars

(* What is admitted does not stay so for ever.                             *)
FairSpec == Spec /\ \A n \in Notes : WF_vars(Apply(n) \/ GiveUp(n))
=============================================================================
