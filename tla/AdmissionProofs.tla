--------------------------- MODULE AdmissionProofs ---------------------------
(***************************************************************************)
(* Receiver implements the safety part of Admission, step by step, for     *)
(* every set of receivers, messages and registrations.  That its progress  *)
(* is implemented too is checked by TLC (ImplementsAdmission).             *)
(***************************************************************************)
EXTENDS ReceiverProofs

AdmissionInv == EffectInv /\ HandsInv

Lost == failed \cup aborted

(* What the histories say of a notification.                               *)
LEMMA Statuses ==
  ASSUME NEW n
  PROVE  /\ claimed[n] = 0 /\ stored[n] = 0 /\ n \notin Lost => StatusOf(n) = "new"
         /\ claimed[n] = 1 /\ stored[n] = 0 /\ n \notin Lost => StatusOf(n) = "admitted"
BY DEF StatusOf, Lost

LEMMA NextStatuses ==
  ASSUME NEW n, claimed'[n] = 1
  PROVE  /\ stored'[n] = 0 /\ n \notin Lost' => StatusOf(n)' = "admitted"
         /\ stored'[n] = 1 /\ n \notin Lost' => StatusOf(n)' = "applied"
         /\ stored'[n] = 0 /\ n \in Lost' => StatusOf(n)' = "lost"
BY DEF StatusOf, Lost

(* A status depends on the histories of its own notification only.         *)
LEMMA StatusSame ==
  ASSUME NEW n, claimed'[n] = claimed[n], stored'[n] = stored[n],
         n \in Lost' <=> n \in Lost
  PROVE  StatusOf(n)' = StatusOf(n)
BY DEF StatusOf, Lost

(* A step that changes the history of one notification.                    *)
LEMMA OneStatusChanges ==
  ASSUME NEW n \in Notes, NEW s, StatusOf(n)' = s, clock' = clock,
         \A o \in Notes \ {n} : /\ claimed'[o] = claimed[o] /\ stored'[o] = stored[o]
                                /\ o \in Lost' <=> o \in Lost
  PROVE  Promise!Become(n, s)
<1>1. \A o \in Notes \ {n} : StatusOf(o)' = StatusOf(o)
  BY StatusSame
<1> QED
  BY <1>1 DEF Promise!Become

(* Whoever wins a nonce does so while the notification's window is open.   *)
LEMMA WonInWindow ==
  ASSUME EffectInv, NEW i \in Instances, Claim(i)
  PROVE  clock \in Opens(msg[i].note) .. (Closes(msg[i].note) + MaxClaimDelay)
<1>1. msg[i].note \in Notes /\ clock \in Int /\ at[i] \in Int
  BY HeldNotes DEF EffectInv, ClaimInv, TypeOK, Claim
<1>2. /\ at[i] <= clock /\ clock <= at[i] + MaxClaimDelay
      /\ Opens(msg[i].note) <= at[i] /\ at[i] <= Closes(msg[i].note)
  BY DEF EffectInv, ClaimInv, Timing, Claim, AnswersInTime
<1> QED
  BY <1>1, <1>2, WindowTypes

LEMMA StepPromised == AdmissionInv /\ [Next]_vars => [Promise!Next]_(Promise!vars)
<1> SUFFICES ASSUME AdmissionInv, [Next]_vars PROVE [Promise!Next]_(Promise!vars)
  OBVIOUS
<1>1. /\ EffectInv /\ HandsInv /\ TypeOK
      /\ claimed \in [Notes -> Nat] /\ stored \in [Notes -> Nat] /\ Lost \subseteq Notes
  BY DEF AdmissionInv, EffectInv, ClaimInv, TypeOK, Lost
<1>2. CASE Idles
  <2>1. \A n \in Notes : StatusOf(n)' = StatusOf(n)
    BY <1>2, StatusSame DEF Idles, history, Lost
  <2>2. clock' = clock \/ Promise!TimePasses
    <3>1. CASE Tick
      <4>1. clock' \in Nat /\ clock' > clock
        BY <3>1, ReceiverAssumption DEF Tick
      <4> QED
        BY <2>1, <4>1 DEF Promise!TimePasses
    <3> QED
      BY <1>1, <3>1, ClockMoves
  <2> QED
    BY <2>1, <2>2 DEF Promise!Next, Promise!vars
<1>3. ASSUME NEW i \in Instances, Gains(i) PROVE Promise!Next
  <2>1. PICK n \in Notes : n = msg[i].note
    BY <1>1, <1>3, ClaimantIsGenuine DEF Gains, Wins, Claim
  <2>2. n \in Genuine /\ claimed[n] = 0 /\ stored[n] = 0 /\ n \notin Lost
    BY <1>1, <1>3, <2>1, WinnerIsFirst, ClaimantIsGenuine DEF Gains, Wins, Claim, Lost
  <2>3. /\ claimed'[n] = 1 /\ stored'[n] = 0 /\ n \notin Lost' /\ clock' = clock
        /\ \A o \in Notes \ {n} : /\ claimed'[o] = claimed[o] /\ stored'[o] = stored[o]
                                  /\ o \in Lost' <=> o \in Lost
    BY <1>1, <1>3, <2>1, <2>2 DEF Gains, Lost
  <2>4. StatusOf(n) = "new" /\ StatusOf(n)' = "admitted"
    BY <2>2, <2>3, Statuses, NextStatuses
  <2>5. Promise!Become(n, "admitted")
    BY <2>3, <2>4, OneStatusChanges
  <2>6. clock \in Opens(n) .. (Closes(n) + MaxClaimDelay)
    BY <1>1, <1>3, <2>1, WonInWindow DEF Gains, Wins
  <2> QED
    BY <2>2, <2>4, <2>5, <2>6 DEF Promise!Next, Promise!Admit
<1>4. ASSUME NEW i \in Instances, Ends(i) PROVE Promise!Next
  <2>1. PICK n \in Notes : n = msg[i].note
    BY <1>1, <1>4, HeldNotes DEF Ends, Held
  <2>2. claimed[n] = 1 /\ stored[n] = 0 /\ n \notin Lost
    BY <1>1, <1>4, <2>1 DEF Ends, EffectInv, SolelyHeld, Lost
  <2>3. StatusOf(n) = "admitted"
    BY <2>2, Statuses
  <2>4. /\ claimed' = claimed /\ clock' = clock
        /\ \A o \in Notes \ {n} : /\ claimed'[o] = claimed[o] /\ stored'[o] = stored[o]
                                  /\ o \in Lost' <=> o \in Lost
    BY <1>1, <1>4, <2>1 DEF Ends, Store, Lose, Lost
  <2>5. CASE Store(n) /\ Lost' = Lost
    <3>1. stored'[n] = 1 /\ n \notin Lost'
      BY <1>1, <2>2, <2>5 DEF Store
    <3>2. StatusOf(n)' = "applied"
      BY <2>2, <2>4, <3>1, NextStatuses
    <3>3. Promise!Become(n, "applied")
      BY <2>4, <3>2, OneStatusChanges
    <3> QED
      BY <2>3, <3>3 DEF Promise!Next, Promise!Apply
  <2>6. CASE n \in Lost' /\ stored' = stored
    <3>1. stored'[n] = 0 /\ n \in Lost'
      BY <2>2, <2>6
    <3>2. StatusOf(n)' = "lost"
      BY <2>2, <2>4, <3>1, NextStatuses
    <3>3. Promise!Become(n, "lost")
      BY <2>4, <3>2, OneStatusChanges
    <3> QED
      BY <2>3, <3>3 DEF Promise!Next, Promise!GiveUp
  <2> QED
    BY <1>4, <2>1, <2>5, <2>6 DEF Ends, Lose, Lost
<1> QED
  BY <1>1, <1>2, <1>3, <1>4, Ledger

(* Whatever the network delivers and wherever the receivers crash, the     *)
(* handler of main.rs:305-349 does to a notification only what Admission   *)
(* allows: it admits a genuine one, once, in its window, and then applies  *)
(* it or gives it up, once.                                                *)
THEOREM KeepsPromise == Spec => Promise!Spec
<1>1. Init => Promise!Init
  <2> SUFFICES ASSUME Init PROVE Promise!Init
    OBVIOUS
  <2>1. clock \in Nat
    BY InitTyped, Zenon DEF TypeOK
  <2>2. \A n \in Notes : claimed[n] = 0 /\ stored[n] = 0 /\ n \notin Lost
    BY DEF Init, Lost
  <2>3. \A n \in Notes : StatusOf(n) = "new"
    BY <2>2, Statuses
  <2> QED
    BY <2>1, <2>3 DEF Promise!Init
<1>2. Spec => []AdmissionInv
  BY EffectInvariant, HandsInvariant, PTL DEF AdmissionInv
<1> QED
  BY <1>1, <1>2, StepPromised, PTL DEF Spec, Promise!Spec
=============================================================================
