------------------------- MODULE MqttSessionProofs -------------------------
(***************************************************************************)
(* Theorems about MqttSession, for every limit of the stream.              *)
(***************************************************************************)
EXTENDS MqttSession, TLAPS

(* The markers in a stream.                                                *)
Marks(s) == { j \in DOMAIN s : s[j] = "lost" }

Items == {"message", "lost"}

(* Before the client has connected there is nothing in its stream.         *)
NothingBeforeConnect ==
  phase \in {"down", "connecting", "pausing"} => ~link /\ stream = << >>

SessionInv == TypeOK /\ MarkersTrue /\ NothingBeforeConnect

-----------------------------------------------------------------------------
(* What one item put into a stream, or taken out of it, does to the marks. *)
LEMMA AppendMarks ==
  ASSUME NEW s \in Seq(Items), NEW item \in Items
  PROVE  /\ Append(s, item) \in Seq(Items)
         /\ Len(Append(s, item)) = Len(s) + 1
         /\ Marks(Append(s, item)) = Marks(s) \cup (IF item = "lost" THEN {Len(s) + 1} ELSE {})
  BY DEF Marks, Items

LEMMA TailMarks ==
  ASSUME NEW s \in Seq(Items), s # << >>
  PROVE  /\ Tail(s) \in Seq(Items)
         /\ Len(Tail(s)) = Len(s) - 1
         /\ Head(s) \in Items
         /\ Head(s) = "lost" <=> 1 \in Marks(s)
         /\ \A j \in Nat \ {0} : j \in Marks(Tail(s)) <=> j + 1 \in Marks(s)
         /\ Marks(s) \subseteq Nat \ {0} /\ Marks(Tail(s)) \subseteq Nat \ {0}
  BY DEF Marks, Items

LEMMA NoMarks == << >> \in Seq(Items) /\ Len(<< >>) = 0 /\ Marks(<< >>) = {}
  BY DEF Marks

-----------------------------------------------------------------------------
LEMMA SessionInvInit == Init => SessionInv
<1> SUFFICES ASSUME Init PROVE SessionInv
  OBVIOUS
<1>1. stream \in Seq(Items) /\ Len(stream) = 0 /\ Marks(stream) = {}
  BY NoMarks DEF Init
<1>2. TypeOK
  <2>1. phase \in Phases /\ link \in BOOLEAN /\ subscribed \in BOOLEAN /\ unnoticed \in BOOLEAN
    BY DEF Init, Phases
  <2> QED
    BY <1>1, <2>1, SessionAssumption DEF TypeOK, Items
<1>3. MarkersTrue /\ NothingBeforeConnect
  BY <1>1 DEF Init, MarkersTrue, NothingBeforeConnect, Marks
<1> QED
  BY <1>2, <1>3 DEF SessionInv

(* The steps that leave the stream alone.                                  *)
LEMMA QuietStep ==
  ASSUME SessionInv, UNCHANGED stream,
         \/ Connect \/ ConnectFails \/ Subscribe \/ Handle
         \/ Reconnect \/ ReconnectFails \/ Wake \/ Start
  PROVE  SessionInv'
<1>1. TypeOK'
  BY SessionAssumption DEF SessionInv, TypeOK, Phases, Connect, ConnectFails, Subscribe, Handle,
     Reconnect, ReconnectFails, Wake, Start, StartSession
<1>2. CASE Connect
  BY <1>1, <1>2, NoMarks DEF SessionInv, MarkersTrue, NothingBeforeConnect, Connect, StartSession, Marks
<1>3. CASE Reconnect
  BY <1>1, <1>3 DEF SessionInv, MarkersTrue, NothingBeforeConnect, Reconnect, StartSession
<1>4. CASE ConnectFails \/ Start \/ Wake
  BY <1>1, <1>4 DEF SessionInv, MarkersTrue, NothingBeforeConnect, ConnectFails, Start, Wake
<1>5. CASE Subscribe \/ Handle
  BY <1>1, <1>5 DEF SessionInv, MarkersTrue, NothingBeforeConnect, Subscribe, Handle
<1>6. CASE ReconnectFails
  BY <1>1, <1>6 DEF SessionInv, MarkersTrue, NothingBeforeConnect, ReconnectFails
<1> QED
  BY <1>2, <1>3, <1>4, <1>5, <1>6

(* The task takes the one marker, if there is one, before it reconnects.   *)
LEMMA TakeStep ==
  ASSUME SessionInv, Take
  PROVE  SessionInv'
<1>1. stream \in Seq(Items) /\ stream # << >>
  BY DEF SessionInv, TypeOK, Take, Items
<1>2. /\ stream' = Tail(stream)
      /\ phase = "waiting" /\ phase' \in {"reconnecting", "handling"}
      /\ UNCHANGED << link, subscribed, unnoticed >>
      /\ phase' = "reconnecting" => Head(stream) = "lost"
  BY DEF Take
<1>3. TypeOK'
  <2>1. stream' \in Seq(Items) /\ Len(stream') = Len(stream) - 1
    BY <1>1, <1>2, TailMarks
  <2> QED
    BY <1>1, <1>2, <2>1, SessionAssumption DEF SessionInv, TypeOK, Phases, Items
<1>4. /\ link => Marks(stream) = {}
      /\ \A j, k \in Marks(stream) : j = k
  BY DEF SessionInv, MarkersTrue, Marks
<1>5. \A j \in Marks(stream') : j \in Nat \ {0} /\ j + 1 \in Marks(stream)
  BY <1>1, <1>2, TailMarks
<1>6. phase' = "reconnecting" => 1 \in Marks(stream)
  BY <1>1, <1>2, TailMarks
<1>7. /\ link => Marks(stream') = {}
      /\ \A j, k \in Marks(stream') : j = k
      /\ phase' = "reconnecting" => ~link /\ Marks(stream') = {}
  BY <1>4, <1>5, <1>6
<1> QED
  BY <1>2, <1>3, <1>7 DEF SessionInv, MarkersTrue, NothingBeforeConnect, Marks

(* A marker is put in when a connection that stands is lost, and nothing   *)
(* but messages while it stands.                                           *)
LEMMA PushStep ==
  ASSUME SessionInv, Deliver \/ LoseLink
  PROVE  SessionInv'
<1>1. stream \in Seq(Items) /\ Len(stream) <= StreamLimit
  BY DEF SessionInv, TypeOK, Items
<1>2. link /\ Marks(stream) = {} /\ phase' = phase
  BY DEF Deliver, LoseLink, SessionInv, MarkersTrue, Marks
<1>3. /\ phase \in Phases \ {"down", "connecting", "pausing", "reconnecting", "retrying"}
  BY <1>2 DEF SessionInv, TypeOK, MarkersTrue, NothingBeforeConnect
<1>4. PICK item \in Items : Push(item) /\ (item = "lost" => ~link')
  BY DEF Deliver, LoseLink, Items, SessionInv, TypeOK
<1>5. /\ stream' \in Seq(Items)
      /\ Len(stream') <= StreamLimit
      /\ \A j \in Marks(stream') : item = "lost" /\ j = Len(stream) + 1
  BY <1>1, <1>2, <1>4, AppendMarks, SessionAssumption DEF Push
<1>6. TypeOK'
  BY <1>2, <1>3, <1>5 DEF TypeOK, Items, Deliver, LoseLink, SessionInv
<1>7. /\ link' => Marks(stream') = {}
      /\ \A j, k \in Marks(stream') : j = k
  BY <1>4, <1>5
<1> QED
  BY <1>2, <1>3, <1>6, <1>7 DEF SessionInv, MarkersTrue, NothingBeforeConnect, Marks

LEMMA SessionInvStep == SessionInv /\ [Next]_vars => SessionInv'
<1> SUFFICES ASSUME SessionInv, [Next]_vars PROVE SessionInv'
  OBVIOUS
<1>1. CASE Connect \/ ConnectFails \/ Subscribe \/ Handle \/ Reconnect \/ ReconnectFails
           \/ Wake \/ Start
  <2>1. UNCHANGED stream
    BY <1>1 DEF Connect, ConnectFails, Subscribe, Handle, Reconnect, ReconnectFails, Wake, Start
  <2> QED
    BY <1>1, <2>1, QuietStep
<1>2. CASE Take
  BY <1>2, TakeStep
<1>3. CASE Deliver \/ LoseLink
  BY <1>3, PushStep
<1>4. CASE Exit
  <2>1. stream' \in Seq(Items) /\ Len(stream') = 0 /\ Marks(stream') = {}
    BY <1>4, NoMarks DEF Exit
  <2>2. TypeOK'
    <3>1. /\ phase' \in Phases /\ link' \in BOOLEAN /\ subscribed' \in BOOLEAN
          /\ unnoticed' \in BOOLEAN
      BY <1>4 DEF Exit, Phases
    <3> QED
      BY <2>1, <3>1, SessionAssumption DEF TypeOK, Items
  <2>3. MarkersTrue' /\ NothingBeforeConnect'
    BY <1>4, <2>1 DEF Exit, MarkersTrue, NothingBeforeConnect, Marks
  <2> QED
    BY <2>2, <2>3 DEF SessionInv
<1>5. CASE UNCHANGED vars
  BY <1>5 DEF vars, SessionInv, TypeOK, MarkersTrue, NothingBeforeConnect
<1> QED
  BY <1>1, <1>2, <1>3, <1>4, <1>5 DEF Next

(* The variables of MqttSession keep their shape, and the stream of the    *)
(* client (mqtt_client.rs:20) its limit.                                   *)
THEOREM SessionTypeCorrect == Spec => []TypeOK
<1>1. SessionInv => TypeOK
  BY DEF SessionInv
<1> QED
  BY <1>1, SessionInvInit, SessionInvStep, PTL DEF Spec

(* The task reconnects (main.rs:358-366) only a connection that is lost,   *)
(* and once for each loss.                                                 *)
THEOREM MarkersAreTrue == Spec => []MarkersTrue
<1>1. SessionInv => MarkersTrue
  BY DEF SessionInv
<1> QED
  BY <1>1, SessionInvInit, SessionInvStep, PTL DEF Spec

-----------------------------------------------------------------------------
(* No loss is forgotten while main is still subscribing.                   *)
NoticedInv ==
  SessionInv
    /\ (phase \in {"subscribing", "waiting", "handling"} /\ ~link =>
          unnoticed \/ Marks(stream) # {})

LEMMA NoticedStep ==
  ASSUME NoticedInv, [Next]_vars
  PROVE  NoticedInv'
<1>1. SessionInv /\ SessionInv'
  BY SessionInvStep DEF NoticedInv
<1>2. stream \in Seq(Items)
  BY <1>1 DEF SessionInv, TypeOK, Items
<1>3. CASE Connect \/ Reconnect
  BY <1>1, <1>3 DEF NoticedInv, Connect, Reconnect, StartSession
<1>4. CASE ConnectFails \/ ReconnectFails \/ Wake \/ Start \/ Exit
  BY <1>1, <1>4 DEF NoticedInv, ConnectFails, ReconnectFails, Wake, Start, Exit
<1>5. CASE Subscribe \/ Handle \/ UNCHANGED vars
  BY <1>1, <1>5 DEF NoticedInv, Subscribe, Handle, vars
<1>6. CASE Take
  <2> SUFFICES ASSUME phase' = "handling", ~link, ~unnoticed PROVE Marks(stream') # {}
    BY <1>1, <1>6 DEF NoticedInv, Take
  <2>1. stream # << >> /\ stream' = Tail(stream) /\ phase = "waiting" /\ Head(stream) # "lost"
    BY <1>6 DEF Take
  <2>2. PICK k \in Marks(stream) : k # 1 /\ k \in Nat \ {0}
    BY <1>2, <2>1, TailMarks DEF NoticedInv
  <2>3. k - 1 \in Nat \ {0} /\ (k - 1) + 1 \in Marks(stream)
    BY <2>2
  <2> QED
    BY <1>2, <2>1, <2>3, TailMarks
<1>7. CASE Deliver
  BY <1>1, <1>7 DEF NoticedInv, Deliver
<1>8. CASE LoseLink
  <2>1. CASE Len(stream) = StreamLimit
    BY <1>1, <1>8, <2>1 DEF NoticedInv, LoseLink
  <2>2. CASE Len(stream) # StreamLimit
    <3>1. Len(stream) < StreamLimit
      BY <1>1, <1>2, <2>2, SessionAssumption DEF SessionInv, TypeOK
    <3>2. stream' = Append(stream, "lost")
      BY <1>8, <3>1 DEF LoseLink, Push
    <3> QED
      BY <1>1, <1>2, <3>2, AppendMarks DEF NoticedInv, Items
  <2> QED
    BY <2>1, <2>2
<1> QED
  BY <1>3, <1>4, <1>5, <1>6, <1>7, <1>8 DEF Next

(* A lost connection is known to the task, or about to be, whatever the    *)
(* limit of the stream, unless its marker found the stream full: in no     *)
(* other way does the loop of main.rs:250 come to wait for ever on a       *)
(* connection that is gone.                                                *)
THEOREM EveryLossNoticed == Spec => []LossNoticed
<1>1. Init => NoticedInv
  BY SessionInvInit DEF NoticedInv, Init
<1>2. NoticedInv /\ [Next]_vars => NoticedInv'
  BY NoticedStep
<1>3. NoticedInv => LossNoticed
  BY DEF NoticedInv, LossNoticed, Marks
<1> QED
  BY <1>1, <1>2, <1>3, PTL DEF Spec
=============================================================================
