---------------------------- MODULE ServiceProofs ----------------------------
(***************************************************************************)
(* Theorems about one process, for every limit of the stream and every     *)
(* bound of the handler: that no handler outlives its item, and what the   *)
(* stream does to the messages in it.                                      *)
(***************************************************************************)
EXTENDS Service, ReceiverProofs

Item == [ msg : Messages \cup {NoMessage}, arrived : Int ]

StreamOK ==
  /\ stream \in Seq(Item)
  /\ Len(stream) <= StreamLimit
  /\ arrived \in Int /\ since \in Int

IsMarker(j) == stream[j].msg = NoMessage

(* A marker is the last item, and there is none while the connection       *)
(* stands; before the client has connected, and while it reconnects, there *)
(* is no item, and before the subscription there is no message.            *)
LinkInv ==
  /\ phase \in {"down", "connecting", "pausing", "reconnecting", "retrying"} =>
       ~link /\ stream = << >>
  /\ phase = "subscribing" => ~subscribed /\ \A j \in DOMAIN stream : IsMarker(j)
  /\ \A j \in DOMAIN stream : IsMarker(j) => ~link /\ j = Len(stream)

QueueInv ==
  /\ TypeOK
  /\ StreamOK
  /\ phase \in Session!Phases
  /\ LinkInv
  /\ phase # "handling" => pc[Task] = "idle"

-----------------------------------------------------------------------------
(* What one item put into the stream, or taken out of it, does to it.      *)
LEMMA AppendItem ==
  ASSUME NEW s \in Seq(Item), NEW item \in Item
  PROVE  /\ Append(s, item) \in Seq(Item)
         /\ Len(s) \in Nat /\ Len(Append(s, item)) = Len(s) + 1
         /\ \A j \in DOMAIN Append(s, item) :
              \/ j \in DOMAIN s /\ Append(s, item)[j] = s[j]
              \/ j = Len(s) + 1 /\ Append(s, item)[j] = item
  OBVIOUS

LEMMA TailItems ==
  ASSUME NEW s \in Seq(Item), s # << >>
  PROVE  /\ Tail(s) \in Seq(Item)
         /\ 1 \in DOMAIN s /\ Head(s) = s[1] /\ s[1] \in Item
         /\ Len(s) \in Nat /\ Len(Tail(s)) = Len(s) - 1
         /\ \A j \in DOMAIN Tail(s) :
              j \in Nat /\ j + 1 \in DOMAIN s /\ Tail(s)[j] = s[j + 1]
  OBVIOUS

LEMMA Put ==
  ASSUME StreamOK, clock \in Int, NEW m \in Messages \cup {NoMessage}, PutItem(m)
  PROVE  /\ stream' \in Seq(Item)
         /\ Len(stream') <= StreamLimit
         /\ \A j \in DOMAIN stream' :
              \/ j \in DOMAIN stream /\ stream'[j] = stream[j]
              \/ /\ j = Len(stream') /\ j = Len(stream) + 1
                 /\ stream'[j] = [msg |-> m, arrived |-> clock]
<1>1. stream \in Seq(Item) /\ Len(stream) \in Nat /\ StreamLimit \in Nat
  BY ServiceAssumption DEF StreamOK
<1>2. CASE stream' = stream
  BY <1>2 DEF StreamOK
<1>3. CASE Len(stream) < StreamLimit
  <2>1. [msg |-> m, arrived |-> clock] \in Item
    BY DEF Item
  <2>2. stream' = Append(stream, [msg |-> m, arrived |-> clock])
    BY <1>3 DEF PutItem
  <2> QED
    BY <1>1, <1>3, <2>1, <2>2, AppendItem
<1> QED
  BY <1>2, <1>3 DEF PutItem

-----------------------------------------------------------------------------
(* The loop of main drives the handler as Receiver says.                   *)
LEMMA ServiceStep == QueueInv /\ [ServiceNext]_serviceVars => [Next]_vars
<1> SUFFICES ASSUME QueueInv, [ServiceNext]_serviceVars PROVE Next \/ UNCHANGED vars
  OBVIOUS
<1>1. CASE Take
  <2>1. stream # << >> /\ Head(stream) \in Item
    BY <1>1, TailItems DEF Take, QueueInv, StreamOK
  <2>2. CASE Receive(Task, Head(stream).msg) /\ Kind(Head(stream)) = "message"
    <3>1. Head(stream).msg \in Messages
      BY <2>1, <2>2 DEF Kind, Item
    <3> QED
      BY <2>2, <3>1, ServiceAssumption DEF Next
  <2> QED
    BY <1>1, <2>2 DEF Take
<1>2. CASE HandlerStep \/ Exit
  BY <1>2, ServiceAssumption DEF HandlerStep, Exit, Next
<1>3. CASE Outside
  BY <1>3 DEF Outside, Next
<1>4. CASE UNCHANGED vars
  BY <1>4
<1> QED
  BY <1>1, <1>2, <1>3, <1>4
     DEF ServiceNext, serviceVars, SessionStep, Deliver, LoseLink, Finish

(* What a step does to the connection and to the items, in the terms of    *)
(* MqttSession but of this stream.                                         *)
Links ==
  \/ /\ phase \in {"connecting", "reconnecting"} /\ phase' \in {"subscribing", "waiting"}
     /\ phase = "connecting" => phase' = "subscribing"
     /\ phase = "reconnecting" => phase' = "waiting"
     /\ link' /\ ~subscribed'
  \/ /\ phase = "subscribing" /\ phase' = "waiting" /\ link /\ UNCHANGED link
  \/ /\ phase \in {"down", "connecting", "pausing", "reconnecting", "retrying"}
     /\ phase' \in {"connecting", "pausing", "reconnecting", "retrying"}
     /\ UNCHANGED << link, subscribed >>

LEMMA SessionMoves ==
  ASSUME SessionStep
  PROVE  Links /\ UNCHANGED << stream, hand, vars >>
BY DEF SessionStep, Links, Session!Connect, Session!ConnectFails, Session!Subscribe,
   Session!Reconnect, Session!ReconnectFails, Session!Wake, Session!Start, Session!StartSession

LEMMA TakeMoves ==
  ASSUME StreamOK, Take
  PROVE  /\ phase = "waiting" /\ stream # << >> /\ stream' = Tail(stream)
         /\ UNCHANGED << link, subscribed >>
         /\ IF IsMarker(1)
              THEN phase' = "reconnecting" /\ UNCHANGED << hand, vars >>
              ELSE /\ phase' = "handling"
                   /\ arrived' = stream[1].arrived /\ since' = clock
                   /\ clock' = clock
<1>1. /\ phase = "waiting" /\ stream # << >> /\ stream' = Tail(stream)
      /\ Session!Take
  BY DEF Take
<1>2. 1 \in DOMAIN stream /\ Head(stream) = stream[1]
  BY <1>1, TailItems DEF StreamOK
<1>3. /\ UNCHANGED << link, subscribed >>
      /\ phase' = IF Kind(stream[1]) = "lost" THEN "reconnecting" ELSE "handling"
  <2>1. Head([j \in DOMAIN stream |-> Kind(stream[j])]) = Kind(stream[1])
    BY <1>2
  <2> QED
    BY <1>1, <2>1 DEF Session!Take
<1>4. Kind(stream[1]) = "lost" <=> IsMarker(1)
  BY DEF Kind, IsMarker
<1>5. CASE IsMarker(1)
  BY <1>1, <1>2, <1>3, <1>4, <1>5 DEF Take, Kind
<1>6. CASE ~IsMarker(1)
  <2>1. Kind(Head(stream)) = "message"
    BY <1>2, <1>6 DEF Kind, IsMarker
  <2>2. clock' = clock
    BY <2>1 DEF Take, Receive, vars
  <2> QED
    BY <1>1, <1>2, <1>3, <1>4, <1>6, <2>1, <2>2 DEF Take
<1> QED
  BY <1>5, <1>6

LEMMA QueueInvInit == ServiceInit => QueueInv
<1> SUFFICES ASSUME ServiceInit PROVE QueueInv
  OBVIOUS
<1>1. TypeOK /\ pc[Task] = "idle"
  BY InitTyped, ServiceAssumption DEF ServiceInit, Init
<1>2. stream = << >> /\ arrived = 0 /\ since = 0 /\ phase = "down" /\ ~link
  BY DEF ServiceInit, Session!Init
<1> QED
  BY <1>1, <1>2, ServiceAssumption DEF QueueInv, StreamOK, LinkInv, Session!Phases

LEMMA StreamStep == QueueInv /\ [ServiceNext]_serviceVars => StreamOK'
<1> SUFFICES ASSUME QueueInv, [ServiceNext]_serviceVars PROVE StreamOK'
  OBVIOUS
<1>1. StreamOK /\ clock \in Int
  BY DEF QueueInv, TypeOK
<1>2. ASSUME NEW m \in Messages \cup {NoMessage}, PutItem(m), UNCHANGED hand PROVE StreamOK'
  BY <1>1, <1>2, Put DEF StreamOK, hand
<1>3. CASE Take
  <2>1. stream' \in Seq(Item) /\ Len(stream') <= StreamLimit /\ stream[1] \in Item
    <3>1. stream \in Seq(Item) /\ stream # << >> /\ stream' = Tail(stream)
      BY <1>1, <1>3, TakeMoves DEF StreamOK
    <3>2. Len(stream) \in Nat /\ Len(stream') = Len(stream) - 1 /\ stream' \in Seq(Item)
      BY <3>1, TailItems
    <3> QED
      BY <1>1, <3>1, <3>2, TailItems, ServiceAssumption DEF StreamOK
  <2> QED
    BY <1>1, <1>3, <2>1, TakeMoves DEF StreamOK, Item, hand
<1>4. CASE UNCHANGED stream /\ (UNCHANGED hand \/ (arrived' = 0 /\ since' = 0))
  BY <1>1, <1>4 DEF StreamOK, hand
<1>5. CASE Exit
  BY <1>5, ServiceAssumption DEF Exit, StreamOK
<1> QED
  BY <1>2, <1>3, <1>4, <1>5
     DEF ServiceNext, serviceVars, SessionStep, Deliver, LoseLink, HandlerStep, Finish, Outside, hand,
         connection

LEMMA LinkStep == QueueInv /\ [ServiceNext]_serviceVars => LinkInv' /\ phase' \in Session!Phases
<1> SUFFICES ASSUME QueueInv, [ServiceNext]_serviceVars
             PROVE  LinkInv' /\ phase' \in Session!Phases
  OBVIOUS
<1>1. StreamOK /\ LinkInv /\ clock \in Int /\ phase \in Session!Phases
  BY DEF QueueInv, TypeOK
<1>2. CASE SessionStep
  <2>1. Links /\ stream' = stream
    BY <1>2, SessionMoves
  <2>2. phase' \in Session!Phases
    BY <2>1 DEF Links, Session!Phases
  <2> QED
    BY <1>1, <2>1, <2>2 DEF Links, LinkInv, IsMarker
<1>3. ASSUME NEW m \in Messages, Deliver(m) PROVE LinkInv'
  <2>1. link /\ subscribed /\ UNCHANGED << phase, link, subscribed >> /\ PutItem(m)
    BY <1>3 DEF Deliver, Session!Deliver
  <2>2. \A j \in DOMAIN stream' : ~IsMarker(j)'
    BY <1>1, <2>1, Put, ReceiverAssumption DEF LinkInv, IsMarker
  <2> QED
    BY <1>1, <2>1, <2>2 DEF LinkInv, IsMarker
<1>4. CASE LoseLink
  <2>1. link /\ ~link' /\ ~subscribed' /\ phase' = phase /\ PutItem(NoMessage)
    BY <1>4 DEF LoseLink, Session!LoseLink
  <2>2. /\ \A j \in DOMAIN stream : ~IsMarker(j)
        /\ phase \notin {"down", "connecting", "pausing", "reconnecting", "retrying"}
    BY <1>1, <2>1 DEF LinkInv
  <2>3. \A j \in DOMAIN stream' :
          \/ j \in DOMAIN stream /\ stream'[j] = stream[j]
          \/ j = Len(stream') /\ stream'[j].msg = NoMessage
    BY <1>1, <2>1, Put
  <2> QED
    BY <1>1, <2>1, <2>2, <2>3 DEF LinkInv, IsMarker
<1>5. CASE Take
  <2>1. /\ phase = "waiting" /\ UNCHANGED << link, subscribed >>
        /\ phase' = IF IsMarker(1) THEN "reconnecting" ELSE "handling"
    BY <1>1, <1>5, TakeMoves
  <2>2. /\ stream \in Seq(Item) /\ stream # << >> /\ stream' = Tail(stream)
        /\ 1 \in DOMAIN stream /\ Len(stream) \in Nat /\ Len(stream') = Len(stream) - 1
        /\ \A j \in DOMAIN stream' :
             j \in Nat /\ j + 1 \in DOMAIN stream /\ stream'[j] = stream[j + 1]
    BY <1>1, <1>5, TakeMoves, TailItems DEF StreamOK
  <2>3. \A j \in DOMAIN stream' : IsMarker(j)' => ~link /\ j = Len(stream')
    BY <1>1, <2>2 DEF LinkInv, IsMarker
  <2>4. IsMarker(1) => ~link /\ stream' = << >>
    <3> SUFFICES ASSUME IsMarker(1) PROVE ~link /\ stream' = << >>
      OBVIOUS
    <3>1. ~link /\ Len(stream) = 1
      BY <1>1, <2>2 DEF LinkInv
    <3>2. stream' \in Seq(Item) /\ Len(stream') = 0
      BY <2>2, <3>1, TailItems
    <3> QED
      BY <3>1, <3>2
  <2> QED
    BY <1>1, <2>1, <2>3, <2>4 DEF LinkInv, IsMarker, Session!Phases
<1>6. CASE Finish
  <2>1. phase = "handling" /\ phase' = "waiting" /\ UNCHANGED << link, subscribed, stream >>
    BY <1>6 DEF Finish, Session!Handle
  <2> QED
    BY <1>1, <2>1 DEF LinkInv, IsMarker, Session!Phases
<1>7. CASE Exit
  BY <1>7 DEF Exit, Session!Exit, LinkInv, Session!Phases
<1>8. CASE UNCHANGED << phase, link, subscribed, stream >>
  BY <1>1, <1>8 DEF LinkInv, IsMarker
<1>9. ASSUME NEW m \in Messages, Deliver(m) PROVE phase' \in Session!Phases
  BY <1>1, <1>9 DEF Deliver, Session!Deliver
<1>10. ASSUME LoseLink PROVE phase' \in Session!Phases
  BY <1>1, <1>10 DEF LoseLink, Session!LoseLink
<1> QED
  BY <1>1, <1>2, <1>3, <1>4, <1>5, <1>6, <1>7, <1>8, <1>9, <1>10
     DEF ServiceNext, serviceVars, connection, HandlerStep, Outside

LEMMA QueueInvStep == QueueInv /\ [ServiceNext]_serviceVars => QueueInv'
<1> SUFFICES ASSUME QueueInv, [ServiceNext]_serviceVars PROVE QueueInv'
  OBVIOUS
<1>1. TypeOK /\ TypeOK'
  BY ServiceStep, StepTyped DEF QueueInv
<1>2. StreamOK' /\ LinkInv' /\ phase' \in Session!Phases
  BY StreamStep, LinkStep
<1>3. ASSUME phase' # "handling" PROVE pc'[Task] = "idle"
  <2>1. CASE SessionStep
    BY <2>1, SessionMoves DEF QueueInv, Links, vars, task
  <2>2. CASE Take
    BY <1>3, <2>2, TakeMoves DEF QueueInv, vars, task
  <2>3. CASE Exit
    BY <1>1, <2>3, ServiceAssumption DEF Exit, Abort, Return, vars, task, TypeOK
  <2>4. CASE Finish
    BY <2>4 DEF Finish, vars, task
  <2>5. CASE UNCHANGED phase /\ UNCHANGED pc
    BY <1>3, <2>5 DEF QueueInv
  <2> QED
    BY <1>3, <2>1, <2>2, <2>3, <2>4, <2>5
       DEF ServiceNext, serviceVars, Deliver, LoseLink, Session!Deliver, Session!LoseLink,
           HandlerStep, Outside, connection, ChangeSensor, LateSet, Tick, vars, task
<1> QED
  BY <1>1, <1>2, <1>3 DEF QueueInv

LEMMA QueueInvariant == ServiceSpec => []QueueInv
  BY QueueInvInit, QueueInvStep, PTL DEF ServiceSpec

(* No handler is left behind when the process ends (main.rs:284) and none  *)
(* runs beside the next item (main.rs:250-260), for every receiver, stream *)
(* and message.                                                            *)
THEOREM HandlersEndInTime == ServiceSpec => []NoHandlerLeft
<1>1. QueueInv => NoHandlerLeft
  BY DEF QueueInv, NoHandlerLeft
<1> QED
  BY <1>1, QueueInvariant, PTL

(* No message waits for a reconnection (main.rs:361-364): the marker of a  *)
(* loss is the last item of the stream, and nothing comes in after it      *)
(* until the client is connected again.                                    *)
THEOREM LossComesLast == ServiceSpec => []NothingBehindLoss
<1>1. QueueInv => NothingBehindLoss
  BY DEF QueueInv, LinkInv, NothingBehindLoss
<1> QED
  BY <1>1, QueueInvariant, PTL

-----------------------------------------------------------------------------
(* How long a message waits.                                               *)

(* What n handlers in a row need at most.                                  *)
Needed(n) == n * MaxHandling

(* A message is taken before the messages behind it can have been handled  *)
(* in the time it has waited: each item in front of it costs at most one   *)
(* handler, and so does the one in hand when it arrived.                   *)
WaitInv ==
  /\ phase = "handling" =>
       /\ since <= clock /\ clock <= since + MaxHandling
       /\ arrived <= since /\ since <= arrived + Needed(StreamLimit)
  /\ \A j \in DOMAIN stream : ~IsMarker(j) =>
       /\ stream[j].arrived <= clock
       /\ phase = "waiting" => clock <= stream[j].arrived + Needed(StreamLimit - j + 1)
       /\ phase = "handling" => since <= stream[j].arrived + Needed(StreamLimit - j)

LEMMA NeededGrows ==
  /\ StreamLimit \in Nat \ {0} /\ MaxHandling \in Nat
  /\ \A n \in Nat : Needed(n) \in Nat /\ Needed(n + 1) = Needed(n) + MaxHandling
<1>1. StreamLimit \in Nat \ {0} /\ MaxHandling \in Nat
  BY ServiceAssumption
<1>2. ASSUME NEW n \in Nat PROVE n * MaxHandling \in Nat
  BY <1>1, <1>2
<1>3. ASSUME NEW n \in Nat PROVE (n + 1) * MaxHandling = n * MaxHandling + MaxHandling
  BY <1>1, <1>3
<1> QED
  BY <1>1, <1>2, <1>3 DEF Needed

(* The position of an item in a stream, and what it leaves.                *)
LEMMA Positions ==
  ASSUME NEW s \in Seq(Item), Len(s) <= StreamLimit, NEW j \in DOMAIN s
  PROVE  j \in 1 .. StreamLimit /\ StreamLimit - j \in Nat /\ s[j].arrived \in Int
<1>1. Len(s) \in Nat /\ j \in 1 .. Len(s) /\ s[j] \in Item
  OBVIOUS
<1>2. j \in 1 .. StreamLimit /\ StreamLimit - j \in Nat
  <2>1. StreamLimit \in Nat
    BY NeededGrows
  <2> QED
    BY <1>1, <2>1
<1> QED
  BY <1>1, <1>2 DEF Item

(* The steps that leave the items alone, but not time.                     *)
LEMMA TimeMoves ==
  ASSUME QueueInv, Outside
  PROVE  /\ UNCHANGED << phase, stream, hand >>
         /\ clock \in Nat /\ clock' \in Nat /\ clock <= clock'
         /\ \/ clock' = clock
            \/ /\ phase = "waiting" => stream = << >>
               /\ phase = "handling" => clock' <= since + MaxHandling
<1>1. UNCHANGED << phase, stream, hand >> /\ clock \in Nat
  BY DEF Outside, connection, QueueInv, TypeOK
<1>2. CASE Tick
  <2>1. clock' \in Nat /\ clock <= clock'
    BY <1>1, <1>2, ReceiverAssumption DEF Tick
  <2>2. \/ clock' = clock
        \/ /\ phase = "waiting" => stream = << >>
           /\ phase = "handling" => clock' <= since + MaxHandling
    BY DEF Outside, ChangeSensor, LateSet
  <2> QED
    BY <1>1, <2>1, <2>2, Zenon
<1>3. CASE clock' = clock
  BY <1>1, <1>3
<1> QED
  BY <1>2, <1>3 DEF Outside, ChangeSensor, LateSet

LEMMA WaitStep == QueueInv /\ WaitInv /\ [ServiceNext]_serviceVars => WaitInv'
<1> SUFFICES ASSUME QueueInv, WaitInv, [ServiceNext]_serviceVars PROVE WaitInv'
  OBVIOUS
<1>1. StreamOK /\ LinkInv /\ clock \in Nat /\ arrived \in Int /\ since \in Int
  BY DEF QueueInv, StreamOK, TypeOK
<1>2. CASE SessionStep
  <2>1. Links /\ UNCHANGED << stream, hand, clock >>
    BY <1>2, SessionMoves DEF vars
  <2>2. phase' # "handling" /\ \A j \in DOMAIN stream : phase' = "waiting" => IsMarker(j)
    BY <1>1, <2>1 DEF Links, LinkInv
  <2> QED
    BY <2>1, <2>2 DEF WaitInv, IsMarker
<1>3. ASSUME NEW m \in Messages \cup {NoMessage}, PutItem(m),
             UNCHANGED << phase, hand, clock >>,
             m # NoMessage => phase \in {"waiting", "handling"}
      PROVE  WaitInv'
  <2>1. \A j \in DOMAIN stream' :
          \/ j \in DOMAIN stream /\ stream'[j] = stream[j]
          \/ /\ j \in 1 .. StreamLimit /\ StreamLimit - j \in Nat
             /\ stream'[j] = [msg |-> m, arrived |-> clock]
    <3>1. stream' \in Seq(Item) /\ Len(stream') <= StreamLimit
      BY <1>1, <1>3, Put
    <3>2. \A j \in DOMAIN stream' : j \in 1 .. StreamLimit /\ StreamLimit - j \in Nat
      BY <3>1, Positions
    <3> QED
      BY <1>1, <1>3, <3>2, Put
  <2>2. ASSUME NEW j \in DOMAIN stream', stream'[j] = [msg |-> m, arrived |-> clock],
               StreamLimit - j \in Nat
        PROVE  /\ stream'[j].arrived <= clock'
               /\ clock' <= stream'[j].arrived + Needed(StreamLimit - j + 1)
               /\ phase = "handling" => since <= stream'[j].arrived + Needed(StreamLimit - j)
    <3>1. Needed(StreamLimit - j) \in Nat /\ Needed(StreamLimit - j + 1) \in Nat
      BY <2>2, NeededGrows
    <3>2. stream'[j].arrived = clock /\ clock' = clock
      BY <1>3, <2>2
    <3> QED
      BY <1>1, <3>1, <3>2 DEF WaitInv
  <2> QED
    BY <1>3, <2>1, <2>2 DEF WaitInv, IsMarker, hand
<1>4. CASE Take
  <2>1. /\ phase = "waiting"
        /\ IF IsMarker(1) THEN phase' = "reconnecting" /\ UNCHANGED << hand, clock >>
                          ELSE /\ phase' = "handling" /\ clock' = clock
                               /\ arrived' = stream[1].arrived /\ since' = clock
    BY <1>1, <1>4, TakeMoves DEF vars
  <2>2. /\ 1 \in DOMAIN stream
        /\ \A j \in DOMAIN stream' :
             j \in Nat /\ j + 1 \in DOMAIN stream /\ stream'[j] = stream[j + 1]
    BY <1>1, <1>4, TakeMoves, TailItems DEF StreamOK
  <2>3. ~IsMarker(1) => clock <= stream[1].arrived + Needed(StreamLimit)
    <3>1. StreamLimit - 1 + 1 = StreamLimit
      BY NeededGrows
    <3> QED
      BY <2>1, <2>2, <3>1 DEF WaitInv
  <2>4. ASSUME NEW j \in DOMAIN stream', ~IsMarker(j)'
        PROVE  /\ stream'[j].arrived <= clock
               /\ clock <= stream'[j].arrived + Needed(StreamLimit - j)
    <3>1. /\ stream'[j] = stream[j + 1] /\ ~IsMarker(j + 1) /\ j + 1 \in DOMAIN stream
          /\ StreamLimit - (j + 1) + 1 = StreamLimit - j
      BY <1>1, <2>2, <2>4, NeededGrows DEF IsMarker
    <3> QED
      BY <2>1, <3>1 DEF WaitInv
  <2>5. CASE IsMarker(1)
    BY <2>1, <2>4, <2>5 DEF WaitInv
  <2>6. CASE ~IsMarker(1)
    <3>1. stream[1].arrived <= clock /\ clock <= clock /\ clock <= clock + MaxHandling
      BY <1>1, <2>2, <2>6, NeededGrows DEF WaitInv
    <3> QED
      BY <2>1, <2>3, <2>4, <2>6, <3>1 DEF WaitInv
  <2> QED
    BY <2>5, <2>6
<1>5. CASE Finish
  <2>1. phase = "handling" /\ phase' = "waiting" /\ UNCHANGED << stream, clock >>
    BY <1>5 DEF Finish, Session!Handle, vars
  <2>2. ASSUME NEW j \in DOMAIN stream, ~IsMarker(j)
        PROVE  clock <= stream[j].arrived + Needed(StreamLimit - j + 1)
    <3>1. since <= stream[j].arrived + Needed(StreamLimit - j) /\ clock <= since + MaxHandling
      BY <2>1, <2>2 DEF WaitInv
    <3>2. /\ Needed(StreamLimit - j) \in Nat
          /\ Needed(StreamLimit - j + 1) = Needed(StreamLimit - j) + MaxHandling
          /\ stream[j].arrived \in Int
      BY <1>1, Positions, NeededGrows DEF StreamOK
    <3> QED
      BY <1>1, <3>1, <3>2, NeededGrows
  <2> QED
    BY <2>1, <2>2 DEF WaitInv, IsMarker
<1>6. CASE Exit
  BY <1>6 DEF Exit, Session!Exit, WaitInv
<1>7. CASE Outside
  <2>1. UNCHANGED << phase, stream, hand >> /\ clock <= clock' /\ clock' \in Nat
    BY <1>7, TimeMoves
  <2>2. ASSUME phase = "handling" PROVE since <= clock' /\ clock' <= since + MaxHandling
    BY <1>1, <1>7, <2>1, <2>2, TimeMoves DEF WaitInv
  <2>3. ASSUME NEW j \in DOMAIN stream, ~IsMarker(j)
        PROVE  /\ stream[j].arrived <= clock'
               /\ phase = "waiting" => clock' <= stream[j].arrived + Needed(StreamLimit - j + 1)
    <3>1. phase = "waiting" => clock' = clock
      BY <1>7, <2>3, TimeMoves
    <3>2. stream[j].arrived \in Int /\ stream[j].arrived <= clock
      BY <1>1, <2>3, Positions DEF WaitInv, StreamOK
    <3> QED
      BY <1>1, <2>1, <2>3, <3>1, <3>2 DEF WaitInv
  <2> QED
    BY <2>1, <2>2, <2>3 DEF WaitInv, IsMarker, hand
<1>8. CASE HandlerStep \/ UNCHANGED serviceVars
  <2>1. UNCHANGED << phase, stream, hand, clock >>
    BY <1>8 DEF HandlerStep, connection, serviceVars, vars, stores, Step, Lookup, Admit, Reject,
       Claim, Refuse, ClaimFails, BeginAlarm, BeginOnline, InvalidUuid, AnswerLost, StoreAlarm,
       AlarmFails, ReadOnline, StoreOnline, OnlineFails, Online!Begin, Online!Exists,
       Online!HgetCreatedAt, Online!HgetCreatedAtFails, Online!HgetFcmToken,
       Online!HgetFcmTokenFails, Online!HsetMultiple, Online!CallFails
  <2> QED
    BY <2>1 DEF WaitInv, IsMarker, hand
<1>9. ASSUME NEW m \in Messages, Deliver(m) PROVE WaitInv'
  <2>1. /\ link /\ subscribed /\ PutItem(m) /\ UNCHANGED << phase, hand, clock >>
    BY <1>9 DEF Deliver, Session!Deliver, vars
  <2>2. phase \in {"waiting", "handling"}
    BY <1>1, <2>1 DEF QueueInv, LinkInv, Session!Phases
  <2> QED
    BY <1>3, <2>1, <2>2
<1>10. ASSUME LoseLink PROVE WaitInv'
  BY <1>3, <1>10 DEF LoseLink, Session!LoseLink, vars
<1> QED
  BY <1>2, <1>4, <1>5, <1>6, <1>7, <1>8, <1>9, <1>10 DEF ServiceNext

(* What the invariant says of the message in hand.                         *)
LEMMA HandBounded == QueueInv /\ WaitInv => WaitBounded
<1> SUFFICES ASSUME QueueInv, WaitInv, phase = "handling"
             PROVE  clock - arrived <= Needed(StreamLimit + 1)
  BY DEF WaitBounded, Needed
<1>1. arrived \in Int /\ since \in Int /\ clock \in Nat
  BY DEF QueueInv, StreamOK, TypeOK
<1>2. clock <= since + MaxHandling /\ since <= arrived + Needed(StreamLimit)
  BY DEF WaitInv
<1>3. /\ Needed(StreamLimit) \in Nat /\ MaxHandling \in Nat
      /\ Needed(StreamLimit + 1) = Needed(StreamLimit) + MaxHandling
  BY NeededGrows
<1> QED
  BY <1>1, <1>2, <1>3

(* A message is done with in the time of a full stream (mqtt_client.rs:20) *)
(* and one more handler, for every limit of the stream, whatever else the  *)
(* process does in between (main.rs:248-266).                              *)
THEOREM WaitsAreBounded == ServiceSpec => []WaitBounded
<1>1. ServiceInit => WaitInv
  BY DEF ServiceInit, Session!Init, WaitInv
<1> QED
  BY <1>1, QueueInvariant, WaitStep, HandBounded, PTL DEF ServiceSpec
=============================================================================
