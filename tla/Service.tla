------------------------------ MODULE Service ------------------------------
(***************************************************************************)
(* One alarm-receiver process: the loop of main (main.rs:248-266) takes    *)
(* items out of the stream of the MQTT client (MqttSession) and awaits     *)
(* process_mqtt_message (Receiver) for each, so that messages wait behind  *)
(* the one in hand, behind each other, and behind a reconnection.          *)
(*                                                                         *)
(* Time is urgent where the code is: the task takes the next item as soon  *)
(* as it can, and a handler is done within MaxHandling, because the query  *)
(* has its max_time (sensor.rs:42) and Redis its timeouts.                 *)
(***************************************************************************)
EXTENDS Receiver

CONSTANTS
  Task,           \* the receiver whose process this is
  StreamLimit,    \* 25 in mqtt_client.rs
  MaxHandling     \* milliseconds

ASSUME ServiceAssumption ==
  /\ Task \in Instances
  /\ StreamLimit \in Nat \ {0}
  /\ MaxHandling \in Nat \ {0}

VARIABLES
  phase, link, subscribed, unnoticed,  \* of MqttSession
  stream,   \* items [msg, arrived], with NoMessage for the marker of a loss
  arrived,  \* when the message in hand arrived, 0 if there is none
  since     \* ... and when the task took it

Kind(item) == IF item.msg = NoMessage THEN "lost" ELSE "message"

Session == INSTANCE MqttSession WITH stream <- [j \in DOMAIN stream |-> Kind(stream[j])]

connection == << phase, link, subscribed, unnoticed >>
hand == << arrived, since >>
serviceVars == << vars, connection, stream, hand >>

ServiceInit ==
  /\ Init
  /\ stream = << >>
  /\ Session!Init
  /\ arrived = 0
  /\ since = 0

-----------------------------------------------------------------------------
(* What concerns the connection alone.                                     *)
SessionStep ==
  /\ UNCHANGED << stream, hand, vars >>
  /\ \/ Session!Connect \/ Session!ConnectFails \/ Session!Subscribe
     \/ Session!Reconnect \/ Session!ReconnectFails
     \/ Session!Wake \/ Session!Start

(* External: the client puts an item into its stream, if there is room.    *)
PutItem(m) ==
  stream' = IF Len(stream) < StreamLimit THEN Append(stream, [msg |-> m, arrived |-> clock])
                                         ELSE stream

Deliver(m) ==
  /\ PutItem(m)
  /\ Session!Deliver
  /\ UNCHANGED << hand, vars >>

LoseLink ==
  /\ PutItem(NoMessage)
  /\ Session!LoseLink
  /\ UNCHANGED << hand, vars >>

(* Mutant: the newest item is taken first.                                 *)
TakeNewest ==
  /\ phase = "waiting" /\ stream # << >>
  /\ LET item == stream[Len(stream)]
     IN  /\ stream' = SubSeq(stream, 1, Len(stream) - 1)
         /\ phase' = IF Kind(item) = "lost" THEN "reconnecting" ELSE "handling"
         /\ IF Kind(item) = "message"
              THEN arrived' = item.arrived /\ since' = clock
              ELSE UNCHANGED hand
         /\ IF Kind(item) = "message" /\ WellFormed(item.msg)
              THEN Receive(Task, item.msg)
              ELSE UNCHANGED vars
  /\ UNCHANGED << link, subscribed, unnoticed >>

(* The task takes an item and runs up to its first await: the lookup of a  *)
(* message that passes the first checks, the end of any other, or the      *)
(* reconnection.                                                           *)
Take ==
  /\ phase = "waiting" /\ stream # << >>
  /\ LET item == Head(stream)
     IN  /\ stream' = Tail(stream)
         /\ IF Kind(item) = "message"
              THEN arrived' = item.arrived /\ since' = clock
              ELSE UNCHANGED hand
         /\ IF Kind(item) = "message" /\ WellFormed(item.msg)
              THEN Receive(Task, item.msg)
              ELSE UNCHANGED vars
  /\ Session!Take

HandlerStep ==
  /\ phase = "handling"
  /\ Step(Task)
  /\ UNCHANGED << connection, stream, hand >>

(* process_mqtt_message has returned, with or without an error.            *)
Finish ==
  /\ pc[Task] = "idle"
  /\ UNCHANGED << stream, vars >>
  /\ Session!Handle
  /\ arrived' = 0
  /\ since' = 0

(* Mutant: the task is not aborted when Rocket shuts down.                 *)
ExitLeavingHandler ==
  /\ stream' = << >>
  /\ Session!Exit
  /\ UNCHANGED vars
  /\ arrived' = 0
  /\ since' = 0

(* A crash, or Rocket's shutdown and the abort of the task.                *)
Exit ==
  /\ stream' = << >>
  /\ Session!Exit
  /\ IF pc[Task] = "idle" THEN UNCHANGED vars ELSE Abort(Task)
  /\ arrived' = 0
  /\ since' = 0

(* External: the registry changes, Redis applies an abandoned SET, time    *)
(* passes, though not while the task has an item to take, nor beyond what  *)
(* a handler may need.                                                     *)
Outside ==
  /\ \/ \E s \in Sensors : \E d \in Registrations[s] : ChangeSensor(s, d)
     \/ \E k \in ReplayKeys : LateSet(k)
     \/ /\ phase = "waiting" => stream = << >>
        /\ Tick
        /\ phase = "handling" => clock' <= since + MaxHandling
  /\ UNCHANGED << connection, stream, hand >>

ServiceNext ==
  \/ SessionStep
  \/ \E m \in Messages : Deliver(m)
  \/ LoseLink
  \/ Take \/ HandlerStep \/ Finish
  \/ Exit
  \/ Outside

ServiceSpec == ServiceInit /\ [][ServiceNext]_serviceVars

(* The awaits of the handler end; of the session, what MqttSession assumes *)
(* of the broker, the sleeps and the supervisor, but nothing of handling.  *)
FairServiceSpec ==
  /\ ServiceSpec
  /\ WF_serviceVars(Take) /\ WF_serviceVars(HandlerStep) /\ WF_serviceVars(Finish)
  /\ SF_serviceVars(SessionStep /\ Session!Connect)
  /\ SF_serviceVars(SessionStep /\ Session!Reconnect)
  /\ WF_serviceVars(phase = "subscribing" /\ (SessionStep \/ Exit))
  /\ WF_serviceVars(SessionStep /\ (Session!Wake \/ Session!Start))

-----------------------------------------------------------------------------
(* Properties.                                                             *)

(* A handler belongs to a loop that waits for it (main.rs:250-260): none   *)
(* is left behind by a crash or a shutdown (main.rs:284), to be answered   *)
(* while the next process connects, and none runs beside a reconnection or *)
(* beside the next item.                                                   *)
NoHandlerLeft == pc[Task] # "idle" => phase = "handling"

(* The connection behaves as MqttSession says, and what MqttSession takes  *)
(* for granted of handling holds: the loop of main.rs:250 gets back to its *)
(* stream after every message, whatever process_mqtt_message does.         *)
RunsAsSession == Session!FairSpec

(* No message waits for a reconnection, which may take for ever            *)
(* (main.rs:361-364): everything that arrived before the loss has been     *)
(* handled, and nothing arrives after it.                                  *)
NothingBehindLoss == phase \in {"reconnecting", "retrying"} => stream = << >>

(* A message is done with within the time of a full stream of handlers, of *)
(* the one in front of it and its own (mqtt_client.rs:20, main.rs:250-260) *)
(* after its arrival: it waits for nothing else, not for a message behind  *)
(* it and not for a reconnection.                                          *)
WaitBounded == phase = "handling" => clock - arrived <= (StreamLimit + 1) * MaxHandling

(* A message that is in the stream is handled, however many come after it, *)
(* unless the process ends first.                                          *)
Waits(m) == \E j \in DOMAIN stream : stream[j].msg = m

NoneStarves ==
  \A m \in { o \in Messages : WellFormed(o) } :
    Waits(m) ~> (phase = "down" \/ (phase = "handling" /\ msg[Task] = m))
=============================================================================
