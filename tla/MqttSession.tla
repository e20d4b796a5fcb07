---------------------------- MODULE MqttSession ----------------------------
(***************************************************************************)
(* The life of the MQTT connection: main connects and subscribes, then a   *)
(* background task takes what the client has put into its bounded stream,  *)
(* one item at a time (main.rs:241-266, mqtt_client.rs).  An item is a     *)
(* message or None, the marker the client leaves when it loses the         *)
(* connection; the task answers a marker by reconnecting until it succeeds *)
(* (main.rs:358-366).                                                      *)
(*                                                                         *)
(* External is the paho client: its callbacks put items into the stream    *)
(* without waiting, so that an item is dropped when the stream is full.    *)
(* So is the broker, which forgets the subscriptions of a client that      *)
(* connects with clean_session(true).                                      *)
(***************************************************************************)
EXTENDS Naturals, Sequences

CONSTANT StreamLimit   \* 25 in mqtt_client.rs

ASSUME SessionAssumption == StreamLimit \in Nat \ {0}

VARIABLES
  phase,       \* where main, then the task, is
  link,        \* are the client and the broker connected?
  subscribed,  \* does the broker hold the client's subscriptions?
  stream,
  unnoticed    \* history: was the marker of the present loss dropped?

vars == << phase, link, subscribed, stream, unnoticed >>

Phases ==
  { "connecting", "pausing",        \* connect, and its 30 seconds between attempts
    "subscribing",
    "waiting", "handling",          \* get_next_message, process_mqtt_message
    "reconnecting", "retrying",     \* its None branch, and the 5 seconds there
    "down" }                        \* no process

(* Each variable keeps its shape and the stream its limit.                 *)
TypeOK ==
  /\ phase \in Phases
  /\ link \in BOOLEAN
  /\ subscribed \in BOOLEAN
  /\ stream \in Seq({"message", "lost"})
  /\ Len(stream) <= StreamLimit
  /\ unnoticed \in BOOLEAN

Init ==
  /\ phase = "down"
  /\ link = FALSE
  /\ subscribed = FALSE
  /\ stream = << >>
  /\ unnoticed = FALSE

-----------------------------------------------------------------------------
(* main.                                                                   *)

(* The broker accepts; a clean session starts without subscriptions.       *)
StartSession ==
  /\ link' = TRUE
  /\ subscribed' = FALSE
  /\ unnoticed' = FALSE

Connect ==
  /\ phase = "connecting"
  /\ phase' = "subscribing"
  /\ StartSession
  /\ UNCHANGED stream

ConnectFails ==
  /\ phase = "connecting"
  /\ phase' = "pausing"
  /\ UNCHANGED << link, subscribed, stream, unnoticed >>

Subscribe ==
  /\ phase = "subscribing"
  /\ link
  /\ subscribed' = TRUE
  /\ phase' = "waiting"
  /\ UNCHANGED << link, stream, unnoticed >>

(* The process ends: a failed subscription (the expect of main.rs:245,     *)
(* with panic = "abort"), Rocket's shutdown and the abort of the task, or  *)
(* a crash.                                                                *)
Exit ==
  /\ phase # "down"
  /\ phase' = "down"
  /\ link' = FALSE
  /\ subscribed' = FALSE
  /\ stream' = << >>
  /\ unnoticed' = FALSE

(* main begins, or begins again; module Startup has what it does before   *)
(* the client connects.                                                    *)
Start ==
  /\ phase = "down"
  /\ phase' = "connecting"
  /\ UNCHANGED << link, subscribed, stream, unnoticed >>

-----------------------------------------------------------------------------
(* The task.                                                               *)

(* Mutant: a marker is looked at and left in the stream.                   *)
TakePeeks ==
  /\ phase = "waiting"
  /\ stream # << >>
  /\ phase' = IF Head(stream) = "lost" THEN "reconnecting" ELSE "handling"
  /\ stream' = IF Head(stream) = "lost" THEN stream ELSE Tail(stream)
  /\ UNCHANGED << link, subscribed, unnoticed >>

Take ==
  /\ phase = "waiting"
  /\ stream # << >>
  /\ phase' = IF Head(stream) = "lost" THEN "reconnecting" ELSE "handling"
  /\ stream' = Tail(stream)
  /\ UNCHANGED << link, subscribed, unnoticed >>

(* Mutant: a message that cannot be processed ends the task.               *)
HandleOrDie ==
  /\ phase = "handling"
  /\ phase' \in {"waiting", "ended"}
  /\ UNCHANGED << link, subscribed, stream, unnoticed >>

(* process_mqtt_message returns; the loop goes on whatever it returns.     *)
Handle ==
  /\ phase = "handling"
  /\ phase' = "waiting"
  /\ UNCHANGED << link, subscribed, stream, unnoticed >>

Reconnect ==
  /\ phase = "reconnecting"
  /\ phase' = "waiting"
  /\ StartSession
  /\ UNCHANGED stream

(* Mutant: one attempt is made.                                            *)
ReconnectGivesUp ==
  /\ phase = "reconnecting"
  /\ phase' = "waiting"
  /\ UNCHANGED << link, subscribed, stream, unnoticed >>

ReconnectFails ==
  /\ phase = "reconnecting"
  /\ phase' = "retrying"
  /\ UNCHANGED << link, subscribed, stream, unnoticed >>

(* The two sleeps end.                                                     *)
Wake ==
  /\ \/ phase = "pausing" /\ phase' = "connecting"
     \/ phase = "retrying" /\ phase' = "reconnecting"
  /\ UNCHANGED << link, subscribed, stream, unnoticed >>

-----------------------------------------------------------------------------
(* External: the callbacks of the client.                                  *)

(* Mutant: the stream has no limit.                                        *)
PushAlways(item) == stream' = Append(stream, item)

Push(item) == stream' = IF Len(stream) < StreamLimit THEN Append(stream, item) ELSE stream

(* A message for which the stream has no room is dropped.                  *)
Deliver ==
  /\ link /\ subscribed
  /\ Push("message")
  /\ UNCHANGED << phase, link, subscribed, unnoticed >>

(* ... and so is the marker of a loss.                                     *)
LoseLink ==
  /\ link
  /\ link' = FALSE
  /\ subscribed' = FALSE
  /\ Push("lost")
  /\ unnoticed' = (Len(stream) = StreamLimit)
  /\ UNCHANGED phase

-----------------------------------------------------------------------------
Next ==
  \/ Connect \/ ConnectFails \/ Subscribe
  \/ Take \/ Handle
  \/ Reconnect \/ ReconnectFails
  \/ Wake
  \/ Deliver \/ LoseLink
  \/ Exit \/ Start

Spec == Init /\ [][Next]_vars

(* Sleeps and handlers end, the process is restarted, and a broker that is *)
(* asked time and again accepts some time.  While subscribe_many waits,    *)
(* the broker answers it or the process ends.                              *)
FairSpec ==
  /\ Spec
  /\ SF_vars(Connect) /\ SF_vars(Reconnect)
  /\ WF_vars(phase = "subscribing" /\ (Subscribe \/ Exit))
  /\ WF_vars(Take) /\ WF_vars(Handle) /\ WF_vars(Wake) /\ WF_vars(Start)

-----------------------------------------------------------------------------
(* Properties.                                                             *)

(* The markers tell the truth: there is none while the client is connected *)
(* and never more than one, so the task neither reconnects a connection    *)
(* that stands nor the same loss twice (main.rs:358-361).                  *)
MarkersTrue ==
  LET marks == { j \in DOMAIN stream : stream[j] = "lost" }
  IN  /\ link => marks = {}
      /\ \A j, k \in marks : j = k
      /\ phase \in {"reconnecting", "retrying"} => ~link /\ marks = {}

(* A lost connection is known to the task or about to be: while it waits   *)
(* for messages or handles one, a marker is in the stream.  The one        *)
(* exception is the loss that found the stream full (mqtt_client.rs:20),   *)
(* after which the task waits for ever (main.rs:250) and GET /keepalive    *)
(* does not tell.                                                          *)
LossNoticed ==
  phase \in {"waiting", "handling"} /\ ~link =>
    unnoticed \/ \E j \in DOMAIN stream : stream[j] = "lost"

(* The client comes back to the broker however often either fails, as      *)
(* connect and the None branch of process_mqtt_message retry for ever,     *)
(* unless the marker of the loss was dropped.                              *)
LinkRestored == []<>(link \/ unnoticed)

(* The task is "Waiting for incoming MQTT messages" (main.rs:249): while   *)
(* it does so over a standing connection, the broker comes to hold its     *)
(* subscriptions, so that there are messages to wait for.                  *)
WaitsSubscribed == (phase = "waiting" /\ link) ~> (subscribed \/ ~link)
=============================================================================
