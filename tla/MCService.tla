----------------------------- MODULE MCService -----------------------------
(***************************************************************************)
(* Small instances of Service: an alarm and a message that fails the first *)
(* checks, then a heartbeat and a misdirected alarm.  As with the numbers  *)
(* of the code (26 * 30 s against 300 s), the worst wait is longer than    *)
(* the freshness window.                                                   *)
(***************************************************************************)
EXTENDS MCReceiver, Service

Unchecked == [GenuineMotion EXCEPT !.encoding = "not json"]
AlarmAndNoise == { GenuineMotion, Unchecked }
AlarmRegistration == Motion1 :> { Doc("token1", "motion"), NoAuth }

ServiceInstants == { 2000, 3000, 4000, 5000, 6000 }

(* The heartbeat of a sensor that changes hands, and an alarm on an online *)
(* topic.                                                                  *)
OnlineMessages == { GenuineHeartbeat, OnTopic(OnlineTopic(Motion1), Motion) }
OnlineRegistrations ==
  Online1 :> { Doc("token1", "online"), Doc("token2", "online") }
    @@ Motion1 :> { Doc("token1", "motion") }
=============================================================================
