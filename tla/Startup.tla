------------------------------ MODULE Startup ------------------------------
(***************************************************************************)
(* main (main.rs:210-286) from the start of the process to the answer of   *)
(* GET /keepalive: three Redis connections, MongoDB, the CA bundle that    *)
(* MqttOptions merges into a file under /tmp, the MQTT connection and its  *)
(* subscriptions, Rocket.  Every failure on the way but that of the MQTT   *)
(* connection ends the process (expect, with panic = "abort"); its         *)
(* supervisor starts it again.  The file under /tmp survives.              *)
(*                                                                         *)
(* External are the servers, the file system under /tmp, the files of the  *)
(* certificates, which their owner may renew at any time, and the liveness *)
(* probe of Kubernetes.                                                    *)
(***************************************************************************)
EXTENDS RedisUrl

CONSTANTS
  Environments,  \* what .env may say: [redis_username, redis_password, uris,
                 \* mongodb_parses, mqtt_tls]
  Pem,           \* the lines of each version of a certificate file
  NoFile,
  Unreliable,    \* the Services that may be down
  MaxRenewals, MaxCrashes

Redises == << "online", "replay", "alarms" >>
Services == {"redis", "broker", "files", "tmp"}
NoUrl == << >>

ASSUME StartupAssumption ==
  /\ \A e \in Environments :
       /\ e.redis_username \in Seq(STRING) /\ e.redis_password \in Seq(STRING)
       /\ \A r \in ToSet(Redises) : e.uris[r] \in Seq(STRING)
  /\ \A v \in DOMAIN Pem : Pem[v] \in Seq(STRING)
  /\ NoFile \notin Seq(STRING)
  /\ Unreliable \subseteq Services
  /\ MaxRenewals \in Nat /\ MaxCrashes \in Nat

VARIABLES
  stage,     \* how far main has come
  env,
  con,       \* the URL each connection was opened with
  bundle,    \* the file at COMBINED_CA_FILES_PATH
  written,   \* how many lines of it this process has written
  unwritten, \* what merge_ca_files has read and not yet written
  certs,     \* the versions of ROOT_CA and MQTT_CERT_FILE
  mine,      \* ... and those this process has read
  up,        \* the services that answer
  renewals, crashes

vars == << stage, env, con, bundle, written, unwritten, certs, mine, up, renewals, crashes >>

merge == << bundle, written, unwritten, mine >>
world == << certs, up, renewals, crashes >>

Stages ==
  { "down", "redis", "mongodb", "truncating", "reading", "writing", "checking",
    "connecting", "pausing", "subscribing", "launching", "serving" }

Init ==
  /\ stage = "down"
  /\ env \in Environments
  /\ con = [r \in ToSet(Redises) |-> NoUrl]
  /\ bundle = NoFile /\ written = 0 /\ unwritten = << >>
  /\ certs \in [{"root", "cert"} -> DOMAIN Pem] /\ mine = certs
  /\ up \in { s \in SUBSET Services : Services \ s \subseteq Unreliable }
  /\ renewals = 0 /\ crashes = 0

Go(from, to) == stage = from /\ stage' = to

-----------------------------------------------------------------------------
(* The connections.                                                        *)

Start ==
  /\ Go("down", "redis")
  /\ con' = [r \in ToSet(Redises) |-> NoUrl]
  /\ UNCHANGED << env, merge, world >>

Connected(n) == \A k \in 1 .. n : con[Redises[k]] # NoUrl

(* The next of the three clients is opened and connected.                  *)
UrlOf(r) == redis_url_with_credentials(env.uris[r], env.redis_username, env.redis_password)

ConnectRedis(n) ==
  /\ stage = "redis" /\ Connected(n - 1) /\ ~Connected(n)
  /\ IsUrl(env.uris[Redises[n]]) /\ "redis" \in up
  /\ con' = [con EXCEPT ![Redises[n]] = UrlOf(Redises[n])]
  /\ stage' = IF n = Len(Redises) THEN "mongodb" ELSE stage
  /\ UNCHANGED << env, merge, world >>

(* connect_mongodb parses the URL; the first query will need the server.   *)
ConnectMongo ==
  /\ Go("mongodb", IF env.mqtt_tls THEN "truncating" ELSE "connecting")
  /\ env.mongodb_parses
  /\ UNCHANGED << env, con, merge, world >>

-----------------------------------------------------------------------------
(* merge_ca_files and build_ssl_options.                                   *)

(* Mutant: the file is opened, and what it held stays.                     *)
OpenOnly ==
  /\ Go("truncating", "reading")
  /\ "tmp" \in up
  /\ bundle' = IF bundle = NoFile THEN << >> ELSE bundle
  /\ written' = 0
  /\ UNCHANGED << env, con, unwritten, mine, world >>

(* Mutant: the file must not exist (create_new).                           *)
CreateNew ==
  /\ Go("truncating", "reading")
  /\ "tmp" \in up
  /\ bundle = NoFile
  /\ bundle' = << >> /\ written' = 0
  /\ UNCHANGED << env, con, unwritten, mine, world >>

Truncate ==
  /\ Go("truncating", "reading")
  /\ "tmp" \in up
  /\ bundle' = << >> /\ written' = 0
  /\ UNCHANGED << env, con, unwritten, mine, world >>

ReadPems ==
  /\ Go("reading", "writing")
  /\ "files" \in up
  /\ unwritten' = << Pem[certs["root"]], << "newline" >>, Pem[certs["cert"]] >>
  /\ mine' = certs
  /\ UNCHANGED << env, con, bundle, written, world >>

(* Mutant: the certificate behind the newline is not written.              *)
WriteAllButLast ==
  LET lines == Head(unwritten)
      end == written + Len(lines)
  IN  /\ stage = "writing"
      /\ "tmp" \in up
      /\ bundle' = SubSeq(bundle, 1, written) \o lines \o SubSeq(bundle, end + 1, Len(bundle))
      /\ written' = end
      /\ unwritten' = Tail(unwritten)
      /\ stage' = IF Len(Tail(unwritten)) = 1 THEN "checking" ELSE stage
      /\ UNCHANGED << env, con, mine, world >>

(* One of the three write_all, at the place the last one stopped.          *)
WriteAll ==
  LET lines == Head(unwritten)
      end == written + Len(lines)
  IN  /\ stage = "writing"
      /\ "tmp" \in up
      /\ bundle' = SubSeq(bundle, 1, written) \o lines \o SubSeq(bundle, end + 1, Len(bundle))
      /\ written' = end
      /\ unwritten' = Tail(unwritten)
      /\ stage' = IF Tail(unwritten) = << >> THEN "checking" ELSE stage
      /\ UNCHANGED << env, con, mine, world >>

(* The trust store, the key store and the private key exist.               *)
CheckFiles ==
  /\ Go("checking", "connecting")
  /\ bundle # NoFile /\ "files" \in up
  /\ UNCHANGED << env, con, merge, world >>

-----------------------------------------------------------------------------
(* MQTT and Rocket.                                                        *)

(* External: the broker answers, and its certificate, which is of the      *)
(* present root, is trusted.                                               *)
BrokerAccepts ==
  /\ "broker" \in up
  /\ env.mqtt_tls => IsPrefix(Pem[certs["root"]], bundle)

Connect ==
  /\ Go("connecting", "subscribing")
  /\ BrokerAccepts
  /\ UNCHANGED << env, con, merge, world >>

ConnectFails ==
  /\ Go("connecting", "pausing")
  /\ ~BrokerAccepts
  /\ UNCHANGED << env, con, merge, world >>

Wake ==
  /\ Go("pausing", "connecting")
  /\ UNCHANGED << env, con, merge, world >>

Subscribe ==
  /\ Go("subscribing", "launching")
  /\ "broker" \in up
  /\ UNCHANGED << env, con, merge, world >>

Launch ==
  /\ Go("launching", "serving")
  /\ UNCHANGED << env, con, merge, world >>

-----------------------------------------------------------------------------
(* The end of the process.                                                 *)

Proceed ==
  \/ \E n \in DOMAIN Redises : ConnectRedis(n)
  \/ ConnectMongo
  \/ Truncate \/ ReadPems \/ WriteAll \/ CheckFiles
  \/ Connect \/ ConnectFails \/ Wake
  \/ Subscribe
  \/ Launch

End ==
  /\ stage' = "down"
  /\ unwritten' = << >>
  /\ UNCHANGED << env, con, bundle, written, certs, mine, up, renewals >>

(* A step cannot be made, and its expect ends the process.                 *)
Panic ==
  /\ \/ /\ stage = "redis"
        /\ \/ "redis" \notin up
           \/ \E n \in DOMAIN Redises :
                Connected(n - 1) /\ ~Connected(n) /\ ~IsUrl(env.uris[Redises[n]])
     \/ stage = "mongodb" /\ ~env.mongodb_parses
     \/ stage \in {"truncating", "writing"} /\ "tmp" \notin up
     \/ stage \in {"reading", "checking"} /\ "files" \notin up
     \/ stage = "subscribing" /\ "broker" \notin up
  /\ End
  /\ UNCHANGED crashes

(* External: the probe finds no answer while connect keeps trying.         *)
ProbeKills ==
  /\ stage \in {"connecting", "pausing"}
  /\ End
  /\ UNCHANGED crashes

Crash ==
  /\ stage # "down"
  /\ crashes < MaxCrashes
  /\ crashes' = crashes + 1
  /\ End

-----------------------------------------------------------------------------
(* External: the services and the certificates.                            *)

Fluctuate(s) ==
  /\ up' = IF s \in up THEN up \ {s} ELSE up \cup {s}
  /\ UNCHANGED << stage, env, con, merge, certs, renewals, crashes >>

Renew(f, v) ==
  /\ renewals < MaxRenewals
  /\ certs[f] # v
  /\ certs' = [certs EXCEPT ![f] = v]
  /\ renewals' = renewals + 1
  /\ UNCHANGED << stage, env, con, merge, up, crashes >>

Next ==
  \/ Start
  \/ Proceed
  \/ Panic \/ ProbeKills \/ Crash
  \/ \E s \in Unreliable : Fluctuate(s)
  \/ \E f \in {"root", "cert"} : \E v \in DOMAIN Pem : Renew(f, v)

Spec == Init /\ [][Next]_vars

(* main goes on as long as it can; the supervisor restarts it, and kills   *)
(* it when the probe has found it silent for long enough.  The broker is   *)
(* tried before the probe loses its patience, if not at every start.       *)
FairSpec ==
  /\ Spec
  /\ WF_vars(Start) /\ WF_vars(Proceed) /\ WF_vars(Panic)
  /\ WF_vars(ProbeKills) /\ SF_vars(Connect)

-----------------------------------------------------------------------------
(* Properties.                                                             *)

(* Each variable keeps its shape.                                          *)
TypeOK ==
  /\ stage \in Stages
  /\ env \in Environments
  /\ DOMAIN con = ToSet(Redises)
  /\ bundle = NoFile \/ written <= Len(bundle)
  /\ unwritten # << >> <=> stage = "writing"
  /\ certs \in [{"root", "cert"} -> DOMAIN Pem] /\ mine \in [{"root", "cert"} -> DOMAIN Pem]
  /\ up \subseteq Services
  /\ renewals \in 0 .. MaxRenewals /\ crashes \in 0 .. MaxCrashes

(* Every connection is opened to the database of its own URI, with the     *)
(* credentials of .env where there is a password, whatever characters they *)
(* hold (main.rs:168-175).                                                 *)
ConnectsAsConfigured ==
  \A r \in ToSet(Redises) : con[r] # NoUrl =>
    LET said == EndpointOf(env.uris[r])
    IN  EndpointOf(con[r]) =
          IF env.redis_password = << >> THEN said
            ELSE [said EXCEPT !.username = env.redis_username, !.password = env.redis_password]

(* Whoever connects to the broker trusts exactly the two certificates this *)
(* process has read, whatever an earlier one, which may have died in the   *)
(* middle of merge_ca_files (mqtt_options.rs:53-65), left under /tmp.      *)
TrustStoreWhole ==
  env.mqtt_tls /\ stage \in {"connecting", "pausing", "subscribing", "launching", "serving"} =>
    bundle = Pem[mine["root"]] \o << "newline" >> \o Pem[mine["cert"]]

(* While all services answer, the process comes up and GET /keepalive      *)
(* answers, also after crashes at any point, after certificates that were  *)
(* renewed while main was connecting (main.rs:244), and after every        *)
(* failure that ended it.                                                  *)
ComesUp ==
  (env.mongodb_parses /\ \A r \in ToSet(Redises) : IsUrl(env.uris[r]))
    => []<>(stage = "serving" \/ up # Services)
=============================================================================
