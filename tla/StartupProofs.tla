---------------------------- MODULE StartupProofs ----------------------------
(***************************************************************************)
(* Theorems about Startup, for every .env, every contents of the           *)
(* certificate files and every number of crashes and renewals.             *)
(***************************************************************************)
EXTENDS Startup, RedisUrlProofs

(* The steps of main, by what they do to the stage and to the bundle.      *)
Early ==
  /\ stage \in {"down", "redis", "mongodb"}
  /\ \/ stage' \in {"redis", "mongodb", "truncating"}
     \/ stage' = "connecting" /\ ~env.mqtt_tls
  /\ UNCHANGED << env, merge >>

Late == {"connecting", "pausing", "subscribing", "launching", "serving"}

Onward ==
  /\ stage \in Late /\ stage' \in Late
  /\ UNCHANGED << env, merge >>

Ended ==
  /\ stage' = "down" /\ unwritten' = << >>
  /\ UNCHANGED << env, bundle, written, mine >>

Aside == UNCHANGED << stage, env, merge >>

LEMMA Moves ==
  ASSUME [Next]_vars
  PROVE  Early \/ Truncate \/ ReadPems \/ WriteAll \/ CheckFiles \/ Onward \/ Ended \/ Aside
<1>1. Start => Early
  BY DEF Start, Go, Early
<1>2. (\E n \in DOMAIN Redises : ConnectRedis(n)) => Early
  <2> SUFFICES ASSUME NEW n \in DOMAIN Redises, ConnectRedis(n) PROVE Early
    OBVIOUS
  <2>1. stage = "redis" /\ stage' \in {"redis", "mongodb"} /\ UNCHANGED << env, merge >>
    BY DEF ConnectRedis
  <2> QED
    BY <2>1 DEF Early
<1>3. ConnectMongo => Early
  BY DEF ConnectMongo, Go, Early
<1>4. Connect \/ ConnectFails \/ Wake \/ Subscribe \/ Launch => Onward
  BY DEF Connect, ConnectFails, Wake, Subscribe, Launch, Go, Onward, Late
<1>5. Panic \/ ProbeKills \/ Crash => Ended
  BY DEF Panic, ProbeKills, Crash, End, Ended
<1>6. (\E s \in Unreliable : Fluctuate(s)) => Aside
  BY DEF Fluctuate, Aside
<1>7. (\E f \in {"root", "cert"} : \E v \in DOMAIN Pem : Renew(f, v)) => Aside
  BY DEF Renew, Aside
<1>8. UNCHANGED vars => Aside
  BY DEF vars, merge, Aside
<1> QED
  BY <1>1, <1>2, <1>3, <1>4, <1>5, <1>6, <1>7, <1>8 DEF Next, Proceed

-----------------------------------------------------------------------------
(* The bundle.                                                             *)

(* The two certificates this process has read.                             *)
Root == Pem[mine["root"]]
Cert == Pem[mine["cert"]]
Newline == << "newline" >>

(* All of them are strings.                                                *)
Lines == STRING \cup {"newline"}

(* How far the three write_all have come.                                  *)
Half ==
  /\ written = Len(bundle)
  /\ \/ unwritten = << Root, Newline, Cert >> /\ bundle = << >>
     \/ unwritten = << Newline, Cert >> /\ bundle = Root
     \/ unwritten = << Cert >> /\ bundle = Root \o Newline

(* What is left under /tmp is a file that is written no further than it is *)
(* long.  From the truncation on it is this process's own, so that the     *)
(* place the last write_all stopped is its end.                            *)
BundleInv ==
  /\ mine \in [{"root", "cert"} -> DOMAIN Pem] /\ certs \in [{"root", "cert"} -> DOMAIN Pem]
  /\ bundle # NoFile => bundle \in Seq(Lines) /\ written \in 0 .. Len(bundle)
  /\ stage = "reading" => bundle = << >> /\ written = 0
  /\ stage = "writing" => Half
  /\ stage = "checking" \/ (env.mqtt_tls /\ stage \in Late) => bundle = Root \o Newline \o Cert

LEMMA Appending ==
  ASSUME NEW S, NEW s \in Seq(S), NEW lines \in Seq(S)
  PROVE  /\ s \o lines \in Seq(S) /\ Len(s \o lines) = Len(s) + Len(lines)
         /\ s \o << >> = s /\ << >> \o s = s
  OBVIOUS

LEMMA Single ==
  ASSUME NEW S, NEW x \in S
  PROVE  << x >> \in Seq(S)
  OBVIOUS

LEMMA NotEmpty ==
  ASSUME NEW x, NEW y
  PROVE  << x >> # << >> /\ << x, y >> # << >>
  OBVIOUS

LEMMA PemLines == \A v \in DOMAIN Pem : Pem[v] \in Seq(Lines)
<1> SUFFICES ASSUME NEW v \in DOMAIN Pem PROVE Pem[v] \in Seq(Lines)
  OBVIOUS
<1>1. Pem[v] \in Seq(STRING)
  BY StartupAssumption, Zenon
<1> QED
  BY <1>1 DEF Lines

(* Writing at the end of a file appends.                                   *)
LEMMA WriteAppends ==
  ASSUME NEW S, NEW s \in Seq(S), NEW lines \in Seq(S)
  PROVE  SubSeq(s, 1, Len(s)) \o lines \o SubSeq(s, Len(s) + Len(lines) + 1, Len(s)) = s \o lines
<1>1. Len(s) \in Nat /\ Len(lines) \in Nat
  OBVIOUS
<1>2. SubSeq(s, 1, Len(s)) = s
  OBVIOUS
<1>3. SubSeq(s, Len(s) + Len(lines) + 1, Len(s)) = << >>
  BY <1>1
<1>4. s \o lines \in Seq(S)
  OBVIOUS
<1>5. (s \o lines) \o << >> = s \o lines
  BY <1>4, Appending
<1> QED
  BY <1>2, <1>3, <1>5

(* One write_all takes the bundle to the next position.                    *)
LEMMA WriteEffect ==
  ASSUME BundleInv, WriteAll
  PROVE  /\ bundle' \in Seq(Lines) /\ written' = Len(bundle')
         /\ unwritten # << >>
         /\ \/ stage' = "writing" /\ unwritten' # << >> /\ Half'
            \/ stage' = "checking" /\ unwritten' = << >> /\ bundle' = Root \o Newline \o Cert
<1>1. /\ stage = "writing" /\ Half /\ written = Len(bundle)
      /\ UNCHANGED << env, mine >>
  BY DEF WriteAll, BundleInv, Half, world
<1>2. Root \in Seq(Lines) /\ Cert \in Seq(Lines) /\ Newline \in Seq(Lines)
  <2>1. mine["root"] \in DOMAIN Pem /\ mine["cert"] \in DOMAIN Pem
    BY DEF BundleInv
  <2>2. Root \in Seq(Lines) /\ Cert \in Seq(Lines)
    BY <2>1, PemLines, Zenon DEF Root, Cert
  <2> QED
    BY <2>2, Single DEF Newline, Lines
<1>3. bundle \in Seq(Lines)
  <2>1. Root \o Newline \in Seq(Lines)
    BY <1>2, Appending
  <2>2. << >> \in Seq(Lines)
    OBVIOUS
  <2> QED
    BY <1>1, <1>2, <2>1, <2>2, Zenon DEF Half
<1> DEFINE lines == Head(unwritten)
<1>4. lines \in {Root, Newline, Cert} /\ lines \in Seq(Lines) /\ unwritten # << >>
  BY <1>1, <1>2 DEF Half
<1>5. /\ bundle' = bundle \o lines /\ bundle' \in Seq(Lines)
      /\ written' = Len(bundle) + Len(lines) /\ written' = Len(bundle')
  <2>1. /\ bundle' = SubSeq(bundle, 1, written) \o lines
                       \o SubSeq(bundle, written + Len(lines) + 1, Len(bundle))
        /\ written' = written + Len(lines)
    BY DEF WriteAll
  <2>2. bundle' = bundle \o lines
    BY <1>1, <1>3, <1>4, <2>1, WriteAppends
  <2>3. bundle' \in Seq(Lines) /\ Len(bundle') = Len(bundle) + Len(lines)
    BY <1>3, <1>4, <2>2, Appending
  <2> QED
    BY <1>1, <2>1, <2>2, <2>3
<1>6. /\ unwritten' = Tail(unwritten)
      /\ stage' = IF Tail(unwritten) = << >> THEN "checking" ELSE stage
  BY DEF WriteAll
<1>7. Root' = Root /\ Cert' = Cert /\ Newline' = Newline
  BY <1>1 DEF Root, Cert, Newline
<1>8. CASE unwritten = << Root, Newline, Cert >> /\ bundle = << >>
  <2>1. bundle' = Root /\ unwritten' = << Newline, Cert >>
    BY <1>2, <1>5, <1>6, <1>8
  <2>2. unwritten' # << >> /\ Tail(unwritten) # << >>
    BY <1>6, <2>1, NotEmpty
  <2>3. stage' = "writing"
    BY <1>1, <1>6, <2>2
  <2>4. Half'
    BY <1>5, <1>7, <2>1, Zenon DEF Half
  <2> QED
    BY <1>4, <1>5, <2>2, <2>3, <2>4
<1>9. CASE unwritten = << Newline, Cert >> /\ bundle = Root
  <2>1. bundle' = Root \o Newline /\ unwritten' = << Cert >>
    BY <1>2, <1>5, <1>6, <1>9
  <2>2. unwritten' # << >> /\ Tail(unwritten) # << >>
    BY <1>6, <2>1, NotEmpty
  <2>3. stage' = "writing"
    BY <1>1, <1>6, <2>2
  <2>4. Half'
    BY <1>5, <1>7, <2>1, Zenon DEF Half
  <2> QED
    BY <1>4, <1>5, <2>2, <2>3, <2>4
<1>10. CASE unwritten = << Cert >> /\ bundle = Root \o Newline
  <2>1. bundle' = Root \o Newline \o Cert /\ unwritten' = << >>
    BY <1>2, <1>5, <1>6, <1>10
  <2> QED
    BY <1>4, <1>5, <1>6, <2>1
<1> QED
  BY <1>1, <1>8, <1>9, <1>10 DEF Half

LEMMA CertsTyped ==
  ASSUME certs \in [{"root", "cert"} -> DOMAIN Pem], [Next]_vars
  PROVE  certs' \in [{"root", "cert"} -> DOMAIN Pem]
<1>1. ASSUME NEW f \in {"root", "cert"}, NEW v \in DOMAIN Pem, Renew(f, v)
      PROVE  certs' \in [{"root", "cert"} -> DOMAIN Pem]
  BY <1>1 DEF Renew
<1>2. (~ \E f \in {"root", "cert"} : \E v \in DOMAIN Pem : Renew(f, v)) => certs' = certs
  BY DEF Next, Start, Proceed, ConnectRedis, ConnectMongo, Truncate, ReadPems, WriteAll,
     CheckFiles, Connect, ConnectFails, Wake, Subscribe, Launch, Panic, ProbeKills, Crash, End,
     Fluctuate, vars, world
<1> QED
  BY <1>1, <1>2

LEMMA BundleStep == BundleInv /\ [Next]_vars => BundleInv'
<1> SUFFICES ASSUME BundleInv, [Next]_vars PROVE BundleInv'
  OBVIOUS
<1>0. certs' \in [{"root", "cert"} -> DOMAIN Pem]
  BY CertsTyped DEF BundleInv
<1>1. CASE Early
  BY <1>0, <1>1 DEF BundleInv, Early, Late, merge
<1>2. CASE Truncate
  <2>1. stage' = "reading" /\ bundle' = << >> /\ written' = 0 /\ UNCHANGED mine
    BY <1>2 DEF Truncate, Go
  <2>2. << >> \in Seq(Lines) /\ 0 \in 0 .. Len(<< >>)
    OBVIOUS
  <2> QED
    BY <1>0, <2>1, <2>2 DEF BundleInv, Late
<1>3. CASE ReadPems
  <2>1. /\ stage = "reading" /\ stage' = "writing" /\ UNCHANGED << bundle, written >>
        /\ mine' = certs
        /\ unwritten' = << Pem[certs["root"]], << "newline" >>, Pem[certs["cert"]] >>
    BY <1>3 DEF ReadPems, Go
  <2>2. bundle = << >> /\ written = 0
    BY <2>1 DEF BundleInv
  <2>3. Half'
    BY <2>1, <2>2 DEF Half, Root, Cert, Newline
  <2> QED
    BY <1>0, <2>1, <2>3 DEF BundleInv, Late
<1>4. CASE WriteAll
  <2>1. UNCHANGED << env, mine >>
    BY <1>4 DEF WriteAll
  <2>2. Root' = Root /\ Cert' = Cert /\ Newline' = Newline
    BY <2>1 DEF Root, Cert, Newline
  <2>3. Len(bundle') \in 0 .. Len(bundle')
    BY <1>4, WriteEffect
  <2> QED
    BY <1>0, <1>4, <2>1, <2>2, <2>3, WriteEffect DEF BundleInv, Late
<1>5. CASE CheckFiles
  <2>1. /\ stage = "checking" /\ stage' = "connecting"
        /\ UNCHANGED << env, bundle, written, mine >>
    BY <1>5 DEF CheckFiles, Go, merge
  <2>2. Root' = Root /\ Cert' = Cert /\ Newline' = Newline
    BY <2>1 DEF Root, Cert, Newline
  <2>3. bundle' = Root' \o Newline' \o Cert'
    BY <2>1, <2>2, Zenon DEF BundleInv
  <2> QED
    BY <1>0, <2>1, <2>3 DEF BundleInv
<1>6. CASE Onward
  BY <1>0, <1>6 DEF BundleInv, Onward, Late, merge, Root, Cert, Newline
<1>7. CASE Ended
  BY <1>0, <1>7 DEF BundleInv, Ended, Late
<1>8. CASE Aside
  BY <1>0, <1>8 DEF BundleInv, Aside, Late, merge, Half, Root, Cert, Newline
<1> QED
  BY <1>1, <1>2, <1>3, <1>4, <1>5, <1>6, <1>7, <1>8, Moves

LEMMA BundleInvariant == Spec => []BundleInv
<1>1. Init => BundleInv
  BY DEF Init, BundleInv, Late
<1> QED
  BY <1>1, BundleStep, PTL DEF Spec

(* Whoever connects to the broker trusts exactly the two certificates this *)
(* process has read (mqtt_options.rs:53-65), for every contents they can   *)
(* have, after any number of crashes in the middle of merge_ca_files and   *)
(* of renewals while it runs.                                              *)
THEOREM TrustsWhatItRead == Spec => []TrustStoreWhole
<1>1. BundleInv => TrustStoreWhole
  BY DEF BundleInv, TrustStoreWhole, Late, Root, Cert, Newline
<1> QED
  BY <1>1, BundleInvariant, PTL

-----------------------------------------------------------------------------
(* The connections.                                                        *)

(* What is open was opened with the URL that .env and                      *)
(* redis_url_with_credentials give for it.                                 *)
ConInv ==
  /\ env \in Environments
  /\ DOMAIN con = ToSet(Redises)
  /\ \A r \in ToSet(Redises) : con[r] # NoUrl => IsUrl(env.uris[r]) /\ con[r] = UrlOf(r)

(* .env stays as it is, and the connections change in two places.          *)
LEMMA ConMoves ==
  ASSUME [Next]_vars
  PROVE  /\ UNCHANGED env
         /\ \/ UNCHANGED con
            \/ con' = [r \in ToSet(Redises) |-> NoUrl]
            \/ \E n \in DOMAIN Redises :
                 /\ IsUrl(env.uris[Redises[n]])
                 /\ con' = [con EXCEPT ![Redises[n]] = UrlOf(Redises[n])]
BY DEF Next, Start, Proceed, ConnectRedis, ConnectMongo, Truncate, ReadPems, WriteAll, CheckFiles,
   Connect, ConnectFails, Wake, Subscribe, Launch, Panic, ProbeKills, Crash, End, Fluctuate, Renew,
   vars

LEMMA ConStep == ConInv /\ [Next]_vars => ConInv'
<1> SUFFICES ASSUME ConInv, [Next]_vars PROVE ConInv'
  OBVIOUS
<1>1. UNCHANGED env /\ \A r \in ToSet(Redises) : UrlOf(r)' = UrlOf(r)
  BY ConMoves DEF UrlOf
<1>2. CASE UNCHANGED con
  BY <1>1, <1>2 DEF ConInv
<1>3. CASE con' = [r \in ToSet(Redises) |-> NoUrl]
  BY <1>1, <1>3 DEF ConInv
<1>4. ASSUME NEW n \in DOMAIN Redises, IsUrl(env.uris[Redises[n]]),
             con' = [con EXCEPT ![Redises[n]] = UrlOf(Redises[n])]
      PROVE  ConInv'
  <2>1. DOMAIN con' = ToSet(Redises)
    BY <1>4 DEF ConInv
  <2>2. ASSUME NEW r \in ToSet(Redises), con'[r] # NoUrl
        PROVE  IsUrl(env.uris[r]) /\ con'[r] = UrlOf(r)
    BY <1>4, <2>2 DEF ConInv
  <2> QED
    BY <1>1, <2>1, <2>2 DEF ConInv
<1> QED
  BY <1>2, <1>3, <1>4, ConMoves

(* main.rs:215-216 says what credentials are put into: redis://host:port.  *)
OneUserinfo ==
  \A e \in Environments :
    e.redis_password # << >> => \A r \in ToSet(Redises) : NoUserinfo(e.uris[r])

(* Every connection is opened to the database of its own URI, with the     *)
(* credentials of .env where there is a password (main.rs:164-181,         *)
(* 220-222), for every .env whose credentials and URIs are strings of any  *)
(* length and any characters, where no URI that credentials are put into   *)
(* brings its own.                                                         *)
THEOREM ConnectsWithCredentials ==
  ASSUME OneUserinfo
  PROVE  Spec => []ConnectsAsConfigured
<1>1. Init => ConInv
  BY DEF Init, ConInv
<1>2. ConInv => ConnectsAsConfigured
  <2> SUFFICES ASSUME ConInv, NEW r \in ToSet(Redises), con[r] # NoUrl
               PROVE  EndpointOf(con[r]) =
                        IF env.redis_password = << >> THEN EndpointOf(env.uris[r])
                          ELSE [EndpointOf(env.uris[r]) EXCEPT !.username = env.redis_username,
                                                               !.password = env.redis_password]
    BY Zenon DEF ConnectsAsConfigured
  <2> DEFINE uri == env.uris[r]
             username == env.redis_username
             password == env.redis_password
  <2>1. IsUrl(uri) /\ con[r] = redis_url_with_credentials(uri, username, password)
    BY DEF ConInv, UrlOf
  <2>2. uri \in Seq(Chars) /\ username \in Seq(Chars) /\ password \in Seq(Chars)
    <3>1. uri \in Seq(STRING) /\ username \in Seq(STRING) /\ password \in Seq(STRING)
      BY StartupAssumption, Zenon DEF ConInv
    <3>2. ASSUME NEW s \in Seq(STRING) PROVE s \in Seq(Chars)
      BY DEF Chars
    <3> QED
      BY <3>1, <3>2, Zenon
  <2>3. password # << >> => NoUserinfo(uri)
    BY OneUserinfo, Zenon DEF ConInv, OneUserinfo
  <2> HIDE DEF uri, username, password
  <2>4. CASE password = << >>
    BY <2>1, <2>4, Zenon DEF redis_url_with_credentials, uri, username, password
  <2>5. CASE password # << >>
    <3>1. EndpointOf(con[r]) = WithCredentials(EndpointOf(uri), username, password)
      BY <2>1, <2>2, <2>3, <2>5, InjectedEndpoint, Zenon
    <3> QED
      BY <2>5, <3>1, Zenon DEF uri, username, password, WithCredentials
  <2> QED
    BY <2>4, <2>5
<1> QED
  BY <1>1, <1>2, ConStep, PTL DEF Spec

-----------------------------------------------------------------------------
(* Type correctness.                                                       *)

(* The parts of TypeOK that the bundle does not matter to.                 *)
WorldOK ==
  /\ stage \in Stages /\ env \in Environments
  /\ DOMAIN con = ToSet(Redises)
  /\ up \subseteq Services
  /\ renewals \in 0 .. MaxRenewals /\ crashes \in 0 .. MaxCrashes

(* Nothing is left to write but while main writes.                         *)
WritingOnly == unwritten # << >> <=> stage = "writing"

LEMMA WorldStep == WorldOK /\ [Next]_vars => WorldOK'
<1> SUFFICES ASSUME WorldOK, [Next]_vars PROVE WorldOK'
  OBVIOUS
<1>1. stage' \in Stages /\ env' = env
  <2>1. stage \in Stages
    BY DEF WorldOK
  <2>2. CASE Early \/ Onward \/ Ended \/ Aside
    BY <2>1, <2>2 DEF Early, Onward, Ended, Aside, Late, Stages
  <2>3. CASE Truncate \/ ReadPems \/ CheckFiles
    BY <2>3 DEF Truncate, ReadPems, CheckFiles, Go, Stages
  <2>4. CASE WriteAll
    BY <2>1, <2>4 DEF WriteAll, Stages
  <2> QED
    BY <2>2, <2>3, <2>4, Moves
<1>2. DOMAIN con' = ToSet(Redises)
  <2>1. \/ con' = con
        \/ con' = [r \in ToSet(Redises) |-> NoUrl]
        \/ \E n \in DOMAIN Redises : con' = [con EXCEPT ![Redises[n]] = UrlOf(Redises[n])]
    BY DEF Next, Start, Proceed, ConnectRedis, ConnectMongo, Truncate, ReadPems, WriteAll,
       CheckFiles, Connect, ConnectFails, Wake, Subscribe, Launch, Panic, ProbeKills, Crash, End,
       Fluctuate, Renew, vars, world
  <2>2. DOMAIN con = ToSet(Redises)
    BY DEF WorldOK
  <2> QED
    BY <2>1, <2>2
<1>3. up' \subseteq Services /\ renewals' \in 0 .. MaxRenewals /\ crashes' \in 0 .. MaxCrashes
  <2>1. /\ up \subseteq Services /\ renewals \in 0 .. MaxRenewals /\ crashes \in 0 .. MaxCrashes
        /\ Unreliable \subseteq Services /\ MaxRenewals \in Nat /\ MaxCrashes \in Nat
    BY StartupAssumption DEF WorldOK
  <2>2. \/ UNCHANGED << up, renewals, crashes >>
        \/ \E s \in Unreliable : up' \in {up \ {s}, up \cup {s}} /\ UNCHANGED << renewals, crashes >>
        \/ renewals < MaxRenewals /\ renewals' = renewals + 1 /\ UNCHANGED << up, crashes >>
        \/ crashes < MaxCrashes /\ crashes' = crashes + 1 /\ UNCHANGED << up, renewals >>
    BY DEF Next, Start, Proceed, ConnectRedis, ConnectMongo, Truncate, ReadPems, WriteAll,
       CheckFiles, Connect, ConnectFails, Wake, Subscribe, Launch, Panic, ProbeKills, Crash, End,
       Fluctuate, Renew, vars, world
  <2> QED
    BY <2>1, <2>2
<1> QED
  BY <1>1, <1>2, <1>3 DEF WorldOK

LEMMA WritingStep ==
  BundleInv /\ WritingOnly /\ [Next]_vars => WritingOnly'
<1> SUFFICES ASSUME BundleInv, WritingOnly, [Next]_vars PROVE WritingOnly'
  OBVIOUS
<1>1. CASE Early \/ Onward \/ Ended \/ Aside
  BY <1>1 DEF WritingOnly, Early, Onward, Ended, Aside, Late, merge
<1>2. CASE Truncate \/ CheckFiles
  BY <1>2 DEF WritingOnly, Truncate, CheckFiles, Go, merge
<1>3. CASE ReadPems
  <2>1. << Pem[certs["root"]], Newline, Pem[certs["cert"]] >> # << >>
    OBVIOUS
  <2> QED
    BY <1>3, <2>1 DEF WritingOnly, ReadPems, Go, Newline
<1>4. CASE WriteAll
  BY <1>4, WriteEffect DEF WritingOnly
<1> QED
  BY <1>1, <1>2, <1>3, <1>4, Moves

(* main comes from stage to stage with a file under /tmp that it never     *)
(* writes past its end, and it holds lines to write only in the middle of  *)
(* merge_ca_files (main.rs:210-286, mqtt_options.rs:53-65).                *)
THEOREM StartupTypeCorrect == Spec => []TypeOK
<1> DEFINE Inv == BundleInv /\ WorldOK /\ WritingOnly
<1>1. Init => Inv
  <2> SUFFICES ASSUME Init PROVE Inv
    OBVIOUS
  <2>1. BundleInv
    BY DEF Init, BundleInv, Late
  <2>2. 0 \in 0 .. MaxRenewals /\ 0 \in 0 .. MaxCrashes
    BY StartupAssumption
  <2>3. WorldOK /\ WritingOnly
    BY <2>2 DEF Init, WorldOK, WritingOnly, Stages
  <2> QED
    BY <2>1, <2>3
<1>2. Inv /\ [Next]_vars => Inv'
  BY BundleStep, WorldStep, WritingStep
<1>3. Inv => TypeOK
  <2> SUFFICES ASSUME Inv PROVE TypeOK
    OBVIOUS
  <2>1. bundle = NoFile \/ written <= Len(bundle)
    BY DEF BundleInv
  <2> QED
    BY <2>1 DEF BundleInv, WorldOK, WritingOnly, TypeOK
<1> QED
  BY <1>1, <1>2, <1>3, PTL DEF Spec
=============================================================================
