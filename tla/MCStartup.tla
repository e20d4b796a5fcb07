----------------------------- MODULE MCStartup -----------------------------
(***************************************************************************)
(* Small instances of Startup: two versions of each certificate, of        *)
(* different lengths.                                                      *)
(***************************************************************************)
EXTENDS Startup

MCPem == [ v \in {1, 2} |-> IF v = 1 THEN << "a1", "a2" >> ELSE << "b1" >> ]

Uri(database) == << Scheme, "host", "/", database >>
MCUris == [ online |-> Uri("0"), replay |-> Uri("2"), alarms |-> Uri("3") ]
OwnUris == [ online |-> << Scheme, "x", ":", "%", "40", "@", "host", "/", "0" >>,
             replay |-> << Scheme, "host" >>, alarms |-> Uri("3") ]
BadUris == [ MCUris EXCEPT !.replay = << "host", "/", "2" >> ]

Environment(username, password, uris, tls) ==
  [ redis_username |-> username, redis_password |-> password, uris |-> uris,
    mongodb_parses |-> TRUE, mqtt_tls |-> tls ]

(* Credentials with every reserved character, and with what looks like an  *)
(* escape; URIs that bring credentials of their own or have no scheme, and *)
(* a URL that MongoDB's client does not understand.                        *)
Passwords == { << >>, << "x" >>, << "%", "40" >>, << "@" >>, << ":", "/" >> }

MCEnvironments ==
  { Environment(u, p, MCUris, FALSE) : u \in Passwords, p \in Passwords }
  \cup { Environment(<< "x" >>, << >>, OwnUris, FALSE), Environment(<< "x" >>, << "x" >>, BadUris, FALSE) }
  \cup { [Environment(<< >>, << >>, MCUris, FALSE) EXCEPT !.mongodb_parses = FALSE] }
  \cup { Environment(<< "x" >>, << "x" >>, MCUris, TRUE) }
=============================================================================
