------------------------------ MODULE RedisUrl ------------------------------
(***************************************************************************)
(* How main puts the Redis credentials into the three Redis URIs, and what *)
(* the redis crate reads back out of the result.  A string is a sequence   *)
(* of its characters, told apart as far as URLs tell them apart: "x"       *)
(* stands for a character that needs no escape, "25", "3A", "40" and "2F"  *)
(* for two such characters each, and "redis://" and "host" for what they   *)
(* say.                                                                    *)
(***************************************************************************)
EXTENDS Naturals, Sequences, SequencesExt

Scheme == "redis://"

IsUrl(url) == url # << >> /\ url[1] = Scheme

(* The reserved characters a credential may hold, and their escapes.       *)
Escape == [ c \in {"%", ":", "@", "/"} |->
  CASE c = "%" -> "25" [] c = ":" -> "3A" [] c = "@" -> "40" [] c = "/" -> "2F" ]

(* External: urlencoding::encode.                                          *)
Encoded(s) ==
  FlattenSeq([ j \in DOMAIN s |-> IF s[j] \in DOMAIN Escape THEN << "%", Escape[s[j]] >>
                                                            ELSE << s[j] >> ])

(* Mutant: the credentials are inserted as they are.                       *)
InsertRaw(uri, username, password) ==
  IF password = << >> \/ ~IsUrl(uri)
    THEN uri
    ELSE << Scheme >> \o username \o << ":" >> \o password \o << "@" >> \o Tail(uri)

(* Credentials go in where there is a password and a scheme.               *)
redis_url_with_credentials(uri, username, password) ==
  IF password = << >> \/ ~IsUrl(uri)
    THEN uri
    ELSE << Scheme >> \o Encoded(username) \o << ":" >> \o Encoded(password) \o << "@" >>
           \o Tail(uri)

-----------------------------------------------------------------------------
(* External: redis::Client::open.                                          *)

(* A percent sign that no escape code follows stands for itself.           *)
Decoded(s) ==
  LET Coded(j) == j > 1 /\ s[j - 1] = "%" /\ \E c \in DOMAIN Escape : Escape[c] = s[j]
      Character(j) == IF Coded(j) THEN << CHOOSE c \in DOMAIN Escape : Escape[c] = s[j] >>
                      ELSE IF j < Len(s) /\ Coded(j + 1) THEN << >>
                      ELSE << s[j] >>
  IN  FlattenSeq([ j \in DOMAIN s |-> Character(j) ])

Before(s, j) == SubSeq(s, 1, j - 1)
After(s, j) == SubSeq(s, j + 1, Len(s))
CutAtFirst(s, c) == LET j == SelectInSeq(s, LAMBDA d : d = c)
                    IN  IF j = 0 THEN << s, << >> >> ELSE << Before(s, j), After(s, j) >>
CutAtLast(s, c) == LET j == SelectLastInSeq(s, LAMBDA d : d = c)
                   IN  << Before(s, j), After(s, j) >>

(* The authority ends at the first slash, its userinfo at the last @; the  *)
(* password begins after the first colon.                                  *)
EndpointOf(url) ==
  LET parts == CutAtFirst(Tail(url), "/")
      authority == CutAtLast(parts[1], "@")
      userinfo == CutAtFirst(authority[1], ":")
  IN  [ username |-> Decoded(userinfo[1]), password |-> Decoded(userinfo[2]),
        host |-> authority[2], database |-> parts[2] ]
=============================================================================
