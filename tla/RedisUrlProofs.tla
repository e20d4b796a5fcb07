--------------------------- MODULE RedisUrlProofs ---------------------------
(***************************************************************************)
(* Theorems about RedisUrl, for every string: what urlencoding::encode     *)
(* wrote, the redis crate reads back; and whatever characters the          *)
(* credentials hold, they go into a URL without moving its host or its     *)
(* database.  What is said of every string is proved by induction over its *)
(* length, and the induction, of sets, from the well-foundedness of <.     *)
(***************************************************************************)
EXTENDS RedisUrl, WellFoundedInduction, SequenceTheorems, TLAPS

(* Induction, of sets of numbers and of sets of sequences.                 *)

LEMMA LeastExists ==
  ASSUME NEW T \in SUBSET Nat, T # {}
  PROVE  \E n \in T : \A m \in T : n <= m
<1>1. \E n \in T : \A m \in T : ~ (<< m, n >> \in OpToRel(<, Nat))
  BY NatLessThanWellFounded, WFMin, Zenon
<1>2. \A n, m \in Nat : m < n => << m, n >> \in OpToRel(<, Nat)
  BY Zenon DEF OpToRel
<1>3. \E n \in T : \A m \in T : ~ (m < n)
  BY <1>1, <1>2, Zenon
<1> QED
  BY <1>3

LEMMA SetInduction ==
  ASSUME NEW T \in SUBSET Nat, 0 \in T, \A n \in T : n + 1 \in T
  PROVE  T = Nat
<1> SUFFICES ASSUME T # Nat PROVE FALSE
  OBVIOUS
<1>1. PICK n \in Nat \ T : \A m \in Nat \ T : n <= m
  BY LeastExists
<1>2. n - 1 \in Nat /\ n - 1 \notin Nat \ T
  BY <1>1
<1> QED
  BY <1>1, <1>2

LEMMA SequenceInduction ==
  ASSUME NEW S, NEW T \in SUBSET Seq(S), << >> \in T,
         \A s \in T : \A e \in S : Append(s, e) \in T
  PROVE  T = Seq(S)
<1> DEFINE U == { n \in Nat : \A s \in Seq(S) : Len(s) = n => s \in T }
<1>1. 0 \in U
  <2> SUFFICES ASSUME NEW s \in Seq(S), Len(s) = 0 PROVE s \in T
    OBVIOUS
  <2>1. s = << >>
    BY EmptySeq
  <2> QED
    BY <2>1
<1>2. ASSUME NEW n \in U PROVE n + 1 \in U
  <2>1. n \in Nat
    OBVIOUS
  <2> SUFFICES ASSUME NEW s \in Seq(S), Len(s) = n + 1 PROVE s \in T
    BY <2>1
  <2>2. s # << >>
    BY <2>1
  <2>3. PICK front \in Seq(S), last \in S : s = Append(front, last)
    BY <2>2, SequenceEmptyOrAppend
  <2>4. Len(s) = Len(front) + 1 /\ Len(front) \in Nat
    BY <2>3, AppendProperties
  <2>5. Len(front) = n
    BY <2>1, <2>4
  <2>6. front \in T
    BY <2>5
  <2> QED
    BY <2>3, <2>6
<1>3. U = Nat
  <2> HIDE DEF U
  <2>1. U \in SUBSET Nat
    BY DEF U
  <2> QED
    BY <1>1, <1>2, <2>1, SetInduction
<1>4. ASSUME NEW s \in Seq(S) PROVE s \in T
  <2>1. Len(s) \in U
    BY <1>3
  <2> QED
    BY <2>1
<1> QED
  BY <1>4

-----------------------------------------------------------------------------
(* FlattenSeq, without its recursion.                                      *)

(* g holds the concatenations of the first elements of ss, up to the n-th. *)
Flattening(g, ss, n) ==
  g = [i \in 1 .. n |-> IF i = 1 THEN ss[i] ELSE g[i - 1] \o ss[i]]

LEMMA FlattenAt ==
  ASSUME NEW g, NEW ss, NEW n \in Nat, Flattening(g, ss, n), NEW i \in 1 .. n
  PROVE  g[i] = IF i = 1 THEN ss[i] ELSE g[i - 1] \o ss[i]
BY DEF Flattening

LEMMA FlattenExists ==
  ASSUME NEW S, NEW ss \in Seq(Seq(S))
  PROVE  \A n \in 0 .. Len(ss) :
           \E g : Flattening(g, ss, n) /\ \A i \in 1 .. n : g[i] \in Seq(S)
<1> DEFINE T == { n \in Nat : n <= Len(ss) =>
                   \E g : Flattening(g, ss, n) /\ \A i \in 1 .. n : g[i] \in Seq(S) }
<1>1. 0 \in T
  <2> DEFINE g == [i \in 1 .. 0 |-> << >>]
  <2>1. Flattening(g, ss, 0)
    BY DEF Flattening
  <2> QED
    BY <2>1
<1>2. ASSUME NEW n \in T PROVE n + 1 \in T
  <2>1. n \in Nat
    OBVIOUS
  <2> SUFFICES ASSUME n + 1 <= Len(ss)
               PROVE  \E h : Flattening(h, ss, n + 1) /\ \A i \in 1 .. n + 1 : h[i] \in Seq(S)
    BY <2>1
  <2>2. PICK g : Flattening(g, ss, n) /\ \A i \in 1 .. n : g[i] \in Seq(S)
    BY <2>1
  <2>3. ss[n + 1] \in Seq(S)
    BY <2>1
  <2> DEFINE last == IF n = 0 THEN ss[1] ELSE g[n] \o ss[n + 1]
             h == [i \in 1 .. n + 1 |-> IF i = n + 1 THEN last ELSE g[i]]
  <2>4. last \in Seq(S)
    BY <2>1, <2>2, <2>3
  <2>5. \A i \in 1 .. n : g[i] = IF i = 1 THEN ss[i] ELSE g[i - 1] \o ss[i]
    BY <2>2 DEF Flattening
  <2>6. \A i \in 1 .. n + 1 : h[i] = IF i = 1 THEN ss[i] ELSE h[i - 1] \o ss[i]
    BY <2>1, <2>5
  <2>7. Flattening(h, ss, n + 1)
    BY <2>6 DEF Flattening
  <2>8. \A i \in 1 .. n + 1 : h[i] \in Seq(S)
    BY <2>1, <2>2, <2>4
  <2> QED
    BY <2>7, <2>8
<1>3. T = Nat
  <2> HIDE DEF T
  <2>1. T \in SUBSET Nat
    BY DEF T
  <2> QED
    BY <1>1, <1>2, <2>1, SetInduction
<1> QED
  BY <1>3

LEMMA FlattenUnique ==
  ASSUME NEW ss, NEW tt, NEW g, NEW h, NEW m \in Nat, NEW n \in 0 .. m,
         Flattening(g, ss, n), Flattening(h, tt, m), \A i \in 1 .. n : tt[i] = ss[i]
  PROVE  \A i \in 1 .. n : g[i] = h[i]
<1> DEFINE T == { k \in Nat : k \in 1 .. n => g[k] = h[k] }
<1>2. 0 \in T
  OBVIOUS
<1>3. ASSUME NEW k \in T PROVE k + 1 \in T
  <2>1. k \in Nat /\ n \in Nat
    OBVIOUS
  <2> SUFFICES ASSUME k + 1 \in 1 .. n PROVE g[k + 1] = h[k + 1]
    BY <2>1
  <2> DEFINE j == k + 1
  <2>2. j \in 1 .. n /\ j \in 1 .. m /\ j - 1 = k /\ tt[j] = ss[j]
    BY <2>1
  <2>3. j # 1 => k \in 1 .. n
    BY <2>1
  <2>4. j # 1 => g[k] = h[k]
    BY <2>3
  <2> HIDE DEF j
  <2>5. g[j] = IF j = 1 THEN ss[j] ELSE g[j - 1] \o ss[j]
    BY <2>1, <2>2, FlattenAt
  <2>6. h[j] = IF j = 1 THEN tt[j] ELSE h[j - 1] \o tt[j]
    BY <2>2, FlattenAt
  <2>7. g[j] = h[j]
    BY <2>2, <2>4, <2>5, <2>6, Zenon
  <2> QED
    BY <2>7 DEF j
<1>4. T = Nat
  <2> HIDE DEF T
  <2>1. T \in SUBSET Nat
    BY DEF T
  <2> QED
    BY <1>2, <1>3, <2>1, SetInduction
<1> QED
  <2> SUFFICES ASSUME NEW i \in 1 .. n PROVE g[i] = h[i]
    OBVIOUS
  <2>1. i \in Nat
    OBVIOUS
  <2>2. i \in T
    BY <1>4, <2>1, Zenon
  <2> QED
    BY <2>2

LEMMA FlattenIs ==
  ASSUME NEW S, NEW ss \in Seq(Seq(S)), ss # << >>
  PROVE  \E g : /\ Flattening(g, ss, Len(ss)) /\ FlattenSeq(ss) = g[Len(ss)]
                /\ \A i \in 1 .. Len(ss) : g[i] \in Seq(S)
<1> DEFINE f == CHOOSE g : g = [i \in 1 .. Len(ss) |-> IF i = 1 THEN ss[i] ELSE g[i - 1] \o ss[i]]
<1>1. Len(ss) \in Nat /\ Len(ss) # 0
  BY EmptySeq
<1>2. PICK g : Flattening(g, ss, Len(ss)) /\ \A i \in 1 .. Len(ss) : g[i] \in Seq(S)
  BY <1>1, FlattenExists
<1>3. \E x : x = [i \in 1 .. Len(ss) |-> IF i = 1 THEN ss[i] ELSE x[i - 1] \o ss[i]]
  BY <1>2, Zenon DEF Flattening
<1>4. f = [i \in 1 .. Len(ss) |-> IF i = 1 THEN ss[i] ELSE f[i - 1] \o ss[i]]
  BY <1>3, Zenon
<1>5. FlattenSeq(ss) = f[Len(ss)]
  BY <1>1, Zenon DEF FlattenSeq
<1> HIDE DEF f
<1>6. Flattening(f, ss, Len(ss))
  BY <1>4 DEF Flattening
<1>7. \A i \in 1 .. Len(ss) : g[i] = f[i]
  BY <1>1, <1>2, <1>6, FlattenUnique
<1> QED
  BY <1>2, <1>5, <1>6, <1>7

LEMMA FlattenAppend ==
  ASSUME NEW S, NEW ss \in Seq(Seq(S)), NEW s \in Seq(S)
  PROVE  /\ FlattenSeq(ss) \in Seq(S)
         /\ FlattenSeq(Append(ss, s)) = FlattenSeq(ss) \o s
<1> DEFINE tt == Append(ss, s)
<1>1. /\ tt \in Seq(Seq(S)) /\ tt # << >> /\ Len(tt) = Len(ss) + 1
      /\ \A i \in 1 .. Len(ss) : tt[i] = ss[i]
      /\ tt[Len(ss) + 1] = s
      /\ Len(ss) \in Nat
  BY AppendProperties
<1> HIDE DEF tt
<1>2. PICK h : /\ Flattening(h, tt, Len(tt)) /\ FlattenSeq(tt) = h[Len(tt)]
               /\ \A i \in 1 .. Len(tt) : h[i] \in Seq(S)
  BY <1>1, FlattenIs
<1>3. h[Len(tt)] = IF Len(tt) = 1 THEN s ELSE h[Len(ss)] \o s
  <2>1. Len(tt) \in Nat /\ Len(tt) \in 1 .. Len(tt) /\ Len(tt) - 1 = Len(ss) /\ tt[Len(tt)] = s
    BY <1>1
  <2>2. h[Len(tt)] = IF Len(tt) = 1 THEN tt[Len(tt)] ELSE h[Len(tt) - 1] \o tt[Len(tt)]
    BY <1>2, <2>1, FlattenAt
  <2> QED
    BY <2>1, <2>2, Zenon
<1>4. CASE ss = << >>
  <2>1. FlattenSeq(ss) = << >>
    BY <1>4 DEF FlattenSeq
  <2>2. Len(ss) = 0
    BY <1>4
  <2>3. FlattenSeq(tt) = s
    BY <1>1, <1>2, <1>3, <2>2
  <2> QED
    BY <2>1, <2>3 DEF tt
<1>5. CASE ss # << >>
  <2>1. PICK g : /\ Flattening(g, ss, Len(ss)) /\ FlattenSeq(ss) = g[Len(ss)]
                 /\ \A i \in 1 .. Len(ss) : g[i] \in Seq(S)
    BY <1>5, FlattenIs
  <2>2. Len(ss) \in 1 .. Len(ss) /\ Len(ss) # 0
    BY <1>1, <1>5, EmptySeq
  <2>3. g[Len(ss)] = h[Len(ss)]
    <3> DEFINE m == Len(tt)
               n == Len(ss)
    <3>1. n \in 0 .. m /\ m \in Nat
      BY <1>1
    <3>2. \A i \in 1 .. n : tt[i] = ss[i]
      BY <1>1
    <3>3. Flattening(g, ss, n) /\ Flattening(h, tt, m)
      BY <1>2, <2>1
    <3> HIDE DEF m, n
    <3>4. \A i \in 1 .. n : g[i] = h[i]
      BY <3>1, <3>2, <3>3, FlattenUnique, Z3
    <3>5. \A i \in 1 .. Len(ss) : g[i] = h[i]
      BY <3>4 DEF n
    <3> QED
      BY <2>2, <3>5
  <2>4. FlattenSeq(tt) = FlattenSeq(ss) \o s
    BY <1>1, <1>2, <1>3, <2>1, <2>2, <2>3
  <2> QED
    BY <2>1, <2>2, <2>4 DEF tt
<1> QED
  BY <1>4, <1>5

-----------------------------------------------------------------------------
(* Encoding.                                                               *)

(* The characters of .env and of what Encoded makes of them.               *)
Reserved == {"%", ":", "@", "/"}
Codes == {"25", "3A", "40", "2F"}
Chars == STRING \cup Reserved \cup Codes \cup {Scheme}

(* What Encoded makes of one character.                                    *)
EscapedChar(c) == IF c \in DOMAIN Escape THEN << "%", Escape[c] >> ELSE << c >>

(* The table of the escapes can be read backwards, and no escape code is a *)
(* reserved character.                                                     *)
LEMMA EscapeTable ==
  /\ DOMAIN Escape = Reserved
  /\ \A c \in Reserved : Escape[c] \in Codes
  /\ \A c, d \in Reserved : Escape[c] = Escape[d] => c = d
  /\ Codes \cap Reserved = {}
BY DEF Escape, Reserved, Codes

LEMMA EscapedTyped ==
  ASSUME NEW c \in Chars
  PROVE  EscapedChar(c) \in Seq(Chars)
<1>1. << c >> \in Seq(Chars)
  OBVIOUS
<1>2. CASE c \in DOMAIN Escape
  <2>1. Escape[c] \in Chars /\ "%" \in Chars
    BY <1>2, EscapeTable DEF Chars, Reserved
  <2>2. << "%", Escape[c] >> \in Seq(Chars)
    BY <2>1
  <2> QED
    BY <1>2, <2>2 DEF EscapedChar
<1> QED
  BY <1>1, <1>2 DEF EscapedChar

LEMMA EncodedEmpty == Encoded(<< >>) = << >>
<1>1. Encoded(<< >>) = FlattenSeq([j \in DOMAIN << >> |-> EscapedChar(<< >>[j])])
  BY DEF Encoded, EscapedChar
<1>2. [j \in DOMAIN << >> |-> EscapedChar(<< >>[j])] = << >>
  OBVIOUS
<1>3. FlattenSeq(<< >>) = << >>
  BY DEF FlattenSeq
<1> QED
  BY <1>1, <1>2, <1>3

LEMMA EncodedAppend ==
  ASSUME NEW s \in Seq(Chars), NEW c \in Chars
  PROVE  /\ Encoded(s) \in Seq(Chars)
         /\ Encoded(Append(s, c)) = Encoded(s) \o EscapedChar(c)
<1> DEFINE e(t) == [j \in DOMAIN t |-> EscapedChar(t[j])]
           t == Append(s, c)
<1>1. Encoded(s) = FlattenSeq(e(s)) /\ Encoded(t) = FlattenSeq(e(t))
  BY Zenon DEF Encoded, EscapedChar
<1>2. e(s) \in Seq(Seq(Chars))
  <2>1. \A j \in DOMAIN s : EscapedChar(s[j]) \in Seq(Chars)
    BY EscapedTyped
  <2> QED
    BY <2>1
<1>3. e(t) = Append(e(s), EscapedChar(c))
  <2>1. /\ Len(s) \in Nat /\ DOMAIN s = 1 .. Len(s) /\ DOMAIN t = 1 .. Len(s) + 1
        /\ t[Len(s) + 1] = c /\ \A j \in 1 .. Len(s) : t[j] = s[j]
    BY AppendProperties
  <2>2. EscapedChar(c) \in Seq(Chars)
    BY EscapedTyped
  <2> QED
    BY <1>2, <2>1, <2>2
<1>4. EscapedChar(c) \in Seq(Chars)
  BY EscapedTyped
<1> QED
  BY <1>1, <1>2, <1>3, <1>4, FlattenAppend

-----------------------------------------------------------------------------
(* Decoding.                                                               *)

(* What Decoded makes of one character: its local definitions, with the    *)
(* string as a parameter.                                                  *)
Coded(s, j) == j > 1 /\ s[j - 1] = "%" /\ \E c \in DOMAIN Escape : Escape[c] = s[j]

Unescaped(x) == CHOOSE c \in DOMAIN Escape : Escape[c] = x

Character(s, j) ==
  IF Coded(s, j) THEN << Unescaped(s[j]) >>
  ELSE IF j < Len(s) /\ Coded(s, j + 1) THEN << >>
  ELSE << s[j] >>

LEMMA DecodedIs ==
  ASSUME NEW s
  PROVE  Decoded(s) = FlattenSeq([j \in DOMAIN s |-> Character(s, j)])
BY Zenon DEF Decoded, Character, Coded, Unescaped

LEMMA CharacterTyped ==
  ASSUME NEW s \in Seq(Chars), NEW j \in DOMAIN s
  PROVE  Character(s, j) \in Seq(Chars)
<1>1. s[j] \in Chars /\ << >> \in Seq(Chars)
  OBVIOUS
<1>2. << s[j] >> \in Seq(Chars)
  BY <1>1
<1>3. CASE Coded(s, j)
  <2>1. Unescaped(s[j]) \in Reserved
    BY <1>3, EscapeTable DEF Coded, Unescaped
  <2>2. Unescaped(s[j]) \in Chars
    BY <2>1 DEF Chars
  <2>3. << Unescaped(s[j]) >> \in Seq(Chars)
    BY <2>2
  <2> QED
    BY <1>3, <2>3 DEF Character
<1> QED
  BY <1>1, <1>2, <1>3 DEF Character

(* The string does not end in a percent sign: what is appended to it is    *)
(* read for itself.                                                        *)
Closed(s) == s = << >> \/ s[Len(s)] # "%"

LEMMA DecodedAppend ==
  ASSUME NEW s \in Seq(Chars), NEW c \in Chars, Closed(s)
  PROVE  Decoded(Append(s, c)) = Decoded(s) \o << c >>
<1> DEFINE t == Append(s, c)
           d(u) == [j \in DOMAIN u |-> Character(u, j)]
<1>1. /\ Len(s) \in Nat /\ DOMAIN s = 1 .. Len(s) /\ DOMAIN t = 1 .. Len(s) + 1
      /\ Len(t) = Len(s) + 1 /\ t[Len(s) + 1] = c /\ \A j \in 1 .. Len(s) : t[j] = s[j]
      /\ t \in Seq(Chars)
  BY AppendProperties
<1> HIDE DEF t
<1>2. ~ Coded(t, Len(s) + 1)
  BY <1>1 DEF Closed, Coded
<1>3. Character(t, Len(s) + 1) = << c >>
  BY <1>1, <1>2 DEF Character
<1>4. ASSUME NEW j \in 1 .. Len(s) PROVE Character(t, j) = Character(s, j)
  <2>1. Coded(t, j) = Coded(s, j)
    BY <1>1 DEF Coded
  <2>2. (j < Len(t) /\ Coded(t, j + 1)) = (j < Len(s) /\ Coded(s, j + 1))
    BY <1>1, <1>2 DEF Coded
  <2>3. t[j] = s[j]
    BY <1>1
  <2> QED
    BY <2>1, <2>2, <2>3 DEF Character
<1>5. d(s) \in Seq(Seq(Chars)) /\ << c >> \in Seq(Chars)
  BY CharacterTyped
<1>6. d(t) = Append(d(s), << c >>)
  BY <1>1, <1>3, <1>4, <1>5
<1>7. Decoded(t) = FlattenSeq(d(t)) /\ Decoded(s) = FlattenSeq(d(s))
  BY DecodedIs
<1> QED
  BY <1>5, <1>6, <1>7, FlattenAppend DEF t

LEMMA DecodedEmpty == Decoded(<< >>) = << >>
<1>1. [j \in DOMAIN << >> |-> Character(<< >>, j)] = << >>
  OBVIOUS
<1>2. FlattenSeq(<< >>) = << >>
  BY DEF FlattenSeq
<1> QED
  BY <1>1, <1>2, DecodedIs

LEMMA DecodedTyped ==
  ASSUME NEW s \in Seq(Chars)
  PROVE  Decoded(s) \in Seq(Chars)
<1> DEFINE d == [j \in DOMAIN s |-> Character(s, j)]
<1>1. d \in Seq(Seq(Chars))
  BY CharacterTyped
<1>2. << >> \in Seq(Chars)
  OBVIOUS
<1>3. Decoded(s) = FlattenSeq(d)
  BY DecodedIs
<1> HIDE DEF d
<1> QED
  BY <1>1, <1>2, <1>3, FlattenAppend

LEMMA DecodedAppendCode ==
  ASSUME NEW s \in Seq(Chars), NEW c \in Reserved, Closed(s)
  PROVE  Decoded(s \o << "%", Escape[c] >>) = Decoded(s) \o << c >>
<1> DEFINE n == Len(s)
           t == s \o << "%", Escape[c] >>
           d(u) == [j \in DOMAIN u |-> Character(u, j)]
<1>0. "%" \in Chars /\ Escape[c] \in Chars /\ c \in Chars
  BY EscapeTable DEF Chars, Reserved
<1>1. /\ n \in Nat /\ DOMAIN s = 1 .. n /\ DOMAIN t = 1 .. n + 2
      /\ Len(t) = n + 2 /\ t[n + 1] = "%" /\ t[n + 2] = Escape[c]
      /\ \A j \in 1 .. n : t[j] = s[j]
      /\ t \in Seq(Chars)
  <2>1. << "%", Escape[c] >> \in Seq(Chars)
    BY <1>0
  <2> QED
    BY <2>1
<1> HIDE DEF t
<1>2. ~ Coded(t, n + 1)
  <2>1. "%" \notin Codes
    BY DEF Codes
  <2>2. t[n + 1] = "%" /\ \A e \in DOMAIN Escape : Escape[e] # "%"
    BY <1>1, <2>1, EscapeTable
  <2> QED
    BY <2>2, Zenon DEF Coded
<1>3. Coded(t, n + 2) /\ n + 1 < Len(t)
  <2>1. n + 2 > 1 /\ n + 2 - 1 = n + 1
    BY <1>1
  <2>2. c \in DOMAIN Escape /\ Escape[c] = t[n + 2]
    BY <1>1, EscapeTable
  <2> QED
    BY <1>1, <2>1, <2>2 DEF Coded
<1>4. Character(t, n + 1) = << >>
  <2>1. n + 1 + 1 = n + 2
    BY <1>1
  <2> QED
    BY <1>2, <1>3, <2>1 DEF Character
<1>5. Character(t, n + 2) = << c >>
  <2>1. Unescaped(t[n + 2]) = c
    BY <1>1, EscapeTable DEF Unescaped
  <2> QED
    BY <1>3, <2>1 DEF Character
<1>6. ASSUME NEW j \in 1 .. n PROVE Character(t, j) = Character(s, j)
  <2>1. Coded(t, j) = Coded(s, j)
    BY <1>1 DEF Coded
  <2>2. (j < Len(t) /\ Coded(t, j + 1)) = (j < Len(s) /\ Coded(s, j + 1))
    BY <1>1, <1>2 DEF Coded
  <2>3. t[j] = s[j]
    BY <1>1
  <2> QED
    BY <2>1, <2>2, <2>3 DEF Character
<1>7. /\ d(s) \in Seq(Seq(Chars)) /\ << c >> \in Seq(Chars) /\ << >> \in Seq(Chars)
  BY <1>0, CharacterTyped
<1>8. d(t) = Append(Append(d(s), << >>), << c >>)
  BY <1>1, <1>4, <1>5, <1>6, <1>7
<1>9. Append(d(s), << >>) \in Seq(Seq(Chars))
  BY <1>7
<1>10. Decoded(t) = FlattenSeq(d(t)) /\ Decoded(s) = FlattenSeq(d(s))
  BY DecodedIs
<1>11. Decoded(t) = (Decoded(s) \o << >>) \o << c >>
  <2> HIDE DEF d
  <2>1. FlattenSeq(Append(d(s), << >>)) = FlattenSeq(d(s)) \o << >>
    BY <1>7, FlattenAppend
  <2>2. FlattenSeq(Append(Append(d(s), << >>), << c >>))
          = FlattenSeq(Append(d(s), << >>)) \o << c >>
    BY <1>7, <1>9, FlattenAppend
  <2> QED
    BY <1>8, <1>10, <2>1, <2>2, Zenon
<1>12. Decoded(s) \o << >> = Decoded(s)
  BY DecodedTyped, ConcatEmptySeq
<1> QED
  BY <1>11, <1>12 DEF t

-----------------------------------------------------------------------------
(* What was encoded is read back.                                          *)

(* No character of the string is c.                                        *)
Without(s, c) == \A j \in DOMAIN s : s[j] # c

(* The encoded string is read back as it was, and no character of it ends  *)
(* a part of a URL.                                                        *)
Faithful(s) ==
  /\ Closed(Encoded(s))
  /\ Decoded(Encoded(s)) = s
  /\ \A c \in {":", "@", "/"} : Without(Encoded(s), c)

LEMMA WithoutAppend ==
  ASSUME NEW s \in Seq(Chars), NEW t \in Seq(Chars), NEW c, Without(s, c), Without(t, c)
  PROVE  Without(s \o t, c)
<1> SUFFICES ASSUME NEW j \in DOMAIN (s \o t) PROVE (s \o t)[j] # c
  BY DEF Without
<1>1. /\ j \in 1 .. Len(s) + Len(t) /\ Len(s) \in Nat /\ Len(t) \in Nat
      /\ DOMAIN s = 1 .. Len(s) /\ DOMAIN t = 1 .. Len(t)
  OBVIOUS
<1>2. (s \o t)[j] = IF j <= Len(s) THEN s[j] ELSE t[j - Len(s)]
  BY <1>1
<1> QED
  BY <1>1, <1>2 DEF Without

(* Every string that urlencoding::encode has encoded (main.rs:172-173) is  *)
(* read back as it was, and holds none of the characters that end the      *)
(* password, the userinfo or the authority.                                *)
THEOREM EncodedFaithful == \A s \in Seq(Chars) : Faithful(s)
<1> DEFINE T == { s \in Seq(Chars) : Faithful(s) }
<1>1. << >> \in T
  BY EncodedEmpty, DecodedEmpty DEF Faithful, Closed, Without
<1>2. ASSUME NEW s \in T, NEW c \in Chars PROVE Append(s, c) \in T
  <2> DEFINE e == Encoded(s)
             x == EscapedChar(c)
  <2>1. s \in Seq(Chars) /\ Faithful(s)
    OBVIOUS
  <2>2. e \in Seq(Chars) /\ x \in Seq(Chars) /\ Encoded(Append(s, c)) = e \o x
    BY <2>1, EncodedAppend, EscapedTyped
  <2>3. Closed(e) /\ Decoded(e) = s /\ \A b \in {":", "@", "/"} : Without(e, b)
    BY <2>1 DEF Faithful
  <2>4. /\ Decoded(e \o x) = s \o << c >> /\ x # << >> /\ x[Len(x)] # "%"
        /\ \A b \in {":", "@", "/"} : Without(x, b)
    <3>1. CASE c \in Reserved
      <4>1. x = << "%", Escape[c] >> /\ Escape[c] \in Codes
        BY <3>1, EscapeTable DEF EscapedChar
      <4>2. Decoded(e \o x) = s \o << c >>
        BY <2>2, <2>3, <3>1, <4>1, DecodedAppendCode
      <4> HIDE DEF x
      <4>3. x # << >> /\ x[Len(x)] # "%" /\ \A b \in {":", "@", "/"} : Without(x, b)
        BY <4>1 DEF Without, Codes
      <4> QED
        BY <4>2, <4>3
    <3>2. CASE c \notin Reserved
      <4>1. x = << c >>
        BY <3>2, EscapeTable DEF EscapedChar
      <4>2. e \o x = Append(e, c)
        BY <2>2, <4>1
      <4>3. Decoded(e \o x) = s \o << c >>
        BY <2>2, <2>3, <4>2, DecodedAppend
      <4> HIDE DEF x
      <4>4. x # << >> /\ x[Len(x)] # "%" /\ \A b \in {":", "@", "/"} : Without(x, b)
        BY <3>2, <4>1 DEF Without, Reserved
      <4> QED
        BY <4>3, <4>4
    <3> QED
      BY <3>1, <3>2
  <2> HIDE DEF e, x
  <2>5. \A b \in {":", "@", "/"} : Without(e \o x, b)
    BY <2>2, <2>3, <2>4, WithoutAppend
  <2>6. Closed(e \o x)
    <3>1. Len(x) \in Nat \ {0} /\ Len(e) \in Nat /\ Len(e \o x) = Len(e) + Len(x)
      BY <2>2, <2>4
    <3>2. (e \o x)[Len(e \o x)] = x[Len(x)]
      BY <2>2, <3>1
    <3> QED
      BY <2>4, <3>2 DEF Closed
  <2>7. Append(s, c) = s \o << c >>
    BY <2>1, AppendIsConcat
  <2>8. Faithful(Append(s, c))
    BY <2>2, <2>4, <2>5, <2>6, <2>7 DEF Faithful
  <2>9. Append(s, c) \in Seq(Chars)
    BY <2>1
  <2> QED
    BY <2>8, <2>9
<1>3. T = Seq(Chars)
  <2> HIDE DEF T
  <2>1. T \in SUBSET Seq(Chars)
    BY DEF T
  <2> QED
    BY <1>1, <1>2, <2>1, SequenceInduction
<1> QED
  BY <1>3

-----------------------------------------------------------------------------
(* Where a string is cut.                                                  *)

LEMMA MaxIs ==
  ASSUME NEW I \in SUBSET Nat, NEW j \in I, \A i \in I : j >= i
  PROVE  Max(I) = j
<1>1. \E x \in I : \A y \in I : x >= y
  OBVIOUS
<1>2. Max(I) \in I /\ \A y \in I : Max(I) >= y
  BY <1>1, Zenon DEF Max
<1> DEFINE k == Max(I)
<1> HIDE DEF k
<1>3. k \in I /\ \A i \in I : k >= i
  BY <1>2, Zenon DEF k
<1>4. k = j
  BY <1>3
<1> QED
  BY <1>4 DEF k

LEMMA MinIs ==
  ASSUME NEW I \in SUBSET Nat, NEW j \in I, \A i \in I : j <= i
  PROVE  Min(I) = j
<1>1. \E x \in I : \A y \in I : x <= y
  OBVIOUS
<1>2. Min(I) \in I /\ \A y \in I : Min(I) <= y
  BY <1>1, Zenon DEF Min
<1> DEFINE k == Min(I)
<1> HIDE DEF k
<1>3. k \in I /\ \A i \in I : k <= i
  BY <1>2, Zenon DEF k
<1>4. k = j
  BY <1>3
<1> QED
  BY <1>4 DEF k

LEMMA CutAtFirstIs ==
  ASSUME NEW s \in Seq(Chars), NEW c, NEW j \in 1 .. Len(s), s[j] = c,
         \A i \in 1 .. j - 1 : s[i] # c
  PROVE  CutAtFirst(s, c) = << Before(s, j), After(s, j) >>
<1> DEFINE I == { i \in 1 .. Len(s) : s[i] = c }
<1>1. j \in I /\ \A i \in I : j <= i
  OBVIOUS
<1>2. Min(I) = j
  <2> HIDE DEF I
  <2>1. I \in SUBSET Nat
    BY DEF I
  <2> QED
    BY <1>1, <2>1, MinIs
<1>3. SelectInSeq(s, LAMBDA d : d = c) = j
  BY <1>1, <1>2 DEF SelectInSeq
<1> QED
  BY <1>3 DEF CutAtFirst

LEMMA CutAtFirstNone ==
  ASSUME NEW s \in Seq(Chars), NEW c, Without(s, c)
  PROVE  CutAtFirst(s, c) = << s, << >> >>
<1>1. { i \in 1 .. Len(s) : s[i] = c } = {}
  BY DEF Without
<1>2. SelectInSeq(s, LAMBDA d : d = c) = 0
  BY <1>1 DEF SelectInSeq
<1> QED
  BY <1>2 DEF CutAtFirst

LEMMA CutAtLastIs ==
  ASSUME NEW s \in Seq(Chars), NEW c, NEW j \in 1 .. Len(s), s[j] = c,
         \A i \in j + 1 .. Len(s) : s[i] # c
  PROVE  CutAtLast(s, c) = << Before(s, j), After(s, j) >>
<1> DEFINE I == { i \in 1 .. Len(s) : s[i] = c }
<1>1. j \in I /\ \A i \in I : j >= i
  OBVIOUS
<1>2. Max(I) = j
  <2> HIDE DEF I
  <2>1. I \in SUBSET Nat
    BY DEF I
  <2> QED
    BY <1>1, <2>1, MaxIs
<1>3. SelectLastInSeq(s, LAMBDA d : d = c) = j
  BY <1>1, <1>2 DEF SelectLastInSeq
<1> QED
  BY <1>3 DEF CutAtLast

LEMMA CutAtLastNone ==
  ASSUME NEW s \in Seq(Chars), NEW c, Without(s, c)
  PROVE  CutAtLast(s, c) = << << >>, s >>
<1>1. { i \in 1 .. Len(s) : s[i] = c } = {}
  BY DEF Without
<1>2. SelectLastInSeq(s, LAMBDA d : d = c) = 0
  BY <1>1 DEF SelectLastInSeq
<1>3. Before(s, 0) = << >> /\ After(s, 0) = s
  BY DEF Before, After
<1> QED
  BY <1>2, <1>3 DEF CutAtLast

(* A character between two strings, and what stands on each side.          *)
LEMMA Around ==
  ASSUME NEW p \in Seq(Chars), NEW c \in Chars, NEW q \in Seq(Chars)
  PROVE  LET s == p \o << c >> \o q
             j == Len(p) + 1
         IN  /\ s \in Seq(Chars) /\ Len(s) = j + Len(q) /\ j \in 1 .. Len(s) /\ s[j] = c
             /\ \A i \in 1 .. j - 1 : s[i] = p[i]
             /\ \A i \in j + 1 .. Len(s) : i - j \in DOMAIN q /\ s[i] = q[i - j]
             /\ Before(s, j) = p /\ After(s, j) = q
<1> DEFINE s == p \o << c >> \o q
           j == Len(p) + 1
<1>1. /\ Len(p) \in Nat /\ Len(q) \in Nat /\ s \in Seq(Chars) /\ Len(s) = Len(p) + 1 + Len(q)
      /\ \A i \in 1 .. Len(p) : s[i] = p[i]
      /\ s[j] = c
      /\ \A i \in 1 .. Len(q) : s[j + i] = q[i]
  OBVIOUS
<1> HIDE DEF s
<1>2. \A i \in j + 1 .. Len(s) : i - j \in DOMAIN q /\ s[i] = q[i - j]
  <2> SUFFICES ASSUME NEW i \in j + 1 .. Len(s) PROVE i - j \in DOMAIN q /\ s[i] = q[i - j]
    OBVIOUS
  <2>1. i - j \in 1 .. Len(q) /\ j + (i - j) = i
    BY <1>1
  <2> QED
    BY <1>1, <2>1
<1>3. Before(s, j) = p
  <2>1. j - 1 = Len(p)
    BY <1>1
  <2>2. SubSeq(s, 1, Len(p)) = p
    BY <1>1
  <2> QED
    BY <2>1, <2>2 DEF Before
<1>4. After(s, j) = q
  <2>1. Len(s) - (j + 1) + 1 = Len(q) /\ j + 1 \in Int /\ Len(s) \in Int
    BY <1>1
  <2>2. \A i \in 1 .. Len(q) : s[j + 1 + i - 1] = q[i]
    BY <1>1
  <2>3. \A i \in j + 1 .. Len(s) : s[i] \in Chars
    BY <1>1
  <2>4. /\ SubSeq(s, j + 1, Len(s)) \in Seq(Chars)
        /\ Len(SubSeq(s, j + 1, Len(s))) = Len(q)
        /\ \A i \in 1 .. Len(q) : SubSeq(s, j + 1, Len(s))[i] = q[i]
    BY <1>1, <2>1, <2>2, <2>3, SubSeqProperties
  <2>5. SubSeq(s, j + 1, Len(s)) = q
    BY <2>4, SeqEqual
  <2> QED
    BY <2>5 DEF After
<1> QED
  BY <1>1, <1>2, <1>3, <1>4 DEF s

LEMMA SplitAtFirst ==
  ASSUME NEW p \in Seq(Chars), NEW c \in Chars, NEW q \in Seq(Chars), Without(p, c)
  PROVE  CutAtFirst(p \o << c >> \o q, c) = << p, q >>
<1> DEFINE s == p \o << c >> \o q
           j == Len(p) + 1
<1>1. /\ s \in Seq(Chars) /\ j \in 1 .. Len(s) /\ s[j] = c
      /\ \A i \in 1 .. j - 1 : s[i] = p[i]
      /\ Before(s, j) = p /\ After(s, j) = q
  BY Around
<1>2. \A i \in 1 .. j - 1 : s[i] # c
  BY <1>1 DEF Without
<1> HIDE DEF s, j
<1>3. CutAtFirst(s, c) = << Before(s, j), After(s, j) >>
  BY <1>1, <1>2, CutAtFirstIs
<1> QED
  BY <1>1, <1>3 DEF s

LEMMA SplitAtLast ==
  ASSUME NEW p \in Seq(Chars), NEW c \in Chars, NEW q \in Seq(Chars), Without(q, c)
  PROVE  CutAtLast(p \o << c >> \o q, c) = << p, q >>
<1> DEFINE s == p \o << c >> \o q
           j == Len(p) + 1
<1>1. /\ s \in Seq(Chars) /\ j \in 1 .. Len(s) /\ s[j] = c
      /\ \A i \in j + 1 .. Len(s) : i - j \in DOMAIN q /\ s[i] = q[i - j]
      /\ Before(s, j) = p /\ After(s, j) = q
  BY Around
<1> HIDE DEF s, j
<1>2. \A i \in j + 1 .. Len(s) : s[i] # c
  BY <1>1 DEF Without
<1>3. CutAtLast(s, c) = << Before(s, j), After(s, j) >>
  BY <1>1, <1>2, CutAtLastIs
<1> QED
  BY <1>1, <1>3 DEF s

LEMMA FirstOccurrence ==
  ASSUME NEW s \in Seq(Chars), NEW c \in Chars, ~Without(s, c)
  PROVE  \E p, q \in Seq(Chars) : s = p \o << c >> \o q /\ Without(p, c)
<1> DEFINE I == { i \in DOMAIN s : s[i] = c }
<1>1. Len(s) \in Nat /\ DOMAIN s = 1 .. Len(s)
  OBVIOUS
<1>2. I \in SUBSET Nat /\ I # {}
  BY <1>1 DEF Without
<1>3. PICK j \in I : \A i \in I : j <= i
  BY <1>2, LeastExists
<1>4. /\ j \in 1 .. Len(s) /\ s[j] = c /\ \A i \in 1 .. j - 1 : s[i] # c
  BY <1>1, <1>3
<1> DEFINE p == SubSeq(s, 1, j - 1)
           q == SubSeq(s, j + 1, Len(s))
<1>5. /\ p \in Seq(Chars) /\ Len(p) = j - 1 /\ \A i \in 1 .. j - 1 : p[i] = s[i]
      /\ q \in Seq(Chars) /\ Len(q) = Len(s) - j /\ \A i \in 1 .. Len(s) - j : q[i] = s[j + i]
  BY <1>1, <1>4
<1> HIDE DEF p, q
<1>6. Without(p, c)
  <2>1. DOMAIN p = 1 .. j - 1
    BY <1>5
  <2> QED
    BY <1>4, <1>5, <2>1 DEF Without
<1>7. s = p \o << c >> \o q
  <2> DEFINE t == p \o << c >> \o q
  <2>1. /\ t \in Seq(Chars) /\ Len(t) = j + Len(q) /\ t[j] = c
        /\ \A i \in 1 .. j - 1 : t[i] = p[i]
        /\ \A i \in j + 1 .. Len(t) : t[i] = q[i - j]
    <3> DEFINE k == Len(p) + 1
    <3>1. k = j
      BY <1>4, <1>5
    <3>2. p \in Seq(Chars) /\ q \in Seq(Chars) /\ c \in Chars
      BY <1>5
    <3>3. /\ t \in Seq(Chars) /\ Len(t) = k + Len(q) /\ t[k] = c
          /\ \A i \in 1 .. k - 1 : t[i] = p[i]
          /\ \A i \in k + 1 .. Len(t) : t[i] = q[i - k]
      BY <3>2, Around
    <3> HIDE DEF t, k
    <3> QED
      BY <3>1, <3>3, Zenon
  <2> HIDE DEF t
  <2>2. Len(t) = Len(s)
    BY <1>1, <1>4, <1>5, <2>1
  <2>3. ASSUME NEW i \in 1 .. Len(s) PROVE s[i] = t[i]
    <3>1. CASE i < j
      <4>1. i \in 1 .. j - 1
        BY <1>1, <1>4, <3>1
      <4> QED
        BY <1>5, <2>1, <4>1
    <3>2. CASE i = j
      BY <1>4, <2>1, <3>2
    <3>3. CASE i > j
      <4>1. i - j \in 1 .. Len(s) - j /\ j + (i - j) = i /\ i \in j + 1 .. Len(t)
        BY <1>1, <1>4, <2>2, <3>3
      <4> QED
        BY <1>5, <2>1, <4>1
    <3> QED
      BY <1>1, <1>4, <3>1, <3>2, <3>3
  <2>4. s = t
    BY <2>1, <2>2, <2>3, SeqEqual
  <2> QED
    BY <2>4 DEF t
<1> QED
  BY <1>5, <1>6, <1>7

LEMMA Associative == \A s1, s2, s3 \in Seq(Chars) : s1 \o (s2 \o s3) = s1 \o s2 \o s3
BY ConcatAssociative

(* What is put in front of a string, and holds no c, does not move its     *)
(* cut.                                                                    *)
LEMMA CutBehind ==
  ASSUME NEW p \in Seq(Chars), NEW c \in Chars, NEW t \in Seq(Chars), Without(p, c)
  PROVE  \E a, b \in Seq(Chars) :
           CutAtFirst(t, c) = << a, b >> /\ CutAtFirst(p \o t, c) = << p \o a, b >>
<1>1. CASE Without(t, c)
  <2>1. CutAtFirst(t, c) = << t, << >> >> /\ << >> \in Seq(Chars)
    BY <1>1, CutAtFirstNone
  <2>2. p \o t \in Seq(Chars) /\ Without(p \o t, c)
    BY <1>1, WithoutAppend
  <2>3. CutAtFirst(p \o t, c) = << p \o t, << >> >>
    BY <2>2, CutAtFirstNone
  <2> QED
    BY <2>1, <2>3, Zenon
<1>2. CASE ~Without(t, c)
  <2>1. PICK a, b \in Seq(Chars) : t = a \o << c >> \o b /\ Without(a, c)
    BY <1>2, FirstOccurrence
  <2>2. CutAtFirst(t, c) = << a, b >>
    BY <2>1, SplitAtFirst
  <2>3. p \o a \in Seq(Chars) /\ Without(p \o a, c)
    BY <2>1, WithoutAppend
  <2>4. CutAtFirst((p \o a) \o << c >> \o b, c) = << p \o a, b >>
    BY <2>1, <2>3, SplitAtFirst
  <2>5. p \o t = (p \o a) \o << c >> \o b
    <3> DEFINE m == a \o << c >>
    <3>1. << c >> \in Seq(Chars) /\ m \in Seq(Chars)
      BY <2>1
    <3>2. p \o m = p \o a \o << c >>
      BY <3>1, Associative, Zenon
    <3>3. t = m \o b
      BY <2>1
    <3> HIDE DEF m
    <3>4. p \o (m \o b) = p \o m \o b
      BY <3>1, Associative, Zenon
    <3> QED
      BY <3>2, <3>3, <3>4, Zenon
  <2>6. CutAtFirst(p \o t, c) = << p \o a, b >>
    BY <2>4, <2>5, Zenon
  <2> QED
    BY <2>2, <2>6, Zenon
<1> QED
  BY <1>1, <1>2

-----------------------------------------------------------------------------
(* The URL with credentials.                                               *)

(* The URI brings no userinfo of its own.                                  *)
NoUserinfo(uri) == Without(CutAtFirst(Tail(uri), "/")[1], "@")

(* EndpointOf, from the three cuts.                                        *)
LEMMA Parts ==
  ASSUME NEW url, NEW authority, NEW database, NEW userinfo, NEW host, NEW username, NEW password,
         CutAtFirst(Tail(url), "/") = << authority, database >>,
         CutAtLast(authority, "@") = << userinfo, host >>,
         CutAtFirst(userinfo, ":") = << username, password >>
  PROVE  EndpointOf(url) =
           [ username |-> Decoded(username), password |-> Decoded(password),
             host |-> host, database |-> database ]
<1> DEFINE parts == CutAtFirst(Tail(url), "/")
           cut == CutAtLast(parts[1], "@")
           names == CutAtFirst(cut[1], ":")
<1>1. EndpointOf(url) = [ username |-> Decoded(names[1]), password |-> Decoded(names[2]),
                          host |-> cut[2], database |-> parts[2] ]
  BY Zenon DEF EndpointOf
<1>2. parts[1] = authority /\ parts[2] = database
  OBVIOUS
<1>3. cut = << userinfo, host >>
  BY <1>2, Zenon
<1>4. cut[1] = userinfo /\ cut[2] = host
  <2> HIDE DEF cut
  <2> QED
    BY <1>3
<1>5. names = << username, password >>
  BY <1>4, Zenon
<1>6. names[1] = username /\ names[2] = password
  <2> HIDE DEF names
  <2> QED
    BY <1>5
<1> QED
  BY <1>1, <1>2, <1>4, <1>6, Zenon

(* What stands behind the scheme of a URL with credentials.                *)
LEMMA TailOfInjected ==
  \A x, c, d \in Chars : \A u, p, t \in Seq(Chars) :
    Tail(<< x >> \o u \o << c >> \o p \o << d >> \o t) = u \o << c >> \o p \o << d >> \o t
<1> TAKE x, c, d \in Chars
<1> TAKE u, p, t \in Seq(Chars)
<1> DEFINE r == u \o << c >> \o p \o << d >> \o t
<1>1. << x >> \in Seq(Chars) /\ << c >> \in Seq(Chars) /\ << d >> \in Seq(Chars)
  OBVIOUS
<1>2. << x >> \o u \o << c >> \o p \o << d >> \o t = << x >> \o r
  <2>1. << x >> \o (u \o << c >>) = << x >> \o u \o << c >>
    BY <1>1, ConcatAssociative
  <2>2. u \o << c >> \in Seq(Chars)
    BY <1>1
  <2>3. << x >> \o (u \o << c >> \o p) = << x >> \o (u \o << c >>) \o p
    BY <1>1, <2>2, ConcatAssociative
  <2>4. u \o << c >> \o p \in Seq(Chars)
    BY <1>1, <2>2
  <2>5. << x >> \o (u \o << c >> \o p \o << d >>) = << x >> \o (u \o << c >> \o p) \o << d >>
    BY <1>1, <2>4, ConcatAssociative
  <2>6. u \o << c >> \o p \o << d >> \in Seq(Chars)
    BY <1>1, <2>4
  <2>7. << x >> \o r = << x >> \o (u \o << c >> \o p \o << d >>) \o t
    BY <1>1, <2>6, ConcatAssociative
  <2> QED
    BY <2>1, <2>3, <2>5, <2>7, Zenon
<1>3. r \in Seq(Chars)
  BY <1>1
<1> HIDE DEF r
<1>4. Tail(<< x >> \o r) = r
  BY <1>1, <1>3
<1> QED
  BY <1>2, <1>4, Zenon DEF r

LEMMA TailOfUrl ==
  \A u, p, t \in Seq(Chars) :
    Tail(<< Scheme >> \o u \o << ":" >> \o p \o << "@" >> \o t)
      = u \o << ":" >> \o p \o << "@" >> \o t
<1> DEFINE Is(x, c, d) == \A u, p, t \in Seq(Chars) :
             Tail(<< x >> \o u \o << c >> \o p \o << d >> \o t) = u \o << c >> \o p \o << d >> \o t
<1>1. \A x, c, d \in Chars : Is(x, c, d)
  BY TailOfInjected, Zenon
<1>2. Scheme \in Chars /\ ":" \in Chars /\ "@" \in Chars
  BY DEF Chars, Reserved
<1> HIDE DEF Is
<1>3. Is(Scheme, ":", "@")
  BY <1>1, <1>2, Zenon
<1> QED
  BY <1>3 DEF Is

WithCredentials(endpoint, username, password) ==
  [endpoint EXCEPT !.username = username, !.password = password]

(* Where there is a password, the URL that redis_url_with_credentials      *)
(* makes of a URI without userinfo (main.rs:164-181) leads to the host and *)
(* the database of the URI, with just these credentials, whatever          *)
(* characters they hold.                                                   *)
THEOREM InjectedEndpoint ==
  ASSUME NEW uri \in Seq(Chars), IsUrl(uri), NoUserinfo(uri),
         NEW username \in Seq(Chars), NEW password \in Seq(Chars), password # << >>
  PROVE  EndpointOf(redis_url_with_credentials(uri, username, password)) =
           WithCredentials(EndpointOf(uri), username, password)
<1> DEFINE u == Encoded(username)
           p == Encoded(password)
           w == u \o << ":" >> \o p
           t == Tail(uri)
           url == redis_url_with_credentials(uri, username, password)
<1>1. ":" \in Chars /\ "@" \in Chars /\ "/" \in Chars /\ Scheme \in Chars
  BY DEF Chars, Reserved
<1>2. /\ u \in Seq(Chars) /\ p \in Seq(Chars)
      /\ Decoded(u) = username /\ Decoded(p) = password
      /\ \A c \in {":", "@", "/"} : Without(u, c) /\ Without(p, c)
  BY <1>1, EncodedFaithful, EncodedAppend DEF Faithful
<1>3. t \in Seq(Chars)
  BY DEF IsUrl
<1>5. Tail(url) = w \o << "@" >> \o t
  <2>1. url = << Scheme >> \o u \o << ":" >> \o p \o << "@" >> \o t
    BY DEF redis_url_with_credentials
  <2> HIDE DEF u, p, t, url
  <2> QED
    <3>1. u \in Seq(Chars) /\ p \in Seq(Chars)
      BY <1>2
    <3>2. Tail(<< Scheme >> \o u \o << ":" >> \o p \o << "@" >> \o t)
            = u \o << ":" >> \o p \o << "@" >> \o t
      BY <1>3, <3>1, TailOfUrl, Zenon
    <3> QED
      BY <2>1, <3>2, Zenon
<1> HIDE DEF u, p, url
<1>6. w \in Seq(Chars) /\ << ":" >> \in Seq(Chars) /\ << "@" >> \in Seq(Chars)
  BY <1>1, <1>2
<1>7. Without(w \o << "@" >>, "/")
  <2>1. Without(<< ":" >>, "/") /\ Without(<< "@" >>, "/")
    BY DEF Without
  <2>2. Without(u \o << ":" >>, "/")
    BY <1>2, <1>6, <2>1, WithoutAppend
  <2>3. u \o << ":" >> \in Seq(Chars)
    BY <1>2, <1>6
  <2>4. Without(w, "/")
    BY <1>2, <2>2, <2>3, WithoutAppend
  <2> QED
    BY <1>6, <2>1, <2>4, WithoutAppend
<1>8. w \o << "@" >> \in Seq(Chars)
  BY <1>6
<1>9. CutAtFirst(w, ":") = << u, p >>
  BY <1>1, <1>2, SplitAtFirst
<1> HIDE DEF w
<1>10. PICK authority, database \in Seq(Chars) :
         /\ CutAtFirst(t, "/") = << authority, database >>
         /\ CutAtFirst((w \o << "@" >>) \o t, "/") = << (w \o << "@" >>) \o authority, database >>
  BY <1>1, <1>3, <1>7, <1>8, CutBehind
<1>11. Without(authority, "@")
  BY <1>10 DEF NoUserinfo
<1>12. CutAtLast(w \o << "@" >> \o authority, "@") = << w, authority >>
  BY <1>1, <1>6, <1>11, SplitAtLast
<1>13. EndpointOf(url) =
         [username |-> username, password |-> password, host |-> authority, database |-> database]
  <2>1. CutAtFirst(Tail(url), "/") = << w \o << "@" >> \o authority, database >>
    BY <1>5, <1>10, Zenon
  <2>2. EndpointOf(url) = [username |-> Decoded(u), password |-> Decoded(p), host |-> authority,
                           database |-> database]
    BY <1>9, <1>12, <2>1, Parts, Zenon
  <2> QED
    BY <1>2, <2>2, Zenon
<1>14. CutAtLast(authority, "@") = << << >>, authority >>
  BY <1>11, CutAtLastNone
<1>15. CutAtFirst(<< >>, ":") = << << >>, << >> >>
  <2>1. Without(<< >>, ":") /\ << >> \in Seq(Chars)
    BY DEF Without
  <2> QED
    BY <2>1, CutAtFirstNone
<1>16. EndpointOf(uri) =
         [username |-> Decoded(<< >>), password |-> Decoded(<< >>), host |-> authority,
          database |-> database]
  BY <1>10, <1>14, <1>15, Parts
<1>17. EndpointOf(url) = [EndpointOf(uri) EXCEPT !.username = username, !.password = password]
  <2> DEFINE said == EndpointOf(uri)
             e == Decoded(<< >>)
  <2>1. said = [username |-> e, password |-> e, host |-> authority, database |-> database]
    BY <1>16
  <2> DEFINE r == [said EXCEPT !.username = username, !.password = password]
  <2> HIDE DEF said, e
  <2>2. said \in [username : {e}, password : {e}, host : {authority}, database : {database}]
    BY <2>1
  <2>3. r \in [username : {username}, password : {password}, host : {authority},
               database : {database}]
    BY <2>2
  <2> HIDE DEF r
  <2>4. r = [username |-> username, password |-> password, host |-> authority,
             database |-> database]
    BY <2>3
  <2> QED
    BY <1>13, <2>4, Zenon DEF said, r
<1> QED
  BY <1>17, Zenon DEF url, WithCredentials
=============================================================================
