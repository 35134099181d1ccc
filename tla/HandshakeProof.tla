--------------------------- MODULE HandshakeProof ----------------------------
(***************************************************************************)
(* For every limit, key and foreign text: the texts of the handshake are   *)
(* taken off the stream exactly, headers are found in them as a reader of  *)
(* their lines finds them, the two ends of this code accept each other,    *)
(* and nobody is connected to a C++ server that has not accepted.          *)
(***************************************************************************)
EXTENDS Handshake, SequenceTheorems, WellFoundedInduction, TLAPS

\* A set of numbers with 0 and the successor of each of its members has them all:
\* the least number outside of it would have a predecessor inside.
LEMMA NatInd ==
  ASSUME NEW S \in SUBSET Nat, 0 \in S, \A n \in S : n + 1 \in S
  PROVE  S = Nat
<1> DEFINE R == OpToRel(<, Nat)
           T == Nat \ S
<1>1. IsWellFoundedOn(R, Nat)
  BY NatLessThanWellFounded, Zenon
<1>2. \A x, y \in Nat : <<y, x>> \in R <=> y < x
  BY Zenon DEF OpToRel
<1> HIDE DEF R
<1> SUFFICES ASSUME T # {} PROVE FALSE
  BY Zenon
<1>3. PICK x \in T : \A y \in T : ~(<<y, x>> \in R)
  <2>1. T \subseteq Nat
    BY Zenon DEF T
  <2> HIDE DEF T
  <2> QED
    BY <1>1, <2>1, WFMin, Zenon
<1>4. x \in Nat /\ x # 0 /\ x - 1 \in Nat
  OBVIOUS
<1>5. x - 1 \in S
  <2>1. <<x - 1, x>> \in R
    BY <1>2, <1>4
  <2> QED
    BY <1>3, <1>4, <2>1, Zenon
<1> QED
  BY <1>4, <1>5

-----------------------------------------------------------------------------
(* Sequences.                                                              *)

LEMMA ReadOne ==
  ASSUME NEW b \in Text, NEW q \in Text, q # <<>>
  PROVE  /\ Append(b, Head(q)) \in Text /\ Tail(q) \in Text
         /\ Len(Append(b, Head(q))) = Len(b) + 1
         /\ Append(b, Head(q)) \o Tail(q) = b \o q
         /\ \A n \in 0..Len(b) : SubSeq(Append(b, Head(q)), 1, n) = SubSeq(b, 1, n)
<1> USE DEF Text
<1>1. /\ Head(q) \in Char /\ Tail(q) \in Seq(Char) /\ Len(Tail(q)) = Len(q) - 1
      /\ Len(q) \in Nat \ {0} /\ \A i \in 1..Len(Tail(q)) : Tail(q)[i] = q[i + 1]
  BY HeadTailProperties, EmptySeq, Zenon
<1>2. /\ Append(b, Head(q)) \in Seq(Char)
      /\ Len(Append(b, Head(q))) = Len(b) + 1
      /\ \A i \in 1..Len(b) : Append(b, Head(q))[i] = b[i]
      /\ Append(b, Head(q))[Len(b) + 1] = Head(q)
  BY <1>1, AppendProperties
<1>3. Append(b, Head(q)) \o Tail(q) = b \o q
  BY <1>1, <1>2
<1>4. ASSUME NEW n \in 0..Len(b)
      PROVE  SubSeq(Append(b, Head(q)), 1, n) = SubSeq(b, 1, n)
  BY <1>1, <1>2
<1> QED
  BY <1>1, <1>2, <1>3, <1>4, Zenon

LEMMA EmptyConcat ==
  ASSUME NEW x \in Text, NEW y \in Text, x \o y = <<>>
  PROVE  x = <<>>
<1>1. Len(x \o y) = Len(x) + Len(y) /\ Len(x) \in Nat /\ Len(y) \in Nat
  BY ConcatProperties, LenProperties, Zenon DEF Text
<1>2. Len(x) = 0
  BY <1>1
<1> QED
  BY <1>2, EmptySeq, Zenon DEF Text

\* A set of positions has a least one.
LEMMA LeastPosition ==
  ASSUME NEW S, S \subseteq Nat, S # {}
  PROVE  Min(S) \in S /\ \A x \in S : Min(S) <= x
<1>1. \E x \in S : \A y \in S : ~(<<y, x>> \in OpToRel(<, Nat))
  BY NatLessThanWellFounded, WFMin, Zenon
<1>2. ASSUME NEW x \in Nat, NEW y \in Nat, x < y PROVE <<x, y>> \in OpToRel(<, Nat)
  BY <1>2, Zenon DEF OpToRel
<1>3. PICK x \in S : \A y \in S : ~(<<y, x>> \in OpToRel(<, Nat))
  BY <1>1, Zenon
<1>4. \A y \in S : ~(y < x)
  BY <1>2, <1>3, Zenon
<1>5. \A y \in S : x <= y
  BY <1>4
<1> QED
  BY <1>5, Zenon DEF Min

\* What extractHeader returns is a text.
LEMMA FindType ==
  ASSUME NEW text \in Text, NEW pattern \in Text, NEW p \in Nat \ {0}
  PROVE  Find(text, pattern, p) \in {0} \cup p..Len(text) - Len(pattern) + 1
<1> DEFINE Hit(k) == \A j \in DOMAIN pattern : tolower(text[k + j - 1]) = tolower(pattern[j])
           hits == {k \in p..Len(text) - Len(pattern) + 1 : Hit(k)}
<1>1. Find(text, pattern, p) = IF hits = {} THEN 0 ELSE Min(hits)
  BY Zenon DEF Find
<1> HIDE DEF Hit
<1>2. hits \subseteq p..Len(text) - Len(pattern) + 1 /\ hits \subseteq Nat
  BY LenProperties DEF Text
<1>3. hits # {} => Min(hits) \in hits
  BY <1>2, LeastPosition, Zenon
<1> HIDE DEF hits
<1> QED
  BY <1>1, <1>2, <1>3, Zenon

LEMMA SubText ==
  ASSUME NEW text \in Text, NEW m \in Nat \ {0}, NEW n \in Int, n <= Len(text)
  PROVE  SubSeq(text, m, n) \in Text
BY SubSeqProperties, LenProperties DEF Text

LEMMA ExtractType ==
  ASSUME NEW text \in Text, NEW name \in Char
  PROVE  extractHeader(text, name) \in Text
<1> DEFINE found == Find(text, search(name), 1)
           from == SkipBlanks(text, found + Len(search(name)))
           end == Find(text, CRLF, from)
<1>0. Len(text) \in Nat /\ CRLF \in Text /\ search(name) \in Text /\ Len(search(name)) = 4
  BY DEF Text, Char, CRLF, CR, LF, COLON, search
<1>1. found \in {0} \cup 1..Len(text) - 3
  <2>1. 1 \in Nat \ {0}
    OBVIOUS
  <2>2. found \in {0} \cup 1..Len(text) - Len(search(name)) + 1
    BY <1>0, <2>1, FindType, Zenon
  <2> HIDE DEF found
  <2> QED
    BY <1>0, <2>2
<1>2. from \in Nat \ {0}
  <2> DEFINE S == {k \in found + 4..Len(text) : text[k] \notin {SP, TAB}}
                    \cup {Len(text) + 1}
  <2>1. from = Min(S)
    BY <1>0, Zenon DEF SkipBlanks
  <2>2. S \subseteq Nat \ {0} /\ S # {}
    BY <1>0, <1>1
  <2> HIDE DEF S
  <2> QED
    BY <2>1, <2>2, LeastPosition, Zenon
<1>3. end \in {0} \cup Nat /\ end - 1 <= Len(text)
  BY <1>0, <1>2, FindType DEF CRLF
<1>4. extractHeader(text, name) =
        IF found = 0 THEN <<>>
        ELSE SubSeq(text, from, IF end = 0 THEN Len(text) ELSE end - 1)
  BY Zenon DEF extractHeader, ValueFrom
<1> HIDE DEF found, from, end
<1>5. SubSeq(text, from, IF end = 0 THEN Len(text) ELSE end - 1) \in Text
  BY <1>0, <1>2, <1>3, SubText
<1> QED
  BY <1>4, <1>5, EmptySeq, Zenon DEF Text

-----------------------------------------------------------------------------
(* The user of a session.                                                  *)

Quiet == {c \in Char : ~iscntrl(c)}

\* f[i] is what std::remove_if leaves of the first i characters, up to k.
Cleans(value, f, k) ==
  f = [i \in 0..k |-> IF i = 0 THEN <<>>
                      ELSE IF iscntrl(value[i]) THEN f[i - 1] ELSE Append(f[i - 1], value[i])]

LEMMA CleansAt ==
  ASSUME NEW value, NEW f, NEW k \in Nat, Cleans(value, f, k), NEW i \in 0..k
  PROVE  f[i] = IF i = 0 THEN <<>>
                ELSE IF iscntrl(value[i]) THEN f[i - 1] ELSE Append(f[i - 1], value[i])
<1> DEFINE Step(j) == IF j = 0 THEN <<>>
                      ELSE IF iscntrl(value[j]) THEN f[j - 1] ELSE Append(f[j - 1], value[j])
<1>1. f = [j \in 0..k |-> Step(j)]
  BY Zenon DEF Cleans
<1>2. f[i] = Step(i)
  <2> HIDE DEF Step
  <2> QED
    BY <1>1, Zenon
<1> QED
  BY <1>2, Zenon DEF Step

LEMMA CleansExists ==
  ASSUME NEW value, NEW n \in Nat PROVE \E f : Cleans(value, f, n)
<1> DEFINE Good == {k \in Nat : \E f : Cleans(value, f, k)}
<1>1. 0 \in Good
  <2>1. Cleans(value, [i \in 0..0 |-> <<>>], 0)
    BY DEF Cleans
  <2> QED
    BY <2>1, Zenon
<1>2. ASSUME NEW k \in Good PROVE k + 1 \in Good
  <2>1. PICK f : Cleans(value, f, k)
    BY Zenon
  <2> DEFINE last == IF iscntrl(value[k + 1]) THEN f[k] ELSE Append(f[k], value[k + 1])
             g == [i \in 0..k + 1 |-> IF i <= k THEN f[i] ELSE last]
  <2>2. ASSUME NEW i \in 0..k + 1
        PROVE  g[i] = IF i = 0 THEN <<>>
                      ELSE IF iscntrl(value[i]) THEN g[i - 1] ELSE Append(g[i - 1], value[i])
    <3>1. CASE i = 0
      BY <2>1, <3>1, CleansAt
    <3>2. CASE i \in 1..k
      <4>1. g[i] = f[i] /\ g[i - 1] = f[i - 1] /\ i # 0 /\ i \in 0..k
        BY <3>2
      <4>2. f[i] = IF i = 0 THEN <<>>
                   ELSE IF iscntrl(value[i]) THEN f[i - 1] ELSE Append(f[i - 1], value[i])
        BY <2>1, <4>1, CleansAt, Zenon
      <4> HIDE DEF g
      <4> QED
        BY <4>1, <4>2, Zenon
    <3>3. CASE i = k + 1
      BY <3>3
    <3> QED
      BY <3>1, <3>2, <3>3
  <2>3. g = [i \in 0..k + 1 |->
               IF i = 0 THEN <<>>
               ELSE IF iscntrl(value[i]) THEN g[i - 1] ELSE Append(g[i - 1], value[i])]
    <3> HIDE DEF last
    <3> QED
      BY <2>2, Zenon
  <2>4. Cleans(value, g, k + 1)
    BY <2>3, Zenon DEF Cleans
  <2> QED
    BY <2>4
<1> HIDE DEF Good
<1>3. Good = Nat
  <2>1. Good \in SUBSET Nat
    BY Zenon DEF Good
  <2> QED
    BY <1>1, <1>2, <2>1, NatInd, Zenon
<1> QED
  BY <1>3, Zenon DEF Good

\* No control character is left.
LEMMA CleanedQuiet ==
  ASSUME NEW value \in Text PROVE Cleaned(value) \in Seq(Quiet)
<1> DEFINE f == CHOOSE g : Cleans(value, g, Len(value))
<1>0. Len(value) \in Nat
  BY DEF Text
<1>1. Cleans(value, f, Len(value))
  BY <1>0, CleansExists, Zenon
<1>2. Cleaned(value) = f[Len(value)]
  BY Zenon DEF Cleaned, Cleans
<1> HIDE DEF f
<1> DEFINE Good == {i \in Nat : i <= Len(value) => f[i] \in Seq(Quiet)}
<1>3. 0 \in Good
  BY <1>0, <1>1 DEF Cleans
<1>4. ASSUME NEW i \in Good PROVE i + 1 \in Good
  <2> SUFFICES ASSUME i + 1 <= Len(value) PROVE f[i + 1] \in Seq(Quiet)
    OBVIOUS
  <2>1. f[i] \in Seq(Quiet) /\ i + 1 \in 1..Len(value) /\ i + 1 \in 0..Len(value)
    BY <1>0
  <2>2. f[i + 1] = IF iscntrl(value[i + 1]) THEN f[i] ELSE Append(f[i], value[i + 1])
    <3>1. f[i + 1] = IF i + 1 = 0 THEN <<>>
                     ELSE IF iscntrl(value[i + 1]) THEN f[(i + 1) - 1]
                          ELSE Append(f[(i + 1) - 1], value[i + 1])
      BY <1>0, <1>1, <2>1, CleansAt, Zenon
    <3>2. i + 1 # 0 /\ (i + 1) - 1 = i
      OBVIOUS
    <3> QED
      BY <3>1, <3>2, Zenon
  <2>3. value[i + 1] \in Char
    BY <2>1 DEF Text
  <2>4. ~iscntrl(value[i + 1]) => Append(f[i], value[i + 1]) \in Seq(Quiet)
    BY <2>1, <2>3 DEF Quiet
  <2> QED
    BY <2>1, <2>2, <2>4, Zenon
<1> HIDE DEF Good
<1>5. Good = Nat
  <2>1. Good \in SUBSET Nat
    BY Zenon DEF Good
  <2> QED
    BY <1>3, <1>4, <2>1, NatInd, Zenon
<1> QED
  BY <1>0, <1>2, <1>5 DEF Good

Usable(user) ==
  /\ user \in Text /\ user # <<>> /\ Len(user) <= MaxUserId
  /\ \A k \in 1..Len(user) : ~iscntrl(user[k])

LEMMA SessionUserUsable ==
  ASSUME NEW value \in Text PROVE Usable(SessionUser(value))
<1> DEFINE v == Cleaned(value)
           short == Shortened(v)
<1>1. v \in Seq(Quiet)
  BY CleanedQuiet, Zenon
<1> HIDE DEF v
<1>2. short \in Seq(Quiet) /\ Len(short) <= MaxUserId
  <2>1. Len(v) \in Nat /\ MaxUserId \in Nat
    BY <1>1, LimitAssumption
  <2>2. CASE Len(v) > MaxUserId
    <3>1. /\ SubSeq(v, 1, MaxUserId) \in Seq(Quiet)
          /\ Len(SubSeq(v, 1, MaxUserId)) = MaxUserId
      BY <1>1, <2>1, <2>2
    <3> QED
      BY <2>1, <2>2, <3>1 DEF Shortened
  <2>3. CASE ~(Len(v) > MaxUserId)
    BY <1>1, <2>1, <2>3 DEF Shortened
  <2> QED
    BY <2>2, <2>3, Zenon
<1>3. SessionUser(value) = IF short = <<>> THEN GeneratedId ELSE short
  BY Zenon DEF SessionUser, v
<1> HIDE DEF short
<1>4. short \in Text /\ \A k \in 1..Len(short) : ~iscntrl(short[k])
  BY <1>2 DEF Quiet, Text
<1>5. Usable(GeneratedId)
  BY GeneratedAssumption, TextAssumption, Zenon DEF Usable
<1> QED
  BY <1>2, <1>3, <1>4, <1>5 DEF Usable

-----------------------------------------------------------------------------
(* extractHeader against the lines of a text.                              *)

LEMMA MinIs ==
  ASSUME NEW S \in SUBSET Int, NEW m \in S, \A x \in S : m <= x
  PROVE  Min(S) = m
<1>1. Min(S) \in S /\ \A x \in S : Min(S) <= x
  BY Zenon DEF Min
<1>2. Min(S) \in Int /\ m \in Int
  BY <1>1, Zenon
<1>3. Min(S) <= m /\ m <= Min(S)
  BY <1>1, Zenon
<1> QED
  BY <1>2, <1>3

LEMMA MaxIs ==
  ASSUME NEW S \in SUBSET Int, NEW m \in S, \A x \in S : m >= x
  PROVE  Max(S) = m
<1>1. Max(S) \in S /\ \A x \in S : Max(S) >= x
  BY Zenon DEF Max
<1>2. Max(S) \in Int /\ m \in Int
  BY <1>1, Zenon
<1>3. Max(S) >= m /\ m >= Max(S)
  BY <1>1, Zenon
<1> QED
  BY <1>2, <1>3

LEMMA SubSeqIs ==
  ASSUME NEW t \in Text, NEW a \in Nat \ {0}, NEW b \in Nat, a <= b + 1, b <= Len(t)
  PROVE  /\ SubSeq(t, a, b) \in Text
         /\ Len(SubSeq(t, a, b)) = b - a + 1
         /\ \A k \in 1..b - a + 1 : SubSeq(t, a, b)[k] = t[a + k - 1]
BY DEF Text

\* A part of a part.
LEMMA SubSubSeq ==
  ASSUME NEW t \in Text, NEW a \in Nat \ {0}, NEW b \in Nat, a <= b + 1, b <= Len(t),
         NEW c \in Nat \ {0}, c <= (b - a + 1) + 1
  PROVE  /\ Len(SubSeq(t, a, b)) = b - a + 1
         /\ \A k \in 1..b - a + 1 : SubSeq(t, a, b)[k] = t[a + k - 1]
         /\ SubSeq(SubSeq(t, a, b), c, b - a + 1) = SubSeq(t, a + c - 1, b)
<1> DEFINE u == SubSeq(t, a, b)
           n == b - a + 1
           v == SubSeq(u, c, n)
           w == SubSeq(t, a + c - 1, b)
<1>0. t \in Seq(Char) /\ Len(t) \in Nat /\ n \in Nat /\ n - c + 1 \in Nat
  BY DEF Text
<1>1. u \in Seq(Char) /\ Len(u) = n /\ \A k \in 1..n : u[k] = t[a + k - 1]
  BY <1>0
<1>2. w \in Seq(Char) /\ Len(w) = n - c + 1
      /\ \A k \in 1..n - c + 1 : w[k] = t[(a + c - 1) + k - 1]
  BY <1>0
<1> HIDE DEF u
<1>3. v \in Seq(Char) /\ Len(v) = n - c + 1
      /\ \A k \in 1..n - c + 1 : v[k] = u[c + k - 1]
  BY <1>0, <1>1
<1>4. \A k \in 1..n - c + 1 : v[k] = w[k]
  BY <1>0, <1>1, <1>2, <1>3
<1>5. v = w
  BY <1>2, <1>3, <1>4, SeqEqual, Zenon
<1> QED
  BY <1>1, <1>5, Zenon DEF u

\* The case of a character matters for letters only.
LEMMA CaseFacts ==
  /\ \A c \in Char : /\ tolower(c) = CR <=> c = CR
                     /\ tolower(c) = LF <=> c = LF
                     /\ tolower(c) = COLON <=> c = COLON
  /\ tolower(CR) = CR /\ tolower(LF) = LF /\ tolower(COLON) = COLON
BY DEF tolower, CR, LF, COLON, Char

LineEnds(text) == {k \in 1..Len(text) - 1 : text[k] = CR /\ text[k + 1] = LF}

\* The ends of lines at which a line with that name begins.
Starts(text, name) ==
  {k \in LineEnds(text) : /\ k <= Len(text) - 3
                          /\ tolower(text[k + 2]) = tolower(name) /\ text[k + 3] = COLON}

LEMMA EndsAre ==
  ASSUME NEW text \in Text
  PROVE  {k \in 1..Len(text) - 1 : SubSeq(text, k, k + 1) = CRLF} = LineEnds(text)
<1>0. text \in Seq(Char) /\ Len(text) \in Nat
  BY DEF Text
<1>1. ASSUME NEW k \in 1..Len(text) - 1
      PROVE  SubSeq(text, k, k + 1) = CRLF <=> text[k] = CR /\ text[k + 1] = LF
  <2> DEFINE u == SubSeq(text, k, k + 1)
  <2>0. k \in Nat \ {0} /\ k + 1 \in Nat /\ k + 1 <= Len(text) /\ (k + 1) - k + 1 = 2
    BY <1>0
  <2>1. u \in Seq(Char) /\ Len(u) = 2 /\ u[1] = text[k] /\ u[2] = text[k + 1]
    <3>1. u \in Seq(Char)
      BY <2>0, SubSeqIs DEF Text
    <3>2. Len(u) = 2 /\ \A j \in 1..2 : u[j] = text[k + j - 1]
      BY <2>0, SubSeqIs
    <3>3. u[1] = text[k + 1 - 1] /\ u[2] = text[k + 2 - 1]
      BY <3>2
    <3> QED
      BY <3>1, <3>2, <3>3, <2>0
  <2>2. CRLF \in Seq(Char) /\ Len(CRLF) = 2 /\ CRLF[1] = CR /\ CRLF[2] = LF
    BY DEF CRLF, CR, LF, Char
  <2> HIDE DEF u
  <2>3. (\A j \in 1..2 : u[j] = CRLF[j]) => u = CRLF
    BY <2>1, <2>2, SeqEqual, Zenon
  <2> QED
    BY <2>1, <2>2, <2>3 DEF u
<1> QED
  BY <1>1, Zenon DEF LineEnds

LEMMA FindEnd ==
  ASSUME NEW text \in Text, NEW p \in Nat \ {0}
  PROVE  LET S == {k \in LineEnds(text) : k >= p} IN
         Find(text, CRLF, p) = IF S = {} THEN 0 ELSE Min(S)
<1> DEFINE Hit(k) == \A j \in DOMAIN CRLF : tolower(text[k + j - 1]) = tolower(CRLF[j])
           hits == {k \in p..Len(text) - Len(CRLF) + 1 : Hit(k)}
           S == {k \in LineEnds(text) : k >= p}
<1>1. Find(text, CRLF, p) = IF hits = {} THEN 0 ELSE Min(hits)
  BY Zenon DEF Find
<1>2. Len(text) \in Nat /\ Len(CRLF) = 2 /\ DOMAIN CRLF = {1, 2} /\ CRLF[1] = CR /\ CRLF[2] = LF
  BY DEF Text, CRLF
<1>3. ASSUME NEW k \in p..Len(text) - 1
      PROVE  Hit(k) <=> text[k] = CR /\ text[k + 1] = LF
  <2>1. Hit(k) <=> /\ tolower(text[k + 1 - 1]) = tolower(CR)
                   /\ tolower(text[k + 2 - 1]) = tolower(LF)
    BY <1>2, Zenon
  <2>2. text[k] \in Char /\ text[k + 1] \in Char /\ k + 1 - 1 = k /\ k + 2 - 1 = k + 1
    BY <1>2 DEF Text
  <2> HIDE DEF Hit
  <2> QED
    BY <2>1, <2>2, CaseFacts, Zenon
<1>4. hits = S
  <2> HIDE DEF Hit
  <2> QED
    BY <1>2, <1>3 DEF LineEnds
<1> QED
  BY <1>1, <1>4, Zenon

LEMMA FindName ==
  ASSUME NEW text \in Text, NEW name \in Char
  PROVE  Find(text, search(name), 1)
           = IF Starts(text, name) = {} THEN 0 ELSE Min(Starts(text, name))
<1> DEFINE pattern == search(name)
           Hit(k) == \A j \in DOMAIN pattern : tolower(text[k + j - 1]) = tolower(pattern[j])
           hits == {k \in 1..Len(text) - Len(pattern) + 1 : Hit(k)}
<1>1. Find(text, pattern, 1) = IF hits = {} THEN 0 ELSE Min(hits)
  BY Zenon DEF Find
<1>2. /\ Len(text) \in Nat /\ Len(pattern) = 4 /\ DOMAIN pattern = {1, 2, 3, 4}
      /\ pattern[1] = CR /\ pattern[2] = LF /\ pattern[3] = name /\ pattern[4] = COLON
  BY DEF Text, CRLF, search
<1> HIDE DEF pattern
<1>3. ASSUME NEW k \in 1..Len(text) - 3
      PROVE  Hit(k) <=> /\ text[k] = CR /\ text[k + 1] = LF
                        /\ tolower(text[k + 2]) = tolower(name) /\ text[k + 3] = COLON
  <2>1. Hit(k) <=> /\ tolower(text[k + 1 - 1]) = tolower(CR)
                   /\ tolower(text[k + 2 - 1]) = tolower(LF)
                   /\ tolower(text[k + 3 - 1]) = tolower(name)
                   /\ tolower(text[k + 4 - 1]) = tolower(COLON)
    BY <1>2, Zenon
  <2>2. /\ text[k] \in Char /\ text[k + 1] \in Char /\ text[k + 3] \in Char
        /\ k + 1 - 1 = k /\ k + 2 - 1 = k + 1 /\ k + 3 - 1 = k + 2 /\ k + 4 - 1 = k + 3
    BY <1>2 DEF Text
  <2> HIDE DEF Hit
  <2> QED
    BY <2>1, <2>2, CaseFacts, Zenon
<1>4. hits = Starts(text, name)
  <2> HIDE DEF Hit
  <2>1. hits = {k \in 1..Len(text) - 3 : Hit(k)}
    BY <1>2
  <2>2. \A k : k \in hits <=> k \in 1..Len(text) - 3 /\ Hit(k)
    BY <2>1, Zenon
  <2>3. \A k : k \in Starts(text, name)
               <=> /\ k \in 1..Len(text) - 3
                   /\ text[k] = CR /\ text[k + 1] = LF
                   /\ tolower(text[k + 2]) = tolower(name) /\ text[k + 3] = COLON
    BY <1>2 DEF LineEnds, Starts
  <2> HIDE DEF hits
  <2> QED
    BY <1>3, <2>2, <2>3, Zenon
<1> QED
  BY <1>1, <1>4, Zenon DEF pattern

\* A terminated text ends with two ends of lines, the last of them at its end.
LEMMA LastEnds ==
  ASSUME NEW text \in Text, Terminated(text)
  PROVE  /\ Len(text) \in Nat /\ Len(text) >= 4
         /\ Len(text) - 3 \in LineEnds(text) /\ Len(text) - 1 \in LineEnds(text)
<1> DEFINE n == Len(text)
           u == SubSeq(text, n - 3, n)
<1>0. n \in Nat /\ n >= 4 /\ u = CRLF \o CRLF
  BY DEF Terminated, Text
<1>1. \A k \in 1..4 : u[k] = text[(n - 3) + k - 1]
  <2>1. n - 3 \in Nat \ {0} /\ n - 3 <= n + 1 /\ n - (n - 3) + 1 = 4
    BY <1>0
  <2> QED
    BY <1>0, <2>1, SubSeqIs
<1>2. u[1] = CR /\ u[2] = LF /\ u[3] = CR /\ u[4] = LF
  BY <1>0 DEF CRLF
<1> HIDE DEF u
<1>3. text[n - 3] = CR /\ text[n - 2] = LF /\ text[n - 1] = CR /\ text[n] = LF
  <2>1. /\ text[(n - 3) + 1 - 1] = CR /\ text[(n - 3) + 2 - 1] = LF
        /\ text[(n - 3) + 3 - 1] = CR /\ text[(n - 3) + 4 - 1] = LF
    BY <1>1, <1>2
  <2>2. /\ (n - 3) + 1 - 1 = n - 3 /\ (n - 3) + 2 - 1 = n - 2
        /\ (n - 3) + 3 - 1 = n - 1 /\ (n - 3) + 4 - 1 = n
    BY <1>0
  <2> QED
    BY <2>1, <2>2, Zenon
<1> QED
  BY <1>0, <1>3 DEF LineEnds

NextEnd(text, k) == Min({e \in LineEnds(text) : e > k})

LEMMA NextEndIs ==
  ASSUME NEW text \in Text, Terminated(text), NEW k \in Nat, k < Len(text) - 1
  PROVE  /\ NextEnd(text, k) \in LineEnds(text) /\ NextEnd(text, k) > k
         /\ \A e \in LineEnds(text) : e > k => NextEnd(text, k) <= e
<1> DEFINE S == {e \in LineEnds(text) : e > k}
<1>1. S \subseteq Nat /\ S # {}
  BY LastEnds DEF LineEnds
<1>2. Min(S) \in S /\ \A x \in S : Min(S) <= x
  <2> HIDE DEF S
  <2> QED
    BY <1>1, LeastPosition, Zenon
<1> QED
  BY <1>2, Zenon DEF NextEnd

\* The line behind an end of a line that is not the last.
LEMMA LineIs ==
  ASSUME NEW text \in Text, Terminated(text),
         NEW k \in LineEnds(text), k # Len(text) - 1
  PROVE  LET e == NextEnd(text, k)
             l == SubSeq(text, k + 2, e - 1)
         IN  /\ k \in Nat /\ e \in Nat /\ k + 2 <= e /\ e <= Len(text) - 1 /\ k < Len(text) - 1
             /\ Len(l) = e - k - 2
             /\ \A i \in 1..Len(l) : l[i] = text[k + 1 + i]
<1> DEFINE e == NextEnd(text, k)
           l == SubSeq(text, k + 2, e - 1)
<1>1. k \in Nat \ {0} /\ k < Len(text) - 1 /\ text[k + 1] = LF /\ Len(text) \in Nat
  BY LastEnds DEF LineEnds
<1>2. e \in LineEnds(text) /\ e > k
  BY <1>1, NextEndIs, Zenon
<1> HIDE DEF e
<1>3. e \in Nat /\ e <= Len(text) - 1 /\ text[e] = CR
  BY <1>1, <1>2 DEF LineEnds
<1>4. e # k + 1
  BY <1>1, <1>3 DEF CR, LF
<1>5. k + 2 \in Nat \ {0} /\ e - 1 \in Nat /\ k + 2 <= (e - 1) + 1 /\ e - 1 <= Len(text)
      /\ (e - 1) - (k + 2) + 1 = e - k - 2 /\ k + 2 <= e
  BY <1>1, <1>2, <1>3, <1>4
<1>6. Len(l) = e - k - 2 /\ \A i \in 1..e - k - 2 : l[i] = text[(k + 2) + i - 1]
  BY <1>5, SubSeqIs
<1>7. \A i \in 1..e - k - 2 : (k + 2) + i - 1 = k + 1 + i
  BY <1>1, <1>3
<1> QED
  BY <1>1, <1>3, <1>5, <1>6, <1>7, Zenon DEF e

\* The lines of that name are those that Find stops at.
LEMMA MineAre ==
  ASSUME NEW text \in Text, Terminated(text), NEW name \in Char, tolower(name) # CR
  PROVE  LET Mine(k) == LET l == SubSeq(text, k + 2, NextEnd(text, k) - 1) IN
                        Len(l) >= 2 /\ tolower(l[1]) = tolower(name) /\ l[2] = COLON
         IN  {k \in LineEnds(text) \ {Len(text) - 1} : Mine(k)} = Starts(text, name)
<1> DEFINE l(k) == SubSeq(text, k + 2, NextEnd(text, k) - 1)
           Mine(k) == Len(l(k)) >= 2 /\ tolower(l(k)[1]) = tolower(name) /\ l(k)[2] = COLON
<1>0. Len(text) \in Nat
  BY DEF Text
<1>1. ASSUME NEW k \in LineEnds(text)
      PROVE  k # Len(text) - 1 /\ Mine(k) <=> k \in Starts(text, name)
  <2>1. CASE k = Len(text) - 1
    BY <1>0, <2>1 DEF Starts
  <2>2. CASE k # Len(text) - 1
    <3> DEFINE e == NextEnd(text, k)
    <3>1. /\ k \in Nat /\ e \in Nat /\ k + 2 <= e /\ e <= Len(text) - 1 /\ k < Len(text) - 1
          /\ Len(l(k)) = e - k - 2
          /\ \A i \in 1..Len(l(k)) : l(k)[i] = text[k + 1 + i]
      BY <2>2, LineIs, Zenon
    <3>2. text[e] = CR
      BY <3>1, NextEndIs, Zenon DEF LineEnds
    <3> HIDE DEF e, l
    <3>3. ASSUME Len(l(k)) >= 2
          PROVE  l(k)[1] = text[k + 2] /\ l(k)[2] = text[k + 3] /\ k <= Len(text) - 3
      <4>1. 1 \in 1..Len(l(k)) /\ 2 \in 1..Len(l(k)) /\ k + 1 + 1 = k + 2 /\ k + 1 + 2 = k + 3
        BY <3>1, <3>3
      <4>2. l(k)[1] = text[k + 1 + 1] /\ l(k)[2] = text[k + 1 + 2]
        BY <3>1, <4>1, Zenon
      <4> QED
        BY <1>0, <3>1, <3>3, <4>1, <4>2
    <3>4. ASSUME tolower(text[k + 2]) = tolower(name), text[k + 3] = COLON
          PROVE  Len(l(k)) >= 2
      <4>1. e # k + 2
        BY <3>2, <3>4, CaseFacts, Zenon
      <4>2. e # k + 3
        BY <3>2, <3>4 DEF CR, COLON
      <4> QED
        BY <3>1, <4>1, <4>2
    <3>5. Mine(k) => k \in Starts(text, name)
      BY <3>3, Zenon DEF Starts
    <3>6. k \in Starts(text, name) => Mine(k)
      BY <3>3, <3>4, Zenon DEF Starts
    <3> QED
      BY <2>2, <3>5, <3>6, Zenon
  <2> QED
    BY <2>1, <2>2, Zenon
<1>2. Starts(text, name) \subseteq LineEnds(text)
  BY Zenon DEF Starts
<1>3. {k \in LineEnds(text) \ {Len(text) - 1} : Mine(k)} = Starts(text, name)
  <2> HIDE DEF Mine
  <2> QED
    BY <1>1, <1>2, Zenon
<1> QED
  BY <1>3, Zenon

\* The value of a line: extractHeader ends it where the line ends, and leaves out the
\* blanks before it.
LEMMA ValueIs ==
  ASSUME NEW text \in Text, Terminated(text), NEW m \in Nat \ {0}, NEW e \in LineEnds(text),
         m + 4 <= e, \A k \in LineEnds(text) : k > m => e <= k
  PROVE  LET from == SkipBlanks(text, m + 4) IN
         /\ from \in m + 4..e
         /\ text[from] \notin {SP, TAB} /\ \A k \in m + 4..from - 1 : text[k] \in {SP, TAB}
         /\ ValueFrom(text, from) = SubSeq(text, from, e - 1)
<1> DEFINE S == {k \in m + 4..Len(text) : text[k] \notin {SP, TAB}}
           T == S \cup {Len(text) + 1}
           from == SkipBlanks(text, m + 4)
<1>0. Len(text) \in Nat /\ e \in Nat /\ e <= Len(text) - 1 /\ text[e] = CR
  BY DEF LineEnds, Text
<1>1. e \in S /\ T \subseteq Nat /\ T # {}
  BY <1>0 DEF CR, SP, TAB
<1>2. from = Min(T)
  BY Zenon DEF SkipBlanks
<1>3. from \in T /\ \A x \in T : from <= x
  <2> HIDE DEF T, from
  <2> QED
    BY <1>1, <1>2, LeastPosition, Zenon
<1>4. from \in m + 4..e
  BY <1>0, <1>1, <1>3
<1>5. text[from] \notin {SP, TAB}
  <2>1. from # Len(text) + 1
    BY <1>0, <1>4
  <2> HIDE DEF from
  <2> QED
    BY <1>3, <2>1, Zenon
<1>6. ASSUME NEW k \in m + 4..from - 1 PROVE text[k] \in {SP, TAB}
  <2>1. k \notin T /\ k \in m + 4..Len(text)
    <3> HIDE DEF from, T
    <3> QED
      BY <1>0, <1>3, <1>4
  <2> QED
    BY <2>1, Zenon
<1> HIDE DEF from
<1>7. Find(text, CRLF, from) = e
  <2> DEFINE U == {k \in LineEnds(text) : k >= from}
  <2>1. from \in Nat \ {0} /\ from > m
    BY <1>4
  <2>2. Find(text, CRLF, from) = IF U = {} THEN 0 ELSE Min(U)
    BY <2>1, FindEnd, Zenon
  <2>3. e \in U /\ U \in SUBSET Int /\ \A x \in U : e <= x
    BY <1>4, <2>1 DEF LineEnds
  <2> HIDE DEF U
  <2>4. Min(U) = e
    BY <2>3, MinIs, Zenon
  <2> QED
    BY <2>2, <2>3, <2>4, Zenon
<1>8. ValueFrom(text, from) = SubSeq(text, from, e - 1)
  BY <1>0, <1>4, <1>7 DEF ValueFrom
<1> QED
  BY <1>4, <1>5, <1>6, <1>8, Zenon DEF from

\* extractHeader is HeaderOf on a terminated text.
LEMMA Extracts ==
  ASSUME NEW text \in Text, Terminated(text), NEW name \in Char, tolower(name) # CR
  PROVE  extractHeader(text, name) = HeaderOf(text, name)
<1> DEFINE ends == {k \in 1..Len(text) - 1 : SubSeq(text, k, k + 1) = CRLF}
           LineAt(k) == SubSeq(text, k + 2, Min({e \in ends : e > k}) - 1)
           Mine(k) == LET l == LineAt(k) IN
                      Len(l) >= 2 /\ tolower(l[1]) = tolower(name) /\ l[2] = COLON
           mine == {k \in ends \ {Max(ends)} : Mine(k)}
           m == Min(mine)
           line == LineAt(m)
           value == SubSeq(line, 3, Len(line))
           blank == {n \in 0..Len(value) : \A k \in 1..n : value[k] \in {SP, TAB}}
<1>0. HeaderOf(text, name) = IF mine = {} THEN <<>>
                             ELSE SubSeq(value, Max(blank) + 1, Len(value))
  BY Zenon DEF HeaderOf
<1>6. ends = LineEnds(text)
  BY EndsAre, Zenon
<1> HIDE DEF ends
<1>1. Max(ends) = Len(text) - 1
  <2>1. ends \in SUBSET Int /\ Len(text) - 1 \in ends /\ \A x \in ends : Len(text) - 1 >= x
    BY <1>6, LastEnds DEF LineEnds
  <2> QED
    BY <2>1, MaxIs, Zenon
<1>2. mine = Starts(text, name)
  BY <1>6, <1>1, MineAre, Zenon DEF NextEnd
<1>7. mine \subseteq Nat \ {0}
  <2>1. Starts(text, name) \subseteq Nat \ {0}
    BY DEF Starts, LineEnds
  <2> HIDE DEF mine
  <2> QED
    BY <1>2, <2>1, Zenon
<1>3. extractHeader(text, name) = IF mine = {} THEN <<>>
                                  ELSE ValueFrom(text, SkipBlanks(text, m + 4))
  <2>1. Len(search(name)) = 4
    BY DEF search, CRLF
  <2>2. Find(text, search(name), 1) = IF mine = {} THEN 0 ELSE m
    BY <1>2, FindName, Zenon
  <2>3. mine # {} => m # 0
    <3> HIDE DEF mine
    <3> QED
      BY <1>7, LeastPosition, Zenon
  <2> HIDE DEF mine, m
  <2> QED
    BY <2>1, <2>2, <2>3, Zenon DEF extractHeader
<1>4. CASE mine = {}
  BY <1>0, <1>3, <1>4, Zenon
<1>5. CASE mine # {}
  <2> DEFINE e == NextEnd(text, m)
             from == SkipBlanks(text, m + 4)
  <2>1. m \in mine
    <3> HIDE DEF mine
    <3> QED
      BY <1>5, <1>7, LeastPosition, Zenon
  <2>2. m \in LineEnds(text) /\ m # Len(text) - 1 /\ line = SubSeq(text, m + 2, e - 1)
        /\ Len(line) >= 2
    <3>1. m \in ends \ {Max(ends)} /\ Mine(m)
      BY <2>1, Zenon
    <3>2. line = SubSeq(text, m + 2, e - 1)
      BY <1>6, Zenon DEF NextEnd
    <3> QED
      BY <1>6, <1>1, <3>1, <3>2, Zenon
  <2> HIDE DEF mine, m, line
  <2>3. /\ m \in Nat \ {0} /\ e \in Nat /\ m + 2 <= e /\ e <= Len(text) - 1 /\ m < Len(text) - 1
        /\ Len(line) = e - m - 2 /\ Len(text) \in Nat
    <3>1. m \in Nat \ {0} /\ Len(text) \in Nat
      BY <2>2 DEF LineEnds, Text
    <3>2. /\ e \in Nat /\ m + 2 <= e /\ e <= Len(text) - 1 /\ m < Len(text) - 1
          /\ Len(SubSeq(text, m + 2, e - 1)) = e - m - 2
      BY <2>2, LineIs, Zenon
    <3> QED
      BY <2>2, <3>1, <3>2, Zenon
  <2>4. e \in LineEnds(text) /\ \A k \in LineEnds(text) : k > m => e <= k
    BY <2>3, NextEndIs, Zenon
  <2> HIDE DEF e
  <2>5. m + 4 <= e
    BY <2>2, <2>3
  <2>6. /\ from \in m + 4..e
        /\ text[from] \notin {SP, TAB} /\ \A k \in m + 4..from - 1 : text[k] \in {SP, TAB}
        /\ ValueFrom(text, from) = SubSeq(text, from, e - 1)
    BY <2>3, <2>4, <2>5, ValueIs, Zenon
  <2> HIDE DEF from
  <2>7. value = SubSeq(text, m + 4, e - 1)
    <3>1. /\ m + 2 \in Nat \ {0} /\ e - 1 \in Nat /\ m + 2 <= (e - 1) + 1 /\ e - 1 <= Len(text)
          /\ 3 \in Nat \ {0} /\ 3 <= ((e - 1) - (m + 2) + 1) + 1
          /\ (e - 1) - (m + 2) + 1 = Len(line) /\ (m + 2) + 3 - 1 = m + 4
      BY <2>3, <2>5
    <3>2. SubSeq(SubSeq(text, m + 2, e - 1), 3, (e - 1) - (m + 2) + 1)
            = SubSeq(text, (m + 2) + 3 - 1, e - 1)
      BY <3>1, SubSubSeq, Zenon
    <3> QED
      BY <2>2, <3>1, <3>2, Zenon
  <2>8. /\ m + 4 \in Nat \ {0} /\ e - 1 \in Nat /\ m + 4 <= (e - 1) + 1 /\ e - 1 <= Len(text)
        /\ (e - 1) - (m + 4) + 1 = e - m - 4
    BY <2>3, <2>5
  <2>9. Len(value) = e - m - 4 /\ \A k \in 1..e - m - 4 : value[k] = text[(m + 4) + k - 1]
    <3> DEFINE a == m + 4
               b == e - 1
    <3>1. a \in Nat \ {0} /\ b \in Nat /\ a <= b + 1 /\ b <= Len(text) /\ b - a + 1 = e - m - 4
      BY <2>8, Zenon
    <3>2. value = SubSeq(text, a, b)
      BY <2>7, Zenon
    <3> HIDE DEF a, b, value
    <3>3. Len(value) = b - a + 1 /\ \A k \in 1..b - a + 1 : value[k] = text[a + k - 1]
      BY <3>1, <3>2, SubSeqIs, Zenon
    <3>4. Len(value) = e - m - 4 /\ \A k \in 1..e - m - 4 : value[k] = text[a + k - 1]
      BY <3>1, <3>3, Zenon
    <3> QED
      BY <3>4, Zenon DEF a
  <2> HIDE DEF value
  <2>10. Max(blank) = from - (m + 4)
    <3>1. from - (m + 4) \in blank
      <4>1. from - (m + 4) \in 0..Len(value)
        BY <2>3, <2>6, <2>9
      <4>2. ASSUME NEW k \in 1..from - (m + 4) PROVE value[k] \in {SP, TAB}
        <5>1. k \in 1..e - m - 4 /\ (m + 4) + k - 1 \in m + 4..from - 1
          BY <2>3, <2>6
        <5> QED
          BY <2>6, <2>9, <5>1, Zenon
      <4> QED
        BY <4>1, <4>2, Zenon
    <3>2. ASSUME NEW n \in blank PROVE from - (m + 4) >= n
      <4> SUFFICES ASSUME from - (m + 4) < n PROVE FALSE
        BY <2>3, <2>6
      <4>1. /\ from - (m + 4) + 1 \in 1..n /\ from - (m + 4) + 1 \in 1..e - m - 4
            /\ (m + 4) + (from - (m + 4) + 1) - 1 = from
        BY <2>3, <2>6, <2>9
      <4>2. value[from - (m + 4) + 1] \in {SP, TAB}
        BY <4>1, Zenon
      <4>3. value[from - (m + 4) + 1] = text[from]
        BY <2>9, <4>1, Zenon
      <4> QED
        BY <2>6, <4>2, <4>3, Zenon
    <3>3. blank \in SUBSET Int
      OBVIOUS
    <3> HIDE DEF blank
    <3> QED
      BY <3>1, <3>2, <3>3, MaxIs, Zenon
  <2>11. SubSeq(value, from - (m + 4) + 1, Len(value)) = SubSeq(text, from, e - 1)
    <3> DEFINE c == from - (m + 4) + 1
    <3>1. c \in Nat \ {0} /\ c <= ((e - 1) - (m + 4) + 1) + 1 /\ (m + 4) + c - 1 = from
      BY <2>3, <2>6
    <3> HIDE DEF c
    <3>2. SubSeq(SubSeq(text, m + 4, e - 1), c, (e - 1) - (m + 4) + 1)
            = SubSeq(text, (m + 4) + c - 1, e - 1)
      <4> DEFINE a == m + 4
                 b == e - 1
      <4>1. /\ a \in Nat \ {0} /\ b \in Nat /\ a <= b + 1 /\ b <= Len(text)
            /\ c \in Nat \ {0} /\ c <= (b - a + 1) + 1
        BY <2>8, <3>1, Zenon
      <4> HIDE DEF a, b
      <4>2. SubSeq(SubSeq(text, a, b), c, b - a + 1) = SubSeq(text, a + c - 1, b)
        BY <4>1, SubSubSeq, Zenon
      <4> QED
        BY <4>2, Zenon DEF a, b
    <3>3. SubSeq(value, c, Len(value)) = SubSeq(text, from, e - 1)
      BY <2>7, <2>8, <2>9, <3>1, <3>2, Zenon
    <3> QED
      BY <3>3, Zenon DEF c
  <2> QED
    BY <1>0, <1>3, <1>5, <2>6, <2>10, <2>11, Zenon DEF from
<1> QED
  BY <1>4, <1>5, Zenon

-----------------------------------------------------------------------------
(* Texts that are written line by line.                                    *)

\* Lines, each with its end and none of them empty.
Lines(t) ==
  /\ t \in Text /\ Len(t) >= 3 /\ t[Len(t) - 1] = CR /\ t[Len(t)] = LF
  /\ \A k \in LineEnds(t) : k + 2 \notin LineEnds(t)

\* The first of the lines with that name has that value.
Carries(t, name, value) ==
  \E k \in Starts(t, name) :
    /\ \A j \in Starts(t, name) : k <= j
    /\ k + 5 + Len(value) \in LineEnds(t)
    /\ \A j \in LineEnds(t) : j > k => k + 5 + Len(value) <= j
    /\ t[k + 4] = SP
    /\ \A i \in 1..Len(value) : t[k + 4 + i] = value[i]

\* A header name.
HeaderName(name) == name \in Char /\ tolower(name) \notin {CR, LF}

LEMMA ConcatIs ==
  ASSUME NEW x \in Text, NEW y \in Text
  PROVE  /\ x \o y \in Text /\ Len(x) \in Nat /\ Len(y) \in Nat
         /\ Len(x \o y) = Len(x) + Len(y)
         /\ \A k \in 1..Len(x) : (x \o y)[k] = x[k]
         /\ \A k \in 1..Len(y) : (x \o y)[Len(x) + k] = y[k]
BY DEF Text

LEMMA LineHas ==
  ASSUME NEW name \in Char, NEW value \in Text
  PROVE  LET l == Line(name, value)
             n == Len(value)
         IN  /\ l \in Text /\ n \in Nat /\ Len(l) = n + 5
             /\ l[1] = name /\ l[2] = COLON /\ l[3] = SP
             /\ \A i \in 1..n : l[3 + i] = value[i]
             /\ l[4 + n] = CR /\ l[5 + n] = LF
<1> DEFINE h == <<name, COLON, SP>>
           hv == h \o value
           l == hv \o CRLF
           n == Len(value)
<1>0. l = Line(name, value)
  BY Zenon DEF Line
<1>1. h \in Text /\ Len(h) = 3 /\ h[1] = name /\ h[2] = COLON /\ h[3] = SP
  BY DEF Text, Char, COLON, SP
<1>2. CRLF \in Text /\ Len(CRLF) = 2 /\ CRLF[1] = CR /\ CRLF[2] = LF
  BY DEF Text, Char, CRLF, CR, LF
<1> HIDE DEF h
<1>3. /\ hv \in Text /\ n \in Nat /\ Len(hv) = 3 + n
      /\ \A k \in 1..3 : hv[k] = h[k]
      /\ \A k \in 1..n : hv[3 + k] = value[k]
  <2>1. /\ hv \in Text /\ n \in Nat /\ Len(hv) = Len(h) + n
        /\ \A k \in 1..Len(h) : hv[k] = h[k]
        /\ \A k \in 1..n : hv[Len(h) + k] = value[k]
    BY <1>1, ConcatIs, Zenon
  <2> HIDE DEF hv
  <2> QED
    BY <1>1, <2>1, Zenon
<1> HIDE DEF hv
<1>4. /\ l \in Text /\ Len(l) = (3 + n) + 2
      /\ \A k \in 1..3 + n : l[k] = hv[k]
      /\ \A k \in 1..2 : l[(3 + n) + k] = CRLF[k]
  <2>1. /\ l \in Text /\ Len(l) = Len(hv) + Len(CRLF)
        /\ \A k \in 1..Len(hv) : l[k] = hv[k]
        /\ \A k \in 1..Len(CRLF) : l[Len(hv) + k] = CRLF[k]
    BY <1>2, <1>3, ConcatIs, Zenon
  <2> HIDE DEF l
  <2> QED
    BY <1>2, <1>3, <2>1, Zenon
<1> HIDE DEF l
<1>5. l[1] = name /\ l[2] = COLON /\ l[3] = SP /\ \A i \in 1..n : l[3 + i] = value[i]
  BY <1>1, <1>3, <1>4
<1>6. l[(3 + n) + 1] = CR /\ l[(3 + n) + 2] = LF
  BY <1>2, <1>4
<1>7. (3 + n) + 1 = 4 + n /\ (3 + n) + 2 = 5 + n /\ (3 + n) + 2 = n + 5
  BY <1>3
<1> QED
  BY <1>0, <1>3, <1>4, <1>5, <1>6, <1>7, Zenon

\* One line more.
LEMMA LineAdded ==
  ASSUME NEW t, Lines(t), NEW name, HeaderName(name), NEW value \in Text, Plain(value)
  PROVE  LET u == t \o Line(name, value) IN
         /\ u \in Text /\ Len(t) \in Nat /\ Len(u) = Len(t) + 5 + Len(value) /\ Len(value) \in Nat \ {0}
         /\ \A k \in 1..Len(t) : u[k] = t[k]
         /\ u[Len(t) + 1] = name /\ u[Len(t) + 2] = COLON /\ u[Len(t) + 3] = SP
         /\ \A i \in 1..Len(value) : u[Len(t) + 3 + i] = value[i]
         /\ u[Len(u) - 1] = CR /\ u[Len(u)] = LF
         /\ LineEnds(u) = LineEnds(t) \cup {Len(u) - 1}
<1> DEFINE l == Line(name, value)
           n == Len(value)
           m == Len(t)
           u == t \o l
<1>0. name \in Char /\ t \in Text /\ t[m - 1] = CR /\ t[m] = LF /\ m >= 3
  BY Zenon DEF HeaderName, Lines
<1>1. /\ l \in Text /\ n \in Nat /\ Len(l) = n + 5
      /\ l[1] = name /\ l[2] = COLON /\ l[3] = SP
      /\ \A i \in 1..n : l[3 + i] = value[i]
      /\ l[4 + n] = CR /\ l[5 + n] = LF
  BY <1>0, LineHas, Zenon
<1> HIDE DEF l
<1>2. /\ u \in Text /\ m \in Nat /\ Len(u) = m + Len(l)
      /\ \A k \in 1..m : u[k] = t[k]
      /\ \A k \in 1..Len(l) : u[m + k] = l[k]
  BY <1>0, <1>1, ConcatIs, Zenon
<1> HIDE DEF u
<1>3. n # 0
  <2>1. value # <<>> /\ value \in Seq(Char)
    BY Zenon DEF Plain, Text
  <2> QED
    BY <2>1
<1>4. u[m + 1] = name /\ u[m + 2] = COLON /\ u[m + 3] = SP
  <2>1. 1 \in 1..Len(l) /\ 2 \in 1..Len(l) /\ 3 \in 1..Len(l)
    BY <1>1
  <2> QED
    BY <1>1, <1>2, <2>1, Zenon
<1>5. ASSUME NEW i \in 1..n PROVE u[m + 3 + i] = value[i]
  <2>1. 3 + i \in 1..Len(l) /\ m + (3 + i) = m + 3 + i
    BY <1>1, <1>2
  <2> QED
    BY <1>1, <1>2, <2>1, Zenon
<1>6. u[m + 4 + n] = CR /\ u[m + 5 + n] = LF
  <2>1. 4 + n \in 1..Len(l) /\ 5 + n \in 1..Len(l) /\ m + (4 + n) = m + 4 + n
        /\ m + (5 + n) = m + 5 + n
    BY <1>1, <1>2
  <2> QED
    BY <1>1, <1>2, <2>1, Zenon
<1>7. Len(u) = m + 5 + n /\ Len(u) - 1 = m + 4 + n
  BY <1>1, <1>2
<1>8. LineEnds(u) = LineEnds(t) \cup {m + 4 + n}
  <2>1. ASSUME NEW k \in 1..m - 1 PROVE k \in LineEnds(u) <=> k \in LineEnds(t)
    <3>1. u[k] = t[k] /\ u[k + 1] = t[k + 1] /\ k \in 1..Len(u) - 1
      BY <1>1, <1>2
    <3> QED
      BY <3>1, Zenon DEF LineEnds
  <2>2. ASSUME NEW k \in m..m + 3 + n PROVE k \notin LineEnds(u)
    <3>1. CASE k = m
      <4>1. u[k] = LF
        BY <1>0, <1>2, <3>1
      <4> QED
        BY <4>1 DEF LineEnds, CR, LF
    <3>2. CASE k = m + 1
      <4>1. u[k] # CR
        BY <1>0, <1>4, <3>2, CaseFacts, Zenon DEF HeaderName
      <4> QED
        BY <4>1, Zenon DEF LineEnds
    <3>3. CASE k = m + 2 \/ k = m + 3
      <4>1. u[k] # CR
        BY <1>4, <3>3 DEF CR, COLON, SP
      <4> QED
        BY <4>1, Zenon DEF LineEnds
    <3>4. CASE k > m + 3
      <4>1. k - m - 3 \in 1..n /\ m + 3 + (k - m - 3) = k
        BY <1>1, <1>2, <3>4
      <4>2. u[k] = value[k - m - 3]
        BY <1>5, <4>1, Zenon
      <4>3. u[k] # CR
        BY <4>1, <4>2, Zenon DEF Plain
      <4> QED
        BY <4>3, Zenon DEF LineEnds
    <3> QED
      BY <1>2, <3>1, <3>2, <3>3, <3>4
  <2>3. m + 4 + n \in LineEnds(u)
    <3>1. m + 4 + n \in 1..Len(u) - 1 /\ m + 4 + n + 1 = m + 5 + n
      BY <1>1, <1>2, <1>7
    <3> QED
      BY <1>6, <3>1, Zenon DEF LineEnds
  <2>4. LineEnds(t) \subseteq 1..m - 1
    BY Zenon DEF LineEnds
  <2>5. ASSUME NEW k \in LineEnds(u)
        PROVE  k \in 1..m - 1 \/ k \in m..m + 3 + n \/ k = m + 4 + n
    <3>1. k \in Int /\ 1 <= k /\ k <= m + 4 + n /\ m \in Int /\ n \in Int
      BY <1>1, <1>2, <1>7 DEF LineEnds
    <3> HIDE DEF m, n
    <3> QED
      BY <3>1
  <2> QED
    BY <2>1, <2>2, <2>3, <2>4, <2>5, Zenon
<1> QED
  BY <1>1, <1>2, <1>3, <1>4, <1>5, <1>6, <1>7, <1>8, Zenon DEF u, l

\* What a line more does to the lines of a name.
LEMMA LineKeeps ==
  ASSUME NEW t, Lines(t), NEW name, HeaderName(name), NEW value \in Text, Plain(value)
  PROVE  LET u == t \o Line(name, value) IN
         /\ Lines(u)
         /\ Len(t) - 1 \in Starts(u, name)
         /\ \A other \in Char :
              /\ Starts(t, other) \subseteq Starts(u, other)
              /\ Starts(u, other) \subseteq Starts(t, other) \cup {Len(t) - 1}
              /\ tolower(other) # tolower(name) => Starts(u, other) = Starts(t, other)
<1> DEFINE u == t \o Line(name, value)
           n == Len(value)
           m == Len(t)
<1>0. t \in Text /\ t[m - 1] = CR /\ t[m] = LF /\ m >= 3 /\ name \in Char
      /\ \A k \in LineEnds(t) : k + 2 \notin LineEnds(t)
  BY Zenon DEF HeaderName, Lines
<1>1. /\ u \in Text /\ m \in Nat /\ Len(u) = m + 5 + n /\ n \in Nat \ {0}
      /\ \A k \in 1..m : u[k] = t[k]
      /\ u[m + 1] = name /\ u[m + 2] = COLON
      /\ u[Len(u) - 1] = CR /\ u[Len(u)] = LF
      /\ LineEnds(u) = LineEnds(t) \cup {Len(u) - 1}
  BY LineAdded
<1> HIDE DEF u
<1>2. LineEnds(t) \subseteq 1..m - 1 /\ m - 1 \in LineEnds(t)
  BY <1>0, <1>1 DEF LineEnds
<1>3. Lines(u)
  <2>1. ASSUME NEW k \in LineEnds(u), k + 2 \in LineEnds(u) PROVE FALSE
    <3>1. CASE k \in LineEnds(t) /\ k + 2 \in LineEnds(t)
      BY <1>0, <3>1, Zenon
    <3>2. CASE k = Len(u) - 1
      BY <1>1, <1>2, <2>1, <3>2
    <3>3. CASE k \in LineEnds(t) /\ k + 2 = Len(u) - 1
      BY <1>1, <1>2, <3>3
    <3> QED
      BY <1>1, <2>1, <3>1, <3>2, <3>3, Zenon
  <2> QED
    BY <1>0, <1>1, <2>1 DEF Lines
<1>4. m - 1 \in Starts(u, name)
  <2>1. m - 1 + 2 = m + 1 /\ m - 1 + 3 = m + 2 /\ m - 1 <= Len(u) - 3
    BY <1>1
  <2> QED
    BY <1>1, <1>2, <2>1, Zenon DEF Starts
<1>5. ASSUME NEW other \in Char, NEW k \in LineEnds(u)
      PROVE  k \in Starts(u, other)
               <=> k \in Starts(t, other) \/ (k = m - 1 /\ tolower(name) = tolower(other))
  <2>1. CASE k = m - 1
    <3>1. m - 1 + 2 = m + 1 /\ m - 1 + 3 = m + 2 /\ m - 1 <= Len(u) - 3 /\ ~(m - 1 <= m - 3)
      BY <1>1
    <3> QED
      BY <1>1, <2>1, <3>1, Zenon DEF Starts
  <2>2. CASE k \in LineEnds(t) /\ k # m - 1
    <3>1. k # m - 2
      <4>1. m - 2 + 1 = m - 1 /\ t[m - 1] # LF
        BY <1>0, <1>1 DEF CR, LF
      <4> QED
        BY <2>2, <4>1, Zenon DEF LineEnds
    <3>2. k \in 1..m - 3 /\ k <= Len(u) - 3 /\ k <= m - 3
      <4>1. k \in Int /\ 1 <= k /\ k <= m - 1 /\ m \in Int /\ n \in Nat
        BY <1>1, <1>2, <2>2
      <4> QED
        BY <1>1, <2>2, <3>1, <4>1
    <3>3. u[k + 2] = t[k + 2] /\ u[k + 3] = t[k + 3]
      BY <1>1, <3>2
    <3> QED
      BY <2>2, <3>2, <3>3, Zenon DEF Starts
  <2>3. CASE k = Len(u) - 1 /\ k \notin LineEnds(t)
    <3>1. ~(k <= Len(u) - 3) /\ k # m - 1
      BY <1>1, <1>2, <2>3
    <3> QED
      BY <2>3, <3>1, Zenon DEF Starts
  <2> QED
    BY <1>1, <2>1, <2>2, <2>3, Zenon
<1>6. \A other \in Char : Starts(u, other) \subseteq LineEnds(u) /\ Starts(t, other) \subseteq LineEnds(u)
  BY <1>1, Zenon DEF Starts
<1>7. \A other \in Char :
        /\ Starts(t, other) \subseteq Starts(u, other)
        /\ Starts(u, other) \subseteq Starts(t, other) \cup {m - 1}
        /\ tolower(other) # tolower(name) => Starts(u, other) = Starts(t, other)
  BY <1>5, <1>6, Zenon
<1> QED
  BY <1>3, <1>4, <1>7, Zenon DEF u

\* The first line of a name stays, and a first line of a name is found.
LEMMA CarriesKept ==
  ASSUME NEW t, Lines(t), NEW name, HeaderName(name), NEW value \in Text, Plain(value),
         NEW other \in Char, NEW held \in Text, Carries(t, other, held)
  PROVE  Carries(t \o Line(name, value), other, held)
<1> DEFINE u == t \o Line(name, value)
<1>1. /\ Len(t) \in Nat /\ Len(u) = Len(t) + 5 + Len(value) /\ Len(value) \in Nat \ {0}
      /\ \A k \in 1..Len(t) : u[k] = t[k]
      /\ LineEnds(u) = LineEnds(t) \cup {Len(u) - 1}
  BY LineAdded
<1>2. /\ Starts(t, other) \subseteq Starts(u, other)
      /\ Starts(u, other) \subseteq Starts(t, other) \cup {Len(t) - 1}
  BY LineKeeps, Zenon
<1>3. PICK k \in Starts(t, other) :
        /\ \A j \in Starts(t, other) : k <= j
        /\ k + 5 + Len(held) \in LineEnds(t)
        /\ \A j \in LineEnds(t) : j > k => k + 5 + Len(held) <= j
        /\ t[k + 4] = SP
        /\ \A i \in 1..Len(held) : t[k + 4 + i] = held[i]
  BY Zenon DEF Carries
<1>4. Len(held) \in Nat /\ k \in Nat \ {0} /\ k <= Len(t) - 3
      /\ k + 5 + Len(held) <= Len(t) - 1
  BY <1>3 DEF Starts, LineEnds, Text
<1> HIDE DEF u
<1>5. \A j \in Starts(u, other) : k <= j
  BY <1>1, <1>2, <1>3, <1>4
<1>6. \A j \in LineEnds(u) : j > k => k + 5 + Len(held) <= j
  BY <1>1, <1>3, <1>4
<1>7. u[k + 4] = SP
  <2>1. k + 4 \in 1..Len(t)
    BY <1>1, <1>4
  <2> QED
    BY <1>1, <1>3, <2>1, Zenon
<1>8. ASSUME NEW i \in 1..Len(held) PROVE u[k + 4 + i] = held[i]
  <2>1. k + 4 + i \in 1..Len(t)
    BY <1>1, <1>4
  <2> QED
    BY <1>1, <1>3, <2>1, Zenon
<1>9. k \in Starts(u, other) /\ k + 5 + Len(held) \in LineEnds(u)
  BY <1>1, <1>2, <1>3, Zenon
<1> QED
  BY <1>5, <1>6, <1>7, <1>8, <1>9, Zenon DEF Carries, u

LEMMA CarriesNew ==
  ASSUME NEW t, Lines(t), NEW name, HeaderName(name), NEW value \in Text, Plain(value),
         Starts(t, name) = {}
  PROVE  Carries(t \o Line(name, value), name, value)
<1> DEFINE u == t \o Line(name, value)
           k == Len(t) - 1
<1>0. name \in Char /\ Len(t) >= 3
  BY Zenon DEF HeaderName, Lines
<1>1. /\ Len(t) \in Nat /\ Len(u) = Len(t) + 5 + Len(value) /\ Len(value) \in Nat \ {0}
      /\ u[Len(t) + 3] = SP
      /\ \A i \in 1..Len(value) : u[Len(t) + 3 + i] = value[i]
      /\ LineEnds(u) = LineEnds(t) \cup {Len(u) - 1}
  BY LineAdded
<1>2. k \in Starts(u, name) /\ Starts(u, name) \subseteq Starts(t, name) \cup {k}
  BY <1>0, LineKeeps, Zenon
<1> HIDE DEF u
<1>3. /\ k + 4 = Len(t) + 3 /\ k + 5 + Len(value) = Len(u) - 1
      /\ \A i \in 1..Len(value) : k + 4 + i = Len(t) + 3 + i
      /\ \A j \in LineEnds(t) : ~(j > k)
  BY <1>1 DEF LineEnds
<1>4. \A j \in Starts(u, name) : k <= j
  BY <1>0, <1>1, <1>2
<1>5. /\ k + 5 + Len(value) \in LineEnds(u) /\ u[k + 4] = SP
      /\ \A i \in 1..Len(value) : u[k + 4 + i] = value[i]
  BY <1>1, <1>3, Zenon
<1>6. \A j \in LineEnds(u) : j > k => k + 5 + Len(value) <= j
  BY <1>1, <1>3
<1> HIDE DEF k
<1> QED
  BY <1>2, <1>4, <1>5, <1>6, Zenon DEF Carries, u

\* The text ends with the first empty line in it.
Whole(t) == Terminated(t) /\ \A n \in 0..Len(t) - 1 : ~Terminated(SubSeq(t, 1, n))

\* The empty line at the end.
LEMMA EmptyLineAdded ==
  ASSUME NEW t, Lines(t)
  PROVE  LET w == t \o CRLF IN
         /\ w \in Text /\ Len(t) \in Nat /\ Len(w) = Len(t) + 2
         /\ \A k \in 1..Len(t) : w[k] = t[k]
         /\ w[Len(t) + 1] = CR /\ w[Len(t) + 2] = LF
         /\ LineEnds(w) = LineEnds(t) \cup {Len(t) + 1}
<1> DEFINE m == Len(t)
           w == t \o CRLF
<1>0. t \in Text /\ t[m - 1] = CR /\ t[m] = LF /\ m >= 3
  BY Zenon DEF Lines
<1>1. CRLF \in Text /\ Len(CRLF) = 2 /\ CRLF[1] = CR /\ CRLF[2] = LF
  BY DEF Text, Char, CRLF, CR, LF
<1>2. /\ w \in Text /\ m \in Nat /\ Len(w) = m + Len(CRLF)
      /\ \A k \in 1..m : w[k] = t[k]
      /\ \A k \in 1..Len(CRLF) : w[m + k] = CRLF[k]
  BY <1>0, <1>1, ConcatIs, Zenon
<1> HIDE DEF w
<1>3. Len(w) = m + 2 /\ w[m + 1] = CR /\ w[m + 2] = LF
  BY <1>1, <1>2
<1>4. LineEnds(w) = LineEnds(t) \cup {m + 1}
  <2>1. ASSUME NEW k \in 1..m - 1 PROVE k \in LineEnds(w) <=> k \in LineEnds(t)
    <3>1. w[k] = t[k] /\ w[k + 1] = t[k + 1] /\ k \in 1..Len(w) - 1
      BY <1>2, <1>3
    <3> QED
      BY <3>1, Zenon DEF LineEnds
  <2>2. m \notin LineEnds(w)
    <3>1. w[m] = LF
      BY <1>0, <1>2
    <3> QED
      BY <3>1 DEF LineEnds, CR, LF
  <2>3. m + 1 \in LineEnds(w)
    <3>1. m + 1 \in 1..Len(w) - 1 /\ (m + 1) + 1 = m + 2
      BY <1>2, <1>3
    <3> QED
      BY <1>3, <3>1, Zenon DEF LineEnds
  <2>4. LineEnds(t) \subseteq 1..m - 1
    BY Zenon DEF LineEnds
  <2>5. ASSUME NEW k \in LineEnds(w) PROVE k \in 1..m - 1 \/ k = m \/ k = m + 1
    <3>1. k \in Int /\ 1 <= k /\ k <= m + 1 /\ m \in Int
      BY <1>2, <1>3 DEF LineEnds
    <3> HIDE DEF m
    <3> QED
      BY <3>1
  <2> QED
    BY <2>1, <2>2, <2>3, <2>4, <2>5, Zenon
<1> QED
  BY <1>2, <1>3, <1>4, Zenon DEF w

LEMMA WholeText ==
  ASSUME NEW t, Lines(t)
  PROVE  Whole(t \o CRLF)
<1> DEFINE m == Len(t)
           w == t \o CRLF
<1>0. t \in Text /\ t[m - 1] = CR /\ t[m] = LF /\ m >= 3
      /\ \A k \in LineEnds(t) : k + 2 \notin LineEnds(t)
  BY Zenon DEF Lines
<1>1. /\ w \in Text /\ m \in Nat /\ Len(w) = m + 2
      /\ \A k \in 1..m : w[k] = t[k]
      /\ w[m + 1] = CR /\ w[m + 2] = LF
      /\ LineEnds(w) = LineEnds(t) \cup {m + 1}
  BY EmptyLineAdded, Zenon
<1> HIDE DEF w
<1>2. Terminated(w)
  <2> DEFINE u == SubSeq(w, m - 1, m + 2)
             v == CRLF \o CRLF
  <2>1. v \in Text /\ Len(v) = 4 /\ v[1] = CR /\ v[2] = LF /\ v[3] = CR /\ v[4] = LF
    BY DEF Text, Char, CRLF, CR, LF
  <2>2. m - 1 \in Nat \ {0} /\ m + 2 \in Nat /\ m - 1 <= (m + 2) + 1 /\ m + 2 <= Len(w)
        /\ (m + 2) - (m - 1) + 1 = 4
    BY <1>0, <1>1
  <2>3. u \in Text /\ Len(u) = 4 /\ \A k \in 1..4 : u[k] = w[(m - 1) + k - 1]
    <3> DEFINE a == m - 1
               b == m + 2
    <3>1. a \in Nat \ {0} /\ b \in Nat /\ a <= b + 1 /\ b <= Len(w) /\ b - a + 1 = 4
      BY <2>2, Zenon
    <3> HIDE DEF a, b
    <3>2. /\ SubSeq(w, a, b) \in Text /\ Len(SubSeq(w, a, b)) = 4
          /\ \A k \in 1..4 : SubSeq(w, a, b)[k] = w[a + k - 1]
      BY <1>1, <3>1, SubSeqIs
    <3> QED
      BY <3>2, Zenon DEF a, b
  <2>4. /\ (m - 1) + 1 - 1 = m - 1 /\ (m - 1) + 2 - 1 = m
        /\ (m - 1) + 3 - 1 = m + 1 /\ (m - 1) + 4 - 1 = m + 2 /\ m - 1 \in 1..m /\ m \in 1..m
    BY <1>0, <1>1
  <2> HIDE DEF u, v
  <2>5. /\ u[1] = w[(m - 1) + 1 - 1] /\ u[2] = w[(m - 1) + 2 - 1]
        /\ u[3] = w[(m - 1) + 3 - 1] /\ u[4] = w[(m - 1) + 4 - 1]
    BY <2>3
  <2>6. u[1] = CR /\ u[2] = LF /\ u[3] = CR /\ u[4] = LF
    BY <1>0, <1>1, <2>4, <2>5, Zenon
  <2>7. \A k \in 1..4 : u[k] = v[k]
    BY <2>1, <2>6
  <2>8. u = v
    BY <2>1, <2>3, <2>7, SeqEqual, Zenon DEF Text
  <2>9. Len(w) >= 4 /\ Len(w) - 3 = m - 1 /\ Len(w) = m + 2
    BY <1>0, <1>1
  <2> QED
    BY <2>8, <2>9, Zenon DEF Terminated, u, v
<1>3. ASSUME NEW n \in 0..Len(w) - 1, Terminated(SubSeq(w, 1, n)) PROVE FALSE
  <2> DEFINE q == SubSeq(w, 1, n)
  <2>1. 1 \in Nat \ {0} /\ n \in Nat /\ 1 <= n + 1 /\ n <= Len(w) /\ n - 1 + 1 = n
    BY <1>1
  <2>2. q \in Text /\ Len(q) = n /\ \A k \in 1..n : q[k] = w[1 + k - 1]
    BY <1>1, <2>1, SubSeqIs
  <2>3. n >= 4 /\ n - 3 \in LineEnds(q) /\ n - 1 \in LineEnds(q)
    BY <1>3, <2>2, LastEnds, Zenon
  <2> HIDE DEF q
  <2>4. ASSUME NEW k \in LineEnds(q) PROVE k \in LineEnds(t)
    <3>1. k \in 1..n - 1 /\ q[k] = CR /\ q[k + 1] = LF
      BY <2>2, Zenon DEF LineEnds
    <3>2. k \in 1..n /\ k + 1 \in 1..n /\ 1 + k - 1 = k /\ 1 + (k + 1) - 1 = k + 1
          /\ k \in 1..Len(w) - 1 /\ k # m + 1
      BY <1>1, <2>1, <3>1
    <3>3. w[k] = CR /\ w[k + 1] = LF
      BY <2>2, <3>1, <3>2, Zenon
    <3>4. k \in LineEnds(w)
      BY <3>2, <3>3, Zenon DEF LineEnds
    <3> QED
      BY <1>1, <3>2, <3>4, Zenon
  <2>5. (n - 3) + 2 = n - 1
    BY <2>1
  <2> QED
    BY <1>0, <2>3, <2>4, <2>5, Zenon
<1> QED
  BY <1>2, <1>3, Zenon DEF Whole, w

\* extractHeader finds what the text carries.
LEMMA CarriesRead ==
  ASSUME NEW t, Lines(t), NEW name, HeaderName(name), NEW value \in Text, Plain(value),
         Carries(t, name, value)
  PROVE  extractHeader(t \o CRLF, name) = value
<1> DEFINE w == t \o CRLF
           m == Len(t)
           n == Len(value)
<1>0. name \in Char /\ tolower(name) # CR /\ m >= 3 /\ t[m - 1] = CR
  BY Zenon DEF HeaderName, Lines
<1>1. /\ w \in Text /\ m \in Nat /\ Len(w) = m + 2
      /\ \A k \in 1..m : w[k] = t[k]
      /\ w[m + 1] = CR /\ w[m + 2] = LF
      /\ LineEnds(w) = LineEnds(t) \cup {m + 1}
  BY EmptyLineAdded, Zenon
<1>2. Terminated(w)
  BY WholeText, Zenon DEF Whole
<1> HIDE DEF w
<1>3. Starts(w, name) = Starts(t, name)
  <2>1. ASSUME NEW k \in LineEnds(w) PROVE k \in Starts(w, name) <=> k \in Starts(t, name)
    <3>1. CASE k = m - 1
      <4>1. k + 2 = m + 1 /\ ~(k <= m - 3)
        BY <1>1, <3>1
      <4> QED
        BY <1>0, <1>1, <4>1, CaseFacts, Zenon DEF Starts
    <3>2. CASE k = m + 1
      <4>1. ~(k <= Len(w) - 3) /\ ~(k <= m - 3)
        BY <1>1, <3>2
      <4> QED
        BY <4>1, Zenon DEF Starts
    <3>3. CASE k \in LineEnds(t) /\ k # m - 1
      <4>1. k # m - 2
        <5>1. m - 2 + 1 = m - 1 /\ t[m - 1] # LF
          BY <1>0, <1>1 DEF CR, LF
        <5> QED
          BY <3>3, <5>1, Zenon DEF LineEnds
      <4>2. k \in Int /\ 1 <= k /\ k <= m - 1 /\ m \in Int
        BY <1>1, <3>3 DEF LineEnds
      <4>3. k <= m - 3 /\ k <= Len(w) - 3 /\ k + 2 \in 1..m /\ k + 3 \in 1..m
        BY <1>1, <3>3, <4>1, <4>2
      <4>4. w[k + 2] = t[k + 2] /\ w[k + 3] = t[k + 3]
        BY <1>1, <4>3, Zenon
      <4> QED
        BY <3>3, <4>3, <4>4, Zenon DEF Starts
    <3> QED
      BY <1>1, <3>1, <3>2, <3>3, Zenon
  <2>2. Starts(w, name) \subseteq LineEnds(w) /\ Starts(t, name) \subseteq LineEnds(w)
    BY <1>1, Zenon DEF Starts
  <2> QED
    BY <2>1, <2>2, Zenon
<1>4. PICK k \in Starts(t, name) :
        /\ \A j \in Starts(t, name) : k <= j
        /\ k + 5 + n \in LineEnds(t)
        /\ \A j \in LineEnds(t) : j > k => k + 5 + n <= j
        /\ t[k + 4] = SP
        /\ \A i \in 1..n : t[k + 4 + i] = value[i]
  BY Zenon DEF Carries
<1> DEFINE e == k + 5 + n
           from == SkipBlanks(w, k + 4)
<1>5. n \in Nat \ {0}
  <2>1. value # <<>> /\ value \in Seq(Char)
    BY Zenon DEF Plain, Text
  <2> QED
    BY <2>1
<1>6. k \in Nat \ {0} /\ k <= m - 3 /\ e <= m - 1 /\ e \in LineEnds(w)
  <2>1. k \in Nat \ {0} /\ k <= m - 3
    BY <1>1 DEF Starts, LineEnds
  <2>2. e <= m - 1
    BY <1>4 DEF LineEnds
  <2> QED
    BY <1>1, <1>4, <2>1, <2>2, Zenon
<1>7. \A j \in LineEnds(w) : j > k => e <= j
  BY <1>1, <1>4, <1>6
<1>8. Find(w, search(name), 1) = k
  <2>1. Find(w, search(name), 1) = IF Starts(t, name) = {} THEN 0 ELSE Min(Starts(t, name))
    BY <1>0, <1>1, <1>3, FindName, Zenon
  <2>2. Starts(t, name) \in SUBSET Int
    BY DEF Starts, LineEnds
  <2>3. Min(Starts(t, name)) = k
    BY <1>4, <2>2, MinIs, Zenon
  <2> QED
    BY <1>4, <2>1, <2>3, Zenon
<1>9. extractHeader(w, name) = ValueFrom(w, from)
  <2>1. Len(search(name)) = 4
    BY DEF search, CRLF
  <2> QED
    BY <1>6, <1>8, <2>1, Zenon DEF extractHeader
<1>10. /\ from \in k + 4..e
       /\ w[from] \notin {SP, TAB} /\ \A j \in k + 4..from - 1 : w[j] \in {SP, TAB}
       /\ ValueFrom(w, from) = SubSeq(w, from, e - 1)
  <2>1. k + 4 <= e
    BY <1>5, <1>6
  <2>2. w \in Text /\ k \in Nat \ {0} /\ e \in LineEnds(w)
    BY <1>1, <1>6, Zenon
  <2> HIDE DEF e
  <2> QED
    BY <1>2, <1>7, <2>1, <2>2, ValueIs, Zenon
<1> HIDE DEF from
<1>11. w[k + 4] = SP /\ \A i \in 1..n : w[k + 4 + i] = value[i]
  <2>1. k + 4 \in 1..m /\ \A i \in 1..n : k + 4 + i \in 1..m
    BY <1>1, <1>5, <1>6
  <2> QED
    BY <1>1, <1>4, <2>1, Zenon
<1>12. from = k + 5
  <2>1. w[k + 5] \notin {SP, TAB}
    <3>1. 1 \in 1..n /\ k + 4 + 1 = k + 5
      BY <1>5, <1>6
    <3>2. w[k + 4 + 1] = value[1]
      BY <1>11, <3>1, Zenon
    <3>3. value[1] \notin {SP, TAB}
      BY <3>1, Zenon DEF Plain
    <3> QED
      BY <3>1, <3>2, <3>3, Zenon
  <2>2. from # k + 4
    BY <1>10, <1>11, Zenon
  <2>3. k + 5 \notin k + 4..from - 1
    BY <1>10, <2>1, Zenon
  <2> QED
    BY <1>5, <1>6, <1>10, <2>2, <2>3
<1>13. SubSeq(w, k + 5, e - 1) = value
  <2> DEFINE a == k + 5
             b == e - 1
             u == SubSeq(w, a, b)
  <2>1. a \in Nat \ {0} /\ b \in Nat /\ a <= b + 1 /\ b <= Len(w) /\ b - a + 1 = n
    BY <1>1, <1>5, <1>6
  <2>2. \A i \in 1..n : a + i - 1 = k + 4 + i
    BY <1>6
  <2> HIDE DEF a, b
  <2>3. u \in Text /\ Len(u) = n /\ \A i \in 1..n : u[i] = w[a + i - 1]
    <3>1. /\ u \in Text /\ Len(u) = b - a + 1
          /\ \A i \in 1..b - a + 1 : u[i] = w[a + i - 1]
      BY <1>1, <2>1, SubSeqIs, Zenon
    <3> QED
      BY <2>1, <3>1, Zenon
  <2> HIDE DEF u
  <2>4. \A i \in 1..n : u[i] = value[i]
    BY <1>11, <2>2, <2>3, Zenon
  <2>5. u = value
    BY <2>3, <2>4, SeqEqual, Zenon DEF Text
  <2> QED
    BY <2>5, Zenon DEF u, a, b
<1> QED
  BY <1>9, <1>10, <1>12, <1>13, Zenon DEF w

-----------------------------------------------------------------------------
(* The request and the response.                                           *)

LEMMA FirstLine ==
  ASSUME NEW first \in Char \ {CR}
  PROVE  LET t == <<first>> \o CRLF IN
         /\ Lines(t) /\ Len(t) = 3 /\ t[1] = first /\ t[2] = CR /\ t[3] = LF
         /\ \A name \in Char : Starts(t, name) = {}
<1> DEFINE t == <<first>> \o CRLF
<1>1. t \in Text /\ Len(t) = 3 /\ t[1] = first /\ t[2] = CR /\ t[3] = LF
  BY DEF Text, Char, CRLF, CR, LF
<1> HIDE DEF t
<1>2. LineEnds(t) = {2}
  BY <1>1 DEF LineEnds, CR, LF
<1>3. Lines(t)
  BY <1>1, <1>2 DEF Lines
<1>4. \A name \in Char : Starts(t, name) = {}
  BY <1>1, <1>2 DEF Starts
<1> QED
  BY <1>1, <1>3, <1>4, Zenon DEF t

\* The names in use are told apart in either case.
LEMMA Names ==
  LET names == {Host, Upgrade, Connection, SecWebSocketKey, SecWebSocketVersion,
                SecWebSocketAccept, UserId}
  IN  /\ \A a \in names : HeaderName(a) /\ a \in Char
      /\ \A a, b \in names : tolower(a) = tolower(b) => a = b
BY DEF HeaderName, tolower, CR, LF, Char, Host, Upgrade, Connection, SecWebSocketKey,
       SecWebSocketVersion, SecWebSocketAccept, UserId

LEMMA Words ==
  \A w \in {WebSocket, Upgrade, Filler} : <<w>> \in Text /\ Plain(<<w>>)
BY DEF Text, Char, Plain, WebSocket, Upgrade, Filler, CR, LF, TAB, SP

\* A line more leaves the beginning of a text alone, and the lines of other names.
Begins(u, t) == u[1] = t[1] /\ u[2] = t[2] /\ u[3] = t[3]

LEMMA LineBegins ==
  ASSUME NEW t, Lines(t), NEW name, HeaderName(name), NEW value \in Text, Plain(value)
  PROVE  Lines(t \o Line(name, value)) /\ Begins(t \o Line(name, value), t)
<1>1. /\ Len(t) \in Nat /\ Len(t) >= 3
      /\ \A j \in 1..Len(t) : (t \o Line(name, value))[j] = t[j]
  BY LineAdded DEF Lines
<1>2. Lines(t \o Line(name, value))
  BY LineKeeps, Zenon
<1> QED
  BY <1>1, <1>2 DEF Begins

LEMMA OtherStarts ==
  ASSUME NEW t, Lines(t), NEW name, HeaderName(name), NEW value \in Text, Plain(value),
         NEW other \in Char, tolower(other) # tolower(name), Starts(t, other) = {}
  PROVE  Starts(t \o Line(name, value), other) = {}
BY LineKeeps

\* accept() finds in the request of connect() all that it looks for.
LEMMA RequestRead ==
  ASSUME NEW key \in Text, Plain(key)
  PROVE  /\ Request(key) \in Text /\ Whole(Request(key)) /\ ServerAgrees(Request(key))
         /\ extractHeader(Request(key), SecWebSocketKey) = key
         /\ extractHeader(Request(key), UserId) = ClientId
<1> DEFINE t0 == <<RequestLine>> \o CRLF
           t1 == t0 \o Line(Host, <<Filler>>)
           t2 == t1 \o Line(Upgrade, <<WebSocket>>)
           t3 == t2 \o Line(Connection, <<Upgrade>>)
           t4 == t3 \o Line(SecWebSocketKey, key)
           t5 == t4 \o Line(SecWebSocketVersion, <<Filler>>)
           t6 == t5 \o Line(UserId, ClientId)
           r == t6 \o CRLF
<1>0. r = Request(key)
  BY Zenon DEF Request
<1>1. /\ Lines(t0) /\ t0[1] = RequestLine /\ t0[2] = CR /\ t0[3] = LF
      /\ \A name \in Char : Starts(t0, name) = {}
  <2>1. RequestLine \in Char \ {CR}
    BY DEF RequestLine, CR, Char
  <2> QED
    BY <2>1, FirstLine, Zenon
<1>2. ClientId \in Text /\ Plain(ClientId)
  BY TextAssumption, PlainAssumption, Zenon
<1>3. /\ HeaderName(Host) /\ HeaderName(Upgrade) /\ HeaderName(Connection)
      /\ HeaderName(SecWebSocketKey) /\ HeaderName(SecWebSocketVersion) /\ HeaderName(UserId)
      /\ Upgrade \in Char /\ SecWebSocketKey \in Char /\ UserId \in Char
  BY Names, Zenon
<1>4. /\ tolower(Upgrade) # tolower(Host)
      /\ tolower(SecWebSocketKey)
           \notin {tolower(Host), tolower(Upgrade), tolower(Connection)}
      /\ tolower(UserId)
           \notin {tolower(Host), tolower(Upgrade), tolower(Connection),
                   tolower(SecWebSocketKey), tolower(SecWebSocketVersion)}
  BY DEF tolower, Host, Upgrade, Connection, SecWebSocketKey, SecWebSocketVersion, UserId
<1>5. /\ <<Filler>> \in Text /\ Plain(<<Filler>>)
      /\ <<WebSocket>> \in Text /\ Plain(<<WebSocket>>)
      /\ <<Upgrade>> \in Text /\ Plain(<<Upgrade>>)
  BY Words, Zenon
<1> HIDE DEF t0
<1>6. /\ Lines(t1) /\ Begins(t1, t0)
      /\ Starts(t1, Upgrade) = {} /\ Starts(t1, SecWebSocketKey) = {} /\ Starts(t1, UserId) = {}
  <2>1. Lines(t1) /\ Begins(t1, t0)
    BY <1>1, <1>3, <1>5, LineBegins, Zenon
  <2>2. Starts(t1, Upgrade) = {} /\ Starts(t1, SecWebSocketKey) = {} /\ Starts(t1, UserId) = {}
    BY <1>1, <1>3, <1>4, <1>5, OtherStarts, Zenon
  <2> QED
    BY <2>1, <2>2, Zenon
<1> HIDE DEF t1
<1>7. /\ Lines(t2) /\ Begins(t2, t1)
      /\ Carries(t2, Upgrade, <<WebSocket>>)
      /\ Starts(t2, SecWebSocketKey) = {} /\ Starts(t2, UserId) = {}
  <2>1. Lines(t2) /\ Begins(t2, t1)
    BY <1>3, <1>5, <1>6, LineBegins, Zenon
  <2>2. Starts(t2, SecWebSocketKey) = {} /\ Starts(t2, UserId) = {}
    BY <1>3, <1>4, <1>5, <1>6, OtherStarts, Zenon
  <2>3. Carries(t2, Upgrade, <<WebSocket>>)
    BY <1>3, <1>5, <1>6, CarriesNew, Zenon
  <2> QED
    BY <2>1, <2>2, <2>3, Zenon
<1> HIDE DEF t2
<1>8. /\ Lines(t3) /\ Begins(t3, t2)
      /\ Carries(t3, Upgrade, <<WebSocket>>)
      /\ Starts(t3, SecWebSocketKey) = {} /\ Starts(t3, UserId) = {}
  <2>1. Lines(t3) /\ Begins(t3, t2)
    BY <1>3, <1>5, <1>7, LineBegins, Zenon
  <2>2. Starts(t3, SecWebSocketKey) = {} /\ Starts(t3, UserId) = {}
    BY <1>3, <1>4, <1>5, <1>7, OtherStarts, Zenon
  <2>3. Carries(t3, Upgrade, <<WebSocket>>)
    BY <1>3, <1>5, <1>7, CarriesKept, Zenon
  <2> QED
    BY <2>1, <2>2, <2>3, Zenon
<1> HIDE DEF t3
<1>9. /\ Lines(t4) /\ Begins(t4, t3)
      /\ Carries(t4, Upgrade, <<WebSocket>>) /\ Carries(t4, SecWebSocketKey, key)
      /\ Starts(t4, UserId) = {}
  <2>1. Lines(t4) /\ Begins(t4, t3)
    BY <1>3, <1>8, LineBegins, Zenon
  <2>2. Starts(t4, UserId) = {}
    BY <1>3, <1>4, <1>8, OtherStarts, Zenon
  <2>3. Carries(t4, Upgrade, <<WebSocket>>)
    BY <1>3, <1>5, <1>8, CarriesKept, Zenon
  <2>4. Carries(t4, SecWebSocketKey, key)
    BY <1>3, <1>8, CarriesNew, Zenon
  <2> QED
    BY <2>1, <2>2, <2>3, <2>4, Zenon
<1> HIDE DEF t4
<1>10. /\ Lines(t5) /\ Begins(t5, t4)
       /\ Carries(t5, Upgrade, <<WebSocket>>) /\ Carries(t5, SecWebSocketKey, key)
       /\ Starts(t5, UserId) = {}
  <2>1. Lines(t5) /\ Begins(t5, t4)
    BY <1>3, <1>5, <1>9, LineBegins, Zenon
  <2>2. Starts(t5, UserId) = {}
    BY <1>3, <1>4, <1>5, <1>9, OtherStarts, Zenon
  <2>3. Carries(t5, Upgrade, <<WebSocket>>) /\ Carries(t5, SecWebSocketKey, key)
    BY <1>3, <1>5, <1>9, CarriesKept, Zenon
  <2> QED
    BY <2>1, <2>2, <2>3, Zenon
<1> HIDE DEF t5
<1>11. /\ Lines(t6) /\ Begins(t6, t5)
       /\ Carries(t6, Upgrade, <<WebSocket>>) /\ Carries(t6, SecWebSocketKey, key)
       /\ Carries(t6, UserId, ClientId)
  <2>1. Lines(t6)
    BY <1>2, <1>3, <1>10, LineBegins, Zenon
  <2>2. Begins(t6, t5)
    BY <1>2, <1>3, <1>10, LineBegins, Zenon
  <2>3. Carries(t6, Upgrade, <<WebSocket>>) /\ Carries(t6, SecWebSocketKey, key)
    BY <1>2, <1>3, <1>5, <1>10, CarriesKept, Zenon
  <2>4. Carries(t6, UserId, ClientId)
    BY <1>2, <1>3, <1>10, CarriesNew, Zenon
  <2> QED
    BY <2>1, <2>2, <2>3, <2>4, Zenon
<1> HIDE DEF t6
<1>12. /\ extractHeader(r, Upgrade) = <<WebSocket>>
       /\ extractHeader(r, SecWebSocketKey) = key
       /\ extractHeader(r, UserId) = ClientId
  BY <1>2, <1>3, <1>5, <1>11, CarriesRead, Zenon
<1>13. Whole(r)
  BY <1>11, WholeText, Zenon
<1>14. r \in Text /\ Len(t6) \in Nat /\ Len(r) = Len(t6) + 2 /\ Len(t6) >= 3
       /\ \A k \in 1..Len(t6) : r[k] = t6[k]
  BY <1>11, EmptyLineAdded, Zenon DEF Lines
<1> HIDE DEF r
<1>15. SubSeq(r, 1, 3) = <<RequestLine>> \o CRLF
  <2> DEFINE u == SubSeq(r, 1, 3)
             v == <<RequestLine>> \o CRLF
  <2>1. v \in Text /\ Len(v) = 3 /\ v[1] = RequestLine /\ v[2] = CR /\ v[3] = LF
    BY DEF Text, Char, CRLF, CR, LF, RequestLine
  <2>2. u \in Text /\ Len(u) = 3 /\ \A k \in 1..3 : u[k] = r[k]
    BY <1>14 DEF Text
  <2>3. Begins(r, t0)
    <3>1. Begins(r, t6)
      BY <1>14 DEF Begins
    <3> QED
      BY <1>6, <1>7, <1>8, <1>9, <1>10, <1>11, <3>1, Zenon DEF Begins
  <2> HIDE DEF u, v
  <2>4. \A k \in 1..3 : u[k] = v[k]
    BY <1>1, <2>1, <2>2, <2>3 DEF Begins
  <2>5. u = v
    BY <2>1, <2>2, <2>4, SeqEqual, Zenon DEF Text
  <2> QED
    BY <2>5, Zenon DEF u, v
<1>16. key # <<>>
  BY Zenon DEF Plain
<1> QED
  BY <1>0, <1>12, <1>13, <1>14, <1>15, <1>16, Zenon DEF ServerAgrees

\* connect() finds in the response of accept() the answer to its key.
LEMMA ResponseRead ==
  ASSUME NEW key, AcceptKey(key) \in Text, Plain(AcceptKey(key))
  PROVE  /\ Response(key) \in Text /\ Whole(Response(key))
         /\ Head(Response(key)) = Status101
         /\ extractHeader(Response(key), SecWebSocketAccept) = AcceptKey(key)
<1> DEFINE t0 == <<Status101>> \o CRLF
           t1 == t0 \o Line(Upgrade, <<WebSocket>>)
           t2 == t1 \o Line(Connection, <<Upgrade>>)
           t3 == t2 \o Line(SecWebSocketAccept, AcceptKey(key))
           r == t3 \o CRLF
<1>0. r = Response(key)
  BY Zenon DEF Response
<1>1. Lines(t0) /\ t0[1] = Status101 /\ \A name \in Char : Starts(t0, name) = {}
  <2>1. Status101 \in Char \ {CR}
    BY DEF Status101, CR, Char
  <2> QED
    BY <2>1, FirstLine, Zenon
<1>3. /\ HeaderName(Upgrade) /\ HeaderName(Connection) /\ HeaderName(SecWebSocketAccept)
      /\ SecWebSocketAccept \in Char
  BY Names, Zenon
<1>4. tolower(SecWebSocketAccept) \notin {tolower(Upgrade), tolower(Connection)}
  BY DEF tolower, Upgrade, Connection, SecWebSocketAccept
<1>5. /\ <<WebSocket>> \in Text /\ Plain(<<WebSocket>>)
      /\ <<Upgrade>> \in Text /\ Plain(<<Upgrade>>)
  BY Words, Zenon
<1> HIDE DEF t0
<1>6. /\ Lines(t1) /\ Begins(t1, t0)
      /\ Starts(t1, SecWebSocketAccept) = {}
  <2>1. Lines(t1) /\ Begins(t1, t0)
    BY <1>1, <1>3, <1>5, LineBegins, Zenon
  <2>2. Starts(t1, SecWebSocketAccept) = {}
    BY <1>1, <1>3, <1>4, <1>5, OtherStarts, Zenon
  <2> QED
    BY <2>1, <2>2, Zenon
<1> HIDE DEF t1
<1>7. /\ Lines(t2) /\ Begins(t2, t1)
      /\ Starts(t2, SecWebSocketAccept) = {}
  <2>1. Lines(t2) /\ Begins(t2, t1)
    BY <1>3, <1>5, <1>6, LineBegins, Zenon
  <2>2. Starts(t2, SecWebSocketAccept) = {}
    BY <1>3, <1>4, <1>5, <1>6, OtherStarts, Zenon
  <2> QED
    BY <2>1, <2>2, Zenon
<1> HIDE DEF t2
<1>8. /\ Lines(t3) /\ Begins(t3, t2)
      /\ Carries(t3, SecWebSocketAccept, AcceptKey(key))
  <2>1. Lines(t3)
    BY <1>3, <1>7, LineBegins, Zenon
  <2>2. Begins(t3, t2)
    BY <1>3, <1>7, LineBegins, Zenon
  <2>3. Carries(t3, SecWebSocketAccept, AcceptKey(key))
    BY <1>3, <1>7, CarriesNew, Zenon
  <2> QED
    BY <2>1, <2>2, <2>3, Zenon
<1> HIDE DEF t3
<1>9. extractHeader(r, SecWebSocketAccept) = AcceptKey(key)
  BY <1>3, <1>8, CarriesRead, Zenon
<1>10. Whole(r)
  BY <1>8, WholeText, Zenon
<1>11. r \in Text /\ Len(t3) \in Nat /\ Len(r) = Len(t3) + 2 /\ Len(t3) >= 3
       /\ \A k \in 1..Len(t3) : r[k] = t3[k]
  BY <1>8, EmptyLineAdded, Zenon DEF Lines
<1> HIDE DEF r
<1>12. Head(r) = Status101
  <2>1. r[1] = Status101
    BY <1>1, <1>6, <1>7, <1>8, <1>11 DEF Begins
  <2> QED
    BY <1>11, <2>1 DEF Text
<1> QED
  BY <1>0, <1>9, <1>10, <1>11, <1>12, Zenon

LEMMA PrefixOf ==
  ASSUME NEW x \in Text, NEW y \in Text, NEW z \in Text, NEW w \in Text,
         x \o y = z \o w, Len(x) <= Len(z)
  PROVE  x = SubSeq(z, 1, Len(x))
<1> DEFINE u == SubSeq(z, 1, Len(x))
<1>1. /\ Len(x) \in Nat /\ Len(z) \in Nat
      /\ \A k \in 1..Len(x) : (x \o y)[k] = x[k]
      /\ \A k \in 1..Len(z) : (z \o w)[k] = z[k]
  BY ConcatIs, Zenon
<1>2. u \in Text /\ Len(u) = Len(x) /\ \A k \in 1..Len(x) : u[k] = z[k]
  BY <1>1 DEF Text
<1> HIDE DEF u
<1>3. \A k \in 1..Len(x) : u[k] = x[k]
  BY <1>1, <1>2
<1>4. u = x
  BY <1>2, <1>3, SeqEqual, Zenon DEF Text
<1> QED
  BY <1>4, Zenon DEF u

\* A stream has one first text.
LEMMA FirstText ==
  ASSUME NEW a \in Text, NEW b \in Text, NEW c \in Text, NEW d \in Text,
         a \o b = c \o d, Whole(a), Whole(c)
  PROVE  a = c
<1>2. Len(a) \in Nat /\ Len(c) \in Nat
  BY DEF Text
<1>3. ~(Len(a) < Len(c))
  <2> SUFFICES ASSUME Len(a) < Len(c) PROVE FALSE
    BY Zenon
  <2>1. Len(a) <= Len(c) /\ Len(a) \in 0..Len(c) - 1
    BY <1>2
  <2>2. a = SubSeq(c, 1, Len(a))
    BY <2>1, PrefixOf, Zenon
  <2> QED
    BY <2>1, <2>2, Zenon DEF Whole
<1>4. ~(Len(c) < Len(a))
  <2> SUFFICES ASSUME Len(c) < Len(a) PROVE FALSE
    BY Zenon
  <2>1. Len(c) <= Len(a) /\ Len(c) \in 0..Len(a) - 1
    BY <1>2
  <2>2. c = SubSeq(a, 1, Len(c))
    BY <2>1, PrefixOf, Zenon
  <2> QED
    BY <2>1, <2>2, Zenon DEF Whole
<1>5. a = SubSeq(c, 1, Len(c))
  <2>1. Len(a) = Len(c) /\ Len(a) <= Len(c)
    BY <1>2, <1>3, <1>4
  <2>2. a = SubSeq(c, 1, Len(a))
    BY <2>1, PrefixOf, Zenon
  <2> QED
    BY <2>1, <2>2, Zenon
<1> QED
  BY <1>5 DEF Text

-----------------------------------------------------------------------------
(* The inductive invariant.                                                *)

StreamType ==
  /\ pc \in [Sides -> PCs]
  /\ net \in [Sides -> Text] /\ sent \in [Sides -> Text] /\ buf \in [Sides -> Text]

\* Nothing is lost or invented between what was sent and what was read.
Conserved == \A s \in Sides : sent[s] = buf[s] \o net[s]

\* How far the text in buf[s] is when control is at l: not begun, still without an
\* end and within the limit, or ended by its last character.
Read(s, l, t) ==
  /\ Len(t) <= Limit + 1
  /\ l \in {"start", "listen"} => t = <<>>
  /\ l = "headers" => /\ Len(t) <= Limit
                      /\ \A n \in 0..Len(t) : ~Terminated(SubSeq(t, 1, n))
  /\ l \in {"check", "open"} => /\ Terminated(t)
                                /\ \A n \in 0..Len(t) - 1 : ~Terminated(SubSeq(t, 1, n))

\* At most one end is foreign, a client that has asked has a key, and a client hears
\* nothing before its server is open.
Ends ==
  /\ pc["client"] # "listen"
  /\ pc["server"] \in {"foreign", "said"} => pc["client"] \notin {"foreign", "said"}
  /\ pc["client"] \in {"headers", "check", "open"} => wsKey \in Keys
  /\ pc["server"] \notin {"open", "said"} => sent["client"] = <<>>

IInv == StreamType /\ Conserved /\ Ends /\ \A s \in Sides : Read(s, pc[s], buf[s])

LEMMA Started ==
  /\ \A l \in {"start", "listen", "headers", "foreign", "said", "failed"}, s \in Sides :
       Read(s, l, <<>>)
BY LimitAssumption DEF Read, Terminated

LEMMA InitInv == Init => IInv
<1> SUFFICES ASSUME Init PROVE IInv
  BY Zenon
<1>1. <<>> \in Text /\ <<>> \o <<>> = <<>>
  BY DEF Text
<1>2. StreamType
  BY <1>1 DEF Init, StreamType, Sides, PCs
<1>3. Conserved
  BY <1>1, Zenon DEF Init, Conserved, Sides
<1>4. Ends
  BY DEF Init, Ends, Sides
<1>5. ASSUME NEW s \in Sides PROVE Read(s, pc[s], buf[s])
  <2>1. pc[s] \in {"start", "listen", "foreign"} /\ buf[s] = <<>>
    BY DEF Init, Sides
  <2> QED
    BY <2>1, Started, Zenon
<1> QED
  BY <1>2, <1>3, <1>4, <1>5, Zenon DEF IInv

LEMMA TextAssociative ==
  ASSUME NEW x \in Text, NEW y \in Text, NEW z \in Text
  PROVE  (x \o y) \o z = x \o (y \o z)
<1>1. x \in Seq(Char) /\ y \in Seq(Char) /\ z \in Seq(Char)
  BY Zenon DEF Text
<1> QED
  BY <1>1, ConcatAssociative

\* Sending keeps the streams.
LEMMA SendKeeps ==
  ASSUME IInv, NEW s \in Sides, NEW text \in Text, SendTo(s, text), UNCHANGED buf
  PROVE  /\ net' \in [Sides -> Text] /\ sent' \in [Sides -> Text] /\ Conserved'
         /\ \A r \in Sides \ {s} : sent'[r] = sent[r]
<1>1. /\ net' = [net EXCEPT ![s] = @ \o text]
      /\ sent' = [sent EXCEPT ![s] = @ \o text]
  BY Zenon DEF SendTo
<1>2. net[s] \in Text /\ sent[s] \in Text /\ buf[s] \in Text
  BY Zenon DEF IInv, StreamType
<1>3. net[s] \o text \in Text /\ sent[s] \o text \in Text
  BY <1>2, ConcatProperties, Zenon DEF Text
<1>4. sent[s] \o text = buf[s] \o (net[s] \o text)
  <2>1. sent[s] = buf[s] \o net[s]
    BY Zenon DEF IInv, Conserved
  <2>2. (buf[s] \o net[s]) \o text = buf[s] \o (net[s] \o text)
    BY <1>2, TextAssociative, Zenon
  <2> QED
    BY <2>1, <2>2, Zenon
<1> QED
  BY <1>1, <1>3, <1>4, Zenon DEF IInv, StreamType, Conserved

\* The texts that are sent are texts.
LEMMA LineType ==
  ASSUME NEW name \in Char, NEW value \in Text
  PROVE  Line(name, value) \in Text
<1>1. <<name, COLON, SP>> \in Seq(Char) /\ CRLF \in Seq(Char)
  BY DEF Char, COLON, SP, CRLF, CR, LF
<1> QED
  BY <1>1, ConcatProperties, Zenon DEF Line, Text

LEMMA RequestType == ASSUME NEW key \in Text PROVE Request(key) \in Text
<1>1. /\ <<RequestLine>> \in Text /\ CRLF \in Text /\ <<Filler>> \in Text
      /\ <<WebSocket>> \in Text /\ <<Upgrade>> \in Text
  BY DEF Text, Char, RequestLine, CRLF, CR, LF, Filler, WebSocket, Upgrade
<1>2. {Host, Upgrade, Connection, SecWebSocketKey, SecWebSocketVersion, UserId} \subseteq Char
  BY DEF Char, Host, Upgrade, Connection, SecWebSocketKey, SecWebSocketVersion, UserId
<1>3. /\ Line(Host, <<Filler>>) \in Text /\ Line(Upgrade, <<WebSocket>>) \in Text
      /\ Line(Connection, <<Upgrade>>) \in Text /\ Line(SecWebSocketKey, key) \in Text
      /\ Line(SecWebSocketVersion, <<Filler>>) \in Text /\ Line(UserId, ClientId) \in Text
  BY <1>1, <1>2, LineType, TextAssumption, Zenon
<1>4. \A s, u \in Text : s \o u \in Text
  BY ConcatProperties, Zenon DEF Text
<1> QED
  BY <1>1, <1>3, <1>4, Zenon DEF Request

LEMMA ResponseType ==
  ASSUME NEW key \in Text, AcceptKey(key) \in Text
  PROVE  Response(key) \in Text
<1>1. /\ <<Status101>> \in Text /\ CRLF \in Text
      /\ <<WebSocket>> \in Text /\ <<Upgrade>> \in Text
  BY DEF Text, Char, Status101, CRLF, CR, LF, WebSocket, Upgrade
<1>2. {Upgrade, Connection, SecWebSocketAccept} \subseteq Char
  BY DEF Char, Upgrade, Connection, SecWebSocketAccept
<1>3. /\ Line(Upgrade, <<WebSocket>>) \in Text /\ Line(Connection, <<Upgrade>>) \in Text
      /\ Line(SecWebSocketAccept, AcceptKey(key)) \in Text
  BY <1>1, <1>2, LineType, Zenon
<1>4. \A s, u \in Text : s \o u \in Text
  BY ConcatProperties, Zenon DEF Text
<1> QED
  BY <1>1, <1>3, <1>4, Zenon DEF Response

-----------------------------------------------------------------------------
(* One lemma for each kind of step.                                        *)

\* recvHttpHeaders.
LEMMA ReadStep ==
  ASSUME IInv, NEW s \in Sides, ReadHeaders(s)
  PROVE  IInv'
<1> USE DEF Sides
<1>0. /\ pc \in [Sides -> PCs] /\ pc[s] = "headers" /\ UNCHANGED <<sent, wsKey>>
      /\ buf \in [Sides -> Text] /\ net \in [Sides -> Text] /\ sent \in [Sides -> Text]
  BY Zenon DEF ReadHeaders, IInv, StreamType
<1>1. Read(s, "headers", buf[s])
  BY <1>0, Zenon DEF IInv
<1>2. \E l \in {"headers", "check", "failed"} : pc' = [pc EXCEPT ![s] = l]
  <2>1. pc' = pc => pc' = [pc EXCEPT ![s] = "headers"]
    BY <1>0, Zenon
  <2> QED
    BY <2>1, Zenon DEF ReadHeaders, Goto, Fail
<1>3. StreamType' /\ Conserved' /\ \A r \in Sides \ {s} : buf'[r] = buf[r]
  <2>1. CASE net[s] # <<>> /\ Recv(s)
    <3>1. /\ buf' = [buf EXCEPT ![s] = Append(@, Head(net[s]))]
          /\ net' = [net EXCEPT ![s] = Tail(@)]
      BY <2>1, Zenon DEF Recv
    <3>2. /\ Append(buf[s], Head(net[s])) \in Text /\ Tail(net[s]) \in Text
          /\ Append(buf[s], Head(net[s])) \o Tail(net[s]) = buf[s] \o net[s]
      BY <1>0, <2>1, ReadOne, Zenon
    <3>3. /\ buf' \in [Sides -> Text] /\ net' \in [Sides -> Text] /\ pc' \in [Sides -> PCs]
          /\ \A r \in Sides \ {s} : buf'[r] = buf[r] /\ net'[r] = net[r]
      BY <1>0, <1>2, <3>1, <3>2 DEF PCs
    <3>4. buf'[s] \o net'[s] = buf[s] \o net[s]
      BY <1>0, <3>1, <3>2, Zenon
    <3>5. \A r \in Sides : buf'[r] \o net'[r] = buf[r] \o net[r]
      BY <3>3, <3>4, Zenon
    <3> QED
      BY <1>0, <3>3, <3>5, Zenon DEF StreamType, Conserved, IInv
  <2>2. CASE UNCHANGED <<buf, net>>
    BY <1>0, <1>2, <2>2 DEF StreamType, Conserved, IInv, PCs
  <2> QED
    BY <2>1, <2>2, Zenon DEF ReadHeaders
<1>4. Ends'
  BY <1>0, <1>2, Zenon DEF Ends, IInv
<1>5. Read(s, pc'[s], buf'[s])
  <2>1. CASE net[s] # <<>> /\ Recv(s)
    <3> DEFINE t == Append(buf[s], Head(net[s]))
    <3>1. /\ t \in Text /\ Len(t) = Len(buf[s]) + 1 /\ Len(buf[s]) \in Nat
          /\ \A n \in 0..Len(buf[s]) : SubSeq(t, 1, n) = SubSeq(buf[s], 1, n)
      BY <1>0, <2>1, ReadOne DEF Text
    <3>2. buf'[s] = t
      BY <1>0, <2>1, Zenon DEF Recv
    <3>3. SubSeq(t, 1, Len(t)) = t
      BY <3>1 DEF Text
    <3> HIDE DEF t
    <3>4. ASSUME NEW n \in 0..Len(t) - 1 PROVE ~Terminated(SubSeq(t, 1, n))
      <4>1. n \in 0..Len(buf[s])
        BY <3>1
      <4>2. ~Terminated(SubSeq(buf[s], 1, n))
        BY <1>1, <4>1, Zenon DEF Read
      <4> QED
        BY <3>1, <4>1, <4>2, Zenon
    <3>5. Len(t) <= Limit + 1
      BY <1>1, <3>1, LimitAssumption DEF Read
    <3>6. \/ Terminated(t) /\ pc'[s] = "check"
          \/ pc'[s] = "failed"
          \/ ~Terminated(t) /\ ~TooLong(t) /\ pc'[s] = "headers"
      BY <1>0, <2>1, <3>2, Zenon DEF ReadHeaders, Goto, Fail
    <3>7. CASE Terminated(t) /\ pc'[s] = "check"
      BY <3>2, <3>4, <3>5, <3>7, Zenon DEF Read
    <3>8. CASE pc'[s] = "failed"
      BY <3>2, <3>5, <3>8, Zenon DEF Read
    <3>9. CASE ~Terminated(t) /\ ~TooLong(t) /\ pc'[s] = "headers"
      <4>1. ASSUME NEW n \in 0..Len(t) PROVE ~Terminated(SubSeq(t, 1, n))
        <5>1. n = Len(t) \/ n \in 0..Len(t) - 1
          BY <3>1
        <5> QED
          BY <3>3, <3>4, <3>9, <5>1, Zenon
      <4> QED
        BY <3>1, <3>2, <3>5, <3>9, <4>1, LimitAssumption DEF Read, TooLong
    <3> QED
      BY <3>6, <3>7, <3>8, <3>9, Zenon
  <2>2. CASE pc'[s] = "failed" /\ UNCHANGED buf
    BY <1>1, <2>2, Zenon DEF Read
  <2> QED
    BY <1>0, <2>1, <2>2, Zenon DEF ReadHeaders, Fail, Goto
<1>6. ASSUME NEW r \in Sides PROVE Read(r, pc'[r], buf'[r])
  BY <1>0, <1>2, <1>3, <1>5, Zenon DEF IInv
<1> QED
  BY <1>3, <1>4, <1>6, Zenon DEF IInv
\* A step that leaves the texts that were read alone, and moves control only in one of
\* the ways that suit them.
LEMMA QuietStep ==
  ASSUME IInv, StreamType', Conserved', Ends', UNCHANGED buf,
         NEW s \in Sides, NEW l \in PCs, pc' = [pc EXCEPT ![s] = l],
         \/ l \in {pc[s], "failed", "said"}
         \/ l = "headers" /\ pc[s] \in {"start", "listen"}
         \/ l = "open" /\ pc[s] = "check"
  PROVE  IInv'
<1>1. pc \in [Sides -> PCs]
  BY Zenon DEF IInv, StreamType
<1>2. Read(s, pc[s], buf[s])
  BY Zenon DEF IInv
<1>3. Read(s, l, buf[s])
  <2>1. CASE l \in {pc[s], "failed", "said"}
    BY <1>2, <2>1, Zenon DEF Read
  <2>2. CASE l = "headers" /\ pc[s] \in {"start", "listen"}
    BY <1>2, <2>2, Started, Zenon DEF Read
  <2>3. CASE l = "open" /\ pc[s] = "check"
    BY <1>2, <2>3, Zenon DEF Read
  <2> QED
    BY <2>1, <2>2, <2>3, Zenon
<1>4. ASSUME NEW r \in Sides PROVE Read(r, pc'[r], buf'[r])
  BY <1>1, <1>3, Zenon DEF IInv
<1> QED
  BY <1>4, Zenon DEF IInv

LEMMA AcceptStep ==
  ASSUME IInv, \A key \in Text : AcceptKey(key) \in Text, Accept \/ ServerAccept
  PROVE  IInv'
<1>0. "server" \in Sides /\ "client" \in Sides /\ pc \in [Sides -> PCs]
  BY Zenon DEF Sides, IInv, StreamType
<1>1. CASE Accept
  <2>1. pc' = [pc EXCEPT !["server"] = "headers"] /\ UNCHANGED <<net, sent, buf, wsKey>>
    BY <1>1, Zenon DEF Accept, Goto
  <2>2. StreamType' /\ Conserved'
    BY <1>0, <2>1, Zenon DEF IInv, StreamType, Conserved, PCs
  <2>3. Ends' /\ pc["server"] = "listen"
    BY <1>0, <1>1, <2>1, Zenon DEF IInv, Ends, Accept
  <2> QED
    BY <1>0, <2>1, <2>2, <2>3, QuietStep, Zenon DEF PCs
<1>2. CASE ServerAccept
  <2> DEFINE key == extractHeader(buf["server"], SecWebSocketKey)
  <2>1. pc["server"] = "check" /\ UNCHANGED <<buf, wsKey>>
    BY <1>2, Zenon DEF ServerAccept
  <2>2. CASE Fail("server") /\ UNCHANGED <<net, sent>>
    <3>1. pc' = [pc EXCEPT !["server"] = "failed"]
      BY <2>2, Zenon DEF Fail, Goto
    <3>2. StreamType' /\ Conserved'
      BY <1>0, <2>1, <2>2, <3>1, Zenon DEF IInv, StreamType, Conserved, PCs
    <3>3. Ends'
      BY <1>0, <2>1, <2>2, <3>1, Zenon DEF IInv, Ends
    <3> QED
      BY <1>0, <2>1, <3>1, <3>2, <3>3, QuietStep, Zenon DEF PCs
  <2>3. CASE SendTo("client", Response(key)) /\ Goto("server", "open")
    <3>1. key \in Text
      BY <1>0, ExtractType DEF IInv, StreamType, Char, SecWebSocketKey
    <3>2. Response(key) \in Text
      BY <3>1, ResponseType, Zenon
    <3> HIDE DEF key
    <3>3. net' \in [Sides -> Text] /\ sent' \in [Sides -> Text] /\ Conserved'
      BY <1>0, <2>1, <2>3, <3>2, SendKeeps, Zenon
    <3>4. pc' = [pc EXCEPT !["server"] = "open"]
      BY <2>3, Zenon DEF Goto
    <3>5. StreamType'
      BY <1>0, <2>1, <3>3, <3>4, Zenon DEF IInv, StreamType, PCs
    <3>6. Ends'
      BY <1>0, <2>1, <3>4, Zenon DEF IInv, Ends
    <3> QED
      BY <1>0, <2>1, <3>3, <3>4, <3>5, <3>6, QuietStep, Zenon DEF PCs
  <2> QED
    BY <1>2, <2>2, <2>3, Zenon DEF ServerAccept
<1> QED
  BY <1>1, <1>2, Zenon

LEMMA ConnectStep ==
  ASSUME IInv, ConnectFails \/ ClientRequest \/ ClientCheck
  PROVE  IInv'
<1>0. "server" \in Sides /\ "client" \in Sides /\ pc \in [Sides -> PCs]
  BY Zenon DEF Sides, IInv, StreamType
<1>1. CASE ConnectFails \/ ClientCheck
  <2>1. /\ UNCHANGED <<net, sent, buf, wsKey>>
        /\ \E l \in {"failed", "open"} : /\ pc' = [pc EXCEPT !["client"] = l]
                                         /\ l = "open" => pc["client"] = "check"
    BY <1>1, Zenon DEF ConnectFails, ClientCheck, Goto, Fail
  <2>2. StreamType' /\ Conserved'
    BY <1>0, <2>1, Zenon DEF IInv, StreamType, Conserved, PCs
  <2>3. Ends'
    BY <1>0, <2>1, Zenon DEF IInv, Ends
  <2> QED
    BY <1>0, <2>1, <2>2, <2>3, QuietStep, Zenon DEF PCs
<1>2. CASE ClientRequest
  <2>1. pc["client"] = "start" /\ wsKey' \in Keys /\ UNCHANGED buf
    BY <1>2, Zenon DEF ClientRequest
  <2>2. CASE SendTo("server", Request(wsKey')) /\ Goto("client", "headers")
    <3>1. Request(wsKey') \in Text
      BY <2>1, RequestType, TextAssumption, Zenon
    <3>2. /\ net' \in [Sides -> Text] /\ sent' \in [Sides -> Text] /\ Conserved'
          /\ sent'["client"] = sent["client"]
      BY <1>0, <2>1, <2>2, <3>1, SendKeeps, Zenon
    <3>3. pc' = [pc EXCEPT !["client"] = "headers"]
      BY <2>2, Zenon DEF Goto
    <3>4. StreamType'
      BY <1>0, <2>1, <3>2, <3>3, Zenon DEF IInv, StreamType, PCs
    <3>5. Ends'
      BY <1>0, <2>1, <3>2, <3>3, Zenon DEF IInv, Ends
    <3> QED
      BY <1>0, <2>1, <3>2, <3>3, <3>4, <3>5, QuietStep, Zenon DEF PCs
  <2>3. CASE Fail("client") /\ UNCHANGED <<net, sent>>
    <3>1. pc' = [pc EXCEPT !["client"] = "failed"]
      BY <2>3, Zenon DEF Fail, Goto
    <3>2. StreamType' /\ Conserved'
      BY <1>0, <2>1, <2>3, <3>1, Zenon DEF IInv, StreamType, Conserved, PCs
    <3>3. Ends'
      BY <1>0, <2>1, <2>3, <3>1, Zenon DEF IInv, Ends
    <3> QED
      BY <1>0, <2>1, <3>1, <3>2, <3>3, QuietStep, Zenon DEF PCs
  <2> QED
    BY <1>2, <2>2, <2>3, Zenon DEF ClientRequest
<1> QED
  BY <1>1, <1>2, Zenon

\* Frames after the handshake, and foreign programs.
LEMMA OtherStep ==
  ASSUME IInv, NEW s \in Sides, SendFrame(s) \/ Foreign(s)
  PROVE  IInv'
<1>0. /\ "server" \in Sides /\ "client" \in Sides /\ pc \in [Sides -> PCs]
      /\ Other(s) \in Sides /\ (s = "client" \/ s = "server")
      /\ Other("client") = "server"
  BY Zenon DEF Sides, IInv, StreamType, Other
<1>1. UNCHANGED <<buf, wsKey>>
  BY Zenon DEF SendFrame, Foreign, ForeignSend, ForeignMore, ForeignClose
<1>2. ASSUME NEW text \in Text, SendTo(Other(s), text), NEW l \in PCs,
             pc' = [pc EXCEPT ![s] = l],
             <<pc[s], l>> \in {<<"open", "open">>, <<"said", "said">>, <<"foreign", "said">>}
      PROVE  IInv'
  <2>1. /\ net' \in [Sides -> Text] /\ sent' \in [Sides -> Text] /\ Conserved'
        /\ \A r \in Sides \ {Other(s)} : sent'[r] = sent[r]
    BY <1>0, <1>1, <1>2, SendKeeps, Zenon
  <2>2. StreamType'
    BY <1>0, <1>1, <1>2, <2>1, Zenon DEF IInv, StreamType, PCs
  <2>3. Ends'
    <3>1. CASE s = "client"
      BY <1>0, <1>1, <1>2, <2>1, <3>1, Zenon DEF IInv, Ends
    <3>2. CASE s = "server"
      BY <1>0, <1>1, <1>2, <2>1, <3>2, Zenon DEF IInv, Ends
    <3> QED
      BY <1>0, <3>1, <3>2, Zenon
  <2> QED
    BY <1>1, <1>2, <2>1, <2>2, <2>3, QuietStep, Zenon
<1>3. CASE SendFrame(s) \/ ForeignMore(s)
  <2>1. /\ pc[s] \in {"open", "said"} /\ pc' = pc
        /\ SendTo(Other(s), <<Frame>>) \/ SendTo(Other(s), <<Filler>>)
    BY <1>3, Zenon DEF SendFrame, ForeignMore
  <2>2. <<Frame>> \in Text /\ <<Filler>> \in Text
    BY DEF Text, Char, Frame, Filler
  <2>3. PICK l \in PCs : /\ <<pc[s], l>> \in {<<"open", "open">>, <<"said", "said">>}
                         /\ pc' = [pc EXCEPT ![s] = l]
    BY <1>0, <2>1, Zenon
  <2>4. PICK text \in Text : SendTo(Other(s), text)
    BY <2>1, <2>2, Zenon
  <2> QED
    BY <1>2, <2>3, <2>4, Zenon
<1>4. CASE ForeignSend(s)
  <2>1. /\ pc[s] = "foreign" /\ pc' = [pc EXCEPT ![s] = "said"]
        /\ s = "server" => pc["client"] \notin {"start", "failed"}
    BY <1>4, Zenon DEF ForeignSend, Goto
  <2>2. PICK m \in IF s = "client" THEN Requests ELSE Responses(wsKey) :
               SendTo(Other(s), m.headers \o m.tail)
    BY <1>4, Zenon DEF ForeignSend
  <2>3. s = "server" => wsKey \in Keys
    BY <1>0, <2>1, Zenon DEF IInv, Ends, PCs
  <2>4. m \in Message
    BY <1>0, <2>2, <2>3, TextAssumption, KeyAssumption, Zenon
  <2>5. m.headers \o m.tail \in Text
    BY <2>4, ConcatProperties, Zenon DEF Message, Text
  <2> QED
    BY <1>2, <2>1, <2>2, <2>5, Zenon DEF PCs
<1>5. CASE ForeignClose(s)
  <2>1. UNCHANGED <<pc, net, sent>>
    BY <1>5, Zenon DEF ForeignClose
  <2>2. StreamType' /\ Conserved' /\ Ends'
    BY <1>1, <2>1, Zenon DEF IInv, StreamType, Conserved, Ends
  <2>3. \A r \in Sides : Read(r, pc'[r], buf'[r])
    BY <1>1, <2>1, Zenon DEF IInv
  <2> QED
    BY <2>2, <2>3, Zenon DEF IInv
<1> QED
  BY <1>3, <1>4, <1>5, Zenon DEF Foreign
-----------------------------------------------------------------------------
(* The theorems.                                                           *)

LEMMA Invariance ==
  ASSUME \A key \in Text : AcceptKey(key) \in Text
  PROVE  Spec => []IInv
<1>1. IInv /\ [Next]_vars => IInv'
  <2> SUFFICES ASSUME IInv, [Next]_vars PROVE IInv'
    BY Zenon
  <2>1. CASE Client
    BY <2>1, ReadStep, ConnectStep, Zenon DEF Client, Sides
  <2>2. CASE Server
    BY <2>2, ReadStep, AcceptStep, Zenon DEF Server, Sides
  <2>3. CASE \E s \in Sides : SendFrame(s) \/ Foreign(s)
    BY <2>3, OtherStep, Zenon
  <2>4. CASE UNCHANGED vars
    <3>1. UNCHANGED <<pc, net, sent, buf, wsKey>>
      BY <2>4, Zenon DEF vars
    <3>2. StreamType' /\ Conserved' /\ Ends'
      BY <3>1, Zenon DEF IInv, StreamType, Conserved, Ends
    <3>3. \A r \in Sides : Read(r, pc'[r], buf'[r])
      BY <3>1, Zenon DEF IInv
    <3> QED
      BY <3>2, <3>3, Zenon DEF IInv
  <2> QED
    BY <2>1, <2>2, <2>3, <2>4, Zenon DEF Next
<1> QED
  BY InitInv, <1>1, PTL DEF Spec

\* recvHttpHeaders takes exactly the header block off the stream, at both ends, for
\* every limit and whatever a foreign program sends: what follows the headers is left
\* for wsRecvFrame.
THEOREM HeadersTaken ==
  ASSUME \A key \in Text : AcceptKey(key) \in Text
  PROVE  Spec => []HeadersExact
<1>1. IInv => HeadersExact
  BY Zenon DEF IInv, Conserved, Read, HeadersExact
<1> QED
  BY <1>1, Invariance, PTL

\* WSClient::connect returns true only after the server has sent its 101 response: a
\* C++ server has accepted the session by then, and a foreign one has answered.
THEOREM ConnectedMeansAccepted ==
  ASSUME \A key \in Text : AcceptKey(key) \in Text
  PROVE  Spec => [](pc["client"] = "open" => pc["server"] \in {"open", "said"})
<1>1. IInv => (pc["client"] = "open" => pc["server"] \in {"open", "said"})
  <2> SUFFICES ASSUME IInv, pc["client"] = "open", pc["server"] \notin {"open", "said"}
               PROVE  FALSE
    BY Zenon
  <2>1. /\ sent["client"] = <<>> /\ sent["client"] = buf["client"] \o net["client"]
        /\ buf["client"] \in Text /\ net["client"] \in Text
    BY Zenon DEF IInv, Ends, Conserved, StreamType, Sides
  <2>2. buf["client"] = <<>>
    BY <2>1, EmptyConcat, Zenon
  <2>3. Terminated(buf["client"])
    BY Zenon DEF IInv, Read, Sides
  <2> QED
    BY <2>2, <2>3 DEF Terminated
<1> QED
  BY <1>1, Invariance, PTL

\* extractHeader gives accept() and connect() what a reader of the lines finds in the
\* other end's text, whatever a foreign program sends.
THEOREM LinesExtracted ==
  ASSUME \A key \in Text : AcceptKey(key) \in Text
  PROVE  Spec => []ExtractsLine
<1>1. IInv => ExtractsLine
  <2> SUFFICES ASSUME IInv, NEW s \in Sides, pc[s] = "check",
                      NEW name \in {Upgrade, SecWebSocketKey, SecWebSocketAccept, UserId}
               PROVE  extractHeader(buf[s], name) = HeaderOf(buf[s], name)
    BY Zenon DEF ExtractsLine
  <2>1. buf[s] \in Text /\ Terminated(buf[s])
    BY Zenon DEF IInv, StreamType, Read
  <2>2. name \in Char /\ tolower(name) # CR
    BY DEF Upgrade, SecWebSocketKey, SecWebSocketAccept, UserId, Char, tolower, CR
  <2> QED
    BY <2>1, <2>2, Extracts, Zenon
<1> QED
  BY <1>1, Invariance, PTL

-----------------------------------------------------------------------------
(* Who is let in, and under which name.                                    *)

Named ==
  /\ gone \in [Sides -> BOOLEAN] /\ wsKey \in Text /\ userId \in Text
  /\ pc["server"] = "open" => Usable(userId)

LEMMA NamedStep ==
  ASSUME IInv, Named, [Next]_vars
  PROVE  Named'
<1>0. "server" \in Sides /\ "client" \in Sides /\ pc \in [Sides -> PCs]
  BY Zenon DEF Sides, IInv, StreamType
<1>1. gone' \in [Sides -> BOOLEAN]
  <2>1. gone' = gone \/ \E s \in Sides : gone' = [gone EXCEPT ![s] = TRUE]
    <3>1. CASE Client
      BY <1>0, <3>1, Zenon DEF Client, ConnectFails, ClientRequest, ReadHeaders, ClientCheck, Fail
    <3>2. CASE Server
      BY <1>0, <3>2, Zenon DEF Server, Accept, ReadHeaders, ServerAccept, Fail
    <3>3. CASE \E s \in Sides : SendFrame(s) \/ Foreign(s)
      BY <3>3, Zenon DEF SendFrame, Foreign, ForeignSend, ForeignMore, ForeignClose
    <3> QED
      BY <3>1, <3>2, <3>3, Zenon DEF Next, vars
  <2> QED
    BY <2>1, Zenon DEF Named
<1>2. wsKey' \in Text
  <2>1. wsKey' = wsKey \/ wsKey' \in Keys
    <3>1. CASE Client
      BY <3>1, Zenon DEF Client, ConnectFails, ClientRequest, ReadHeaders, ClientCheck
    <3>2. CASE Server
      BY <3>2, Zenon DEF Server, Accept, ReadHeaders, ServerAccept
    <3>3. CASE \E s \in Sides : SendFrame(s) \/ Foreign(s)
      BY <3>3, Zenon DEF SendFrame, Foreign, ForeignSend, ForeignMore, ForeignClose
    <3> QED
      BY <3>1, <3>2, <3>3, Zenon DEF Next, vars
  <2> QED
    BY <2>1, TextAssumption, Zenon DEF Named
<1>3. CASE ServerAccept
  <2>1. extractHeader(buf["server"], UserId) \in Text
    BY <1>0, ExtractType DEF IInv, StreamType, Char, UserId
  <2>2. Usable(SessionUser(extractHeader(buf["server"], UserId)))
    BY <2>1, SessionUserUsable, Zenon
  <2>3. CASE ServerAgrees(buf["server"])
    <3>1. userId' = SessionUser(extractHeader(buf["server"], UserId))
      BY <1>3, <2>3, Zenon DEF ServerAccept
    <3> QED
      BY <1>1, <1>2, <2>2, <3>1, Zenon DEF Named, Usable
  <2>4. CASE ~ServerAgrees(buf["server"])
    <3>1. Fail("server") /\ UNCHANGED userId
      BY <1>3, <2>4, Zenon DEF ServerAccept
    <3>2. pc'["server"] = "failed"
      BY <1>0, <3>1, Zenon DEF Fail, Goto
    <3> QED
      BY <1>1, <1>2, <3>1, <3>2, Zenon DEF Named
  <2> QED
    BY <2>3, <2>4, Zenon
<1>4. CASE ~ServerAccept
  <2>1. userId' = userId
    <3>1. CASE Client
      BY <3>1, Zenon DEF Client, ConnectFails, ClientRequest, ReadHeaders, ClientCheck
    <3>2. CASE Server
      BY <1>4, <3>2, Zenon DEF Server, Accept, ReadHeaders
    <3>3. CASE \E s \in Sides : SendFrame(s) \/ Foreign(s)
      BY <3>3, Zenon DEF SendFrame, Foreign, ForeignSend, ForeignMore, ForeignClose
    <3> QED
      BY <3>1, <3>2, <3>3, Zenon DEF Next, vars
  <2>2. pc'["server"] = "open" => pc["server"] = "open"
    <3>0. ASSUME NEW s \in Sides, NEW l, l # "open" \/ s = "client", Goto(s, l)
          PROVE  pc'["server"] = "open" => pc["server"] = "open"
      BY <1>0, <3>0, Zenon DEF Goto
    <3>1. CASE pc' = pc
      BY <3>1, Zenon
    <3>2. CASE Client
      BY <1>0, <3>0, <3>1, <3>2, Zenon
         DEF Client, ConnectFails, ClientRequest, ReadHeaders, ClientCheck, Fail
    <3>3. CASE Server
      BY <1>0, <1>4, <3>0, <3>1, <3>3, Zenon DEF Server, Accept, ReadHeaders, Fail
    <3>4. CASE \E s \in Sides : SendFrame(s) \/ Foreign(s)
      BY <3>0, <3>1, <3>4, Zenon DEF SendFrame, Foreign, ForeignSend, ForeignMore, ForeignClose
    <3> QED
      BY <3>1, <3>2, <3>3, <3>4, Zenon DEF Next, vars
  <2> QED
    BY <1>1, <1>2, <2>1, <2>2, Zenon DEF Named
<1> QED
  BY <1>3, <1>4, Zenon

LEMMA NamedAlways ==
  ASSUME \A key \in Text : AcceptKey(key) \in Text
  PROVE  Spec => [](IInv /\ Named)
<1>1. Init => Named
  BY DEF Init, Named, Sides, Text
<1>2. IInv /\ Named /\ [Next]_vars => Named'
  BY NamedStep, Zenon
<1> QED
  BY <1>1, <1>2, Invariance, PTL DEF Spec

\* The types of the handshake, whatever a foreign program sends; recvHttpHeaders never
\* holds more than one character above its limit.
THEOREM TypeCorrect ==
  ASSUME \A key \in Text : AcceptKey(key) \in Text
  PROVE  Spec => []TypeOK
<1>1. IInv /\ Named => TypeOK
  BY Zenon DEF IInv, StreamType, Read, Named, TypeOK
<1> QED
  BY <1>1, NamedAlways, PTL

\* accept() gives every session a user that is not empty, not too long and without a
\* control character, whatever the userId header of the request holds.
THEOREM UserNamed ==
  ASSUME \A key \in Text : AcceptKey(key) \in Text
  PROVE  Spec => []UserIdUsable
<1>1. Named => UserIdUsable
  BY Zenon DEF Named, Usable, UserIdUsable
<1> QED
  BY <1>1, NamedAlways, PTL

-----------------------------------------------------------------------------
(* Two ends of this code.                                                  *)

Asked(t, key) == key \in Keys /\ \E f \in Text : t = Request(key) \o f
Answered(t, key) == \E f \in Text : t = Response(key) \o f

\* What the two ends have said so far.
Talk ==
  /\ pc["client"] = "start" => sent["server"] = <<>>
  /\ pc["client"] \in {"headers", "check", "open"} => Asked(sent["server"], wsKey)
  /\ pc["client"] = "failed" => sent["server"] = <<>> \/ Asked(sent["server"], wsKey)
  /\ pc["server"] = "open" /\ pc["client"] \notin {"foreign", "said"} =>
       userId = SessionUser(ClientId) /\ Answered(sent["client"], wsKey)
  /\ pc["client"] = "open" => ClientAgrees(buf["client"])

\* A server that has read the headers of a C++ client has its request in hand.
LEMMA RequestTaken ==
  ASSUME IInv, Talk, pc["server"] \in {"check", "open"}, pc["client"] \notin {"foreign", "said"}
  PROVE  wsKey \in Keys /\ buf["server"] = Request(wsKey) /\ pc["client"] # "start"
<1>1. /\ buf["server"] \in Text /\ net["server"] \in Text /\ Whole(buf["server"])
      /\ sent["server"] = buf["server"] \o net["server"]
  BY Zenon DEF IInv, StreamType, Conserved, Sides, Read, Whole
<1>2. sent["server"] # <<>>
  <2> SUFFICES ASSUME sent["server"] = <<>> PROVE FALSE
    BY Zenon
  <2>1. buf["server"] = <<>>
    BY <1>1, EmptyConcat, Zenon
  <2> QED
    BY <1>1, <2>1 DEF Whole, Terminated
<1>3. Asked(sent["server"], wsKey) /\ pc["client"] # "start"
  <2>1. pc["client"] \in PCs /\ pc["client"] # "listen"
    BY Zenon DEF IInv, StreamType, Ends, Sides
  <2> QED
    BY <1>2, <2>1, Zenon DEF Talk, PCs
<1>4. PICK f \in Text : sent["server"] = Request(wsKey) \o f
  BY <1>3, Zenon DEF Asked
<1>5. wsKey \in Keys /\ Request(wsKey) \in Text /\ Whole(Request(wsKey))
  BY <1>3, RequestRead, TextAssumption, PlainAssumption, Zenon DEF Asked
<1>6. buf["server"] = Request(wsKey)
  BY <1>1, <1>4, <1>5, FirstText, Zenon
<1> QED
  BY <1>3, <1>5, <1>6, Zenon

\* A client that has read the headers of a C++ server has its response in hand.
LEMMA ResponseTaken ==
  ASSUME IInv, Talk, pc["client"] \in {"check", "open"}, pc["server"] \notin {"foreign", "said"}
  PROVE  /\ pc["server"] = "open" /\ wsKey \in Keys
         /\ buf["client"] = Response(wsKey)
<1>1. /\ buf["client"] \in Text /\ net["client"] \in Text /\ Whole(buf["client"])
      /\ sent["client"] = buf["client"] \o net["client"]
  BY Zenon DEF IInv, StreamType, Conserved, Sides, Read, Whole
<1>2. pc["server"] = "open"
  <2> SUFFICES ASSUME pc["server"] # "open" PROVE FALSE
    BY Zenon
  <2>1. sent["client"] = <<>>
    BY Zenon DEF IInv, Ends
  <2>2. buf["client"] = <<>>
    BY <1>1, <2>1, EmptyConcat, Zenon
  <2> QED
    BY <1>1, <2>2 DEF Whole, Terminated
<1>3. wsKey \in Keys
  BY Zenon DEF IInv, Ends
<1>4. PICK f \in Text : sent["client"] = Response(wsKey) \o f
  <2>1. Answered(sent["client"], wsKey)
    BY <1>2, Zenon DEF Talk
  <2> QED
    BY <2>1, Zenon DEF Answered
<1>5. Response(wsKey) \in Text /\ Whole(Response(wsKey))
  BY <1>3, ResponseRead, PlainAssumption, Zenon
<1>6. buf["client"] = Response(wsKey)
  BY <1>1, <1>4, <1>5, FirstText, Zenon
<1> QED
  BY <1>2, <1>3, <1>6, Zenon

\* More is sent behind what was said.
LEMMA SaidOn ==
  ASSUME NEW x \in Text, NEW f \in Text, NEW more \in Text
  PROVE  \E g \in Text : (x \o f) \o more = x \o g
<1>1. (x \o f) \o more = x \o (f \o more)
  BY TextAssociative, Zenon
<1>2. f \o more \in Text
  BY ConcatIs, Zenon
<1> QED
  BY <1>1, <1>2, Zenon

\* A step of the client that moves it on and says nothing.
LEMMA TalkClient ==
  ASSUME IInv, Talk, UNCHANGED <<sent, wsKey, userId>>, NEW l \in PCs,
         pc' = [pc EXCEPT !["client"] = l],
         \/ l \in {"headers", "check", "failed"} /\ pc["client"] = "headers"
         \/ l = "failed" /\ pc["client"] \in {"start", "check"}
         \/ l = "open" /\ pc["client"] = "check" /\ ClientAgrees(buf["client"])
            /\ UNCHANGED buf
  PROVE  Talk'
<1>1. /\ pc'["client"] = l /\ pc'["server"] = pc["server"]
      /\ sent' = sent /\ wsKey' = wsKey /\ userId' = userId
  BY Zenon DEF IInv, StreamType, Sides
<1>2. l = "open" => ClientAgrees(buf["client"])'
  BY <1>1, Zenon DEF ClientAgrees
<1> QED
  BY <1>1, <1>2, Zenon DEF Talk

\* A step that leaves the client where it is, and what was said to the server.
LEMMA TalkServer ==
  ASSUME IInv, Talk, UNCHANGED wsKey, sent'["server"] = sent["server"],
         pc'["client"] = pc["client"], buf'["client"] = buf["client"],
         pc'["server"] = "open" /\ pc["client"] \notin {"foreign", "said"} =>
           userId' = SessionUser(ClientId) /\ Answered(sent'["client"], wsKey)
  PROVE  Talk'
<1>1. ClientAgrees(buf["client"]) => ClientAgrees(buf["client"])'
  BY Zenon DEF ClientAgrees
<1> QED
  BY <1>1, Zenon DEF Talk

LEMMA TalkRead ==
  ASSUME IInv, Talk, NEW s \in Sides, ReadHeaders(s)
  PROVE  Talk'
<1>0. "server" \in Sides /\ "client" \in Sides /\ pc \in [Sides -> PCs] /\ buf \in [Sides -> Text]
  BY Zenon DEF Sides, IInv, StreamType
<1>1. pc[s] = "headers" /\ UNCHANGED <<sent, wsKey, userId>>
  BY Zenon DEF ReadHeaders
<1>2. PICK l \in {"headers", "check", "failed"} : pc' = [pc EXCEPT ![s] = l]
  <2>1. pc' = pc => pc' = [pc EXCEPT ![s] = "headers"]
    BY <1>0, <1>1, Zenon
  <2> QED
    BY <2>1, Zenon DEF ReadHeaders, Goto, Fail
<1>3. CASE s = "client"
  <2>1. l \in PCs /\ pc' = [pc EXCEPT !["client"] = l]
    BY <1>2, <1>3, Zenon DEF PCs
  <2> QED
    BY <1>1, <1>3, <2>1, TalkClient, Zenon
<1>4. CASE s = "server"
  <2>1. buf'["client"] = buf["client"]
    <3>1. buf' = buf \/ buf' = [buf EXCEPT !["server"] = Append(@, Head(net["server"]))]
      BY <1>4, Zenon DEF ReadHeaders, Recv
    <3> QED
      BY <1>0, <3>1, Zenon
  <2>2. pc'["client"] = pc["client"] /\ pc'["server"] # "open"
    BY <1>0, <1>2, <1>4, Zenon
  <2> QED
    BY <1>1, <2>1, <2>2, TalkServer, Zenon
<1> QED
  BY <1>3, <1>4, Zenon DEF Sides

LEMMA TalkAccept ==
  ASSUME IInv, Talk, Accept \/ ServerAccept
  PROVE  Talk'
<1>0. /\ "server" \in Sides /\ "client" \in Sides /\ pc \in [Sides -> PCs]
      /\ sent \in [Sides -> Text]
  BY Zenon DEF Sides, IInv, StreamType
<1>1. CASE Accept
  <2>1. /\ pc'["client"] = pc["client"] /\ pc'["server"] # "open"
        /\ UNCHANGED <<sent, buf, wsKey>>
    BY <1>0, <1>1, Zenon DEF Accept, Goto
  <2> QED
    BY <2>1, TalkServer, Zenon
<1>2. CASE ServerAccept
  <2> DEFINE key == extractHeader(buf["server"], SecWebSocketKey)
  <2>1. pc["server"] = "check" /\ UNCHANGED <<buf, wsKey>>
    BY <1>2, Zenon DEF ServerAccept
  <2>2. CASE Fail("server") /\ UNCHANGED sent
    <3>1. pc'["client"] = pc["client"] /\ pc'["server"] # "open"
      BY <1>0, <2>2, Zenon DEF Fail, Goto
    <3> QED
      BY <2>1, <2>2, <3>1, TalkServer, Zenon
  <2>3. CASE /\ userId' = SessionUser(extractHeader(buf["server"], UserId))
             /\ SendTo("client", Response(key)) /\ Goto("server", "open")
    <3>1. pc'["client"] = pc["client"]
      BY <1>0, <2>3, Zenon DEF Goto
    <3>2. sent'["server"] = sent["server"] /\ sent'["client"] = sent["client"] \o Response(key)
      <4> HIDE DEF key
      <4> QED
        BY <1>0, <2>3, Zenon DEF SendTo
    <3>3. ASSUME pc["client"] \notin {"foreign", "said"}
          PROVE  userId' = SessionUser(ClientId) /\ Answered(sent'["client"], wsKey)
      <4>1. wsKey \in Keys /\ buf["server"] = Request(wsKey)
        BY <2>1, <3>3, RequestTaken, Zenon
      <4>2. key = wsKey /\ extractHeader(buf["server"], UserId) = ClientId
        BY <4>1, RequestRead, TextAssumption, PlainAssumption, Zenon
      <4>3. sent["client"] = <<>>
        BY <2>1, Zenon DEF IInv, Ends
      <4>4. Response(wsKey) \in Text
        BY <4>1, ResponseRead, PlainAssumption, Zenon
      <4> HIDE DEF key
      <4>5. <<>> \o Response(wsKey) = Response(wsKey) \o <<>> /\ <<>> \in Text
        BY <4>4 DEF Text
      <4>6. Answered(sent'["client"], wsKey)
        BY <3>2, <4>2, <4>3, <4>5, Zenon DEF Answered
      <4> QED
        BY <2>3, <4>2, <4>6, Zenon
    <3> QED
      BY <2>1, <3>1, <3>2, <3>3, TalkServer, Zenon
  <2> QED
    BY <1>2, <2>2, <2>3, Zenon DEF ServerAccept
<1> QED
  BY <1>1, <1>2, Zenon

LEMMA TalkConnect ==
  ASSUME IInv, Talk, ConnectFails \/ ClientRequest \/ ClientCheck
  PROVE  Talk'
<1>0. /\ "server" \in Sides /\ "client" \in Sides /\ pc \in [Sides -> PCs]
      /\ sent \in [Sides -> Text]
  BY Zenon DEF Sides, IInv, StreamType
<1>1. CASE ConnectFails
  BY <1>1, TalkClient, Zenon DEF ConnectFails, Goto, PCs
<1>2. CASE ClientCheck
  <2>1. /\ pc["client"] = "check" /\ UNCHANGED <<sent, buf, wsKey, userId>>
        /\ \/ pc' = [pc EXCEPT !["client"] = "open"] /\ ClientAgrees(buf["client"])
           \/ pc' = [pc EXCEPT !["client"] = "failed"]
    BY <1>2, Zenon DEF ClientCheck, Goto, Fail
  <2>2. "open" \in PCs /\ "failed" \in PCs
    BY Zenon DEF PCs
  <2>3. CASE pc' = [pc EXCEPT !["client"] = "open"] /\ ClientAgrees(buf["client"])
    BY <2>1, <2>2, <2>3, TalkClient, Zenon
  <2>4. CASE pc' = [pc EXCEPT !["client"] = "failed"]
    BY <2>1, <2>2, <2>4, TalkClient, Zenon
  <2> QED
    BY <2>1, <2>3, <2>4, Zenon
<1>3. CASE ClientRequest
  <2>1. /\ pc["client"] = "start" /\ wsKey' \in Keys /\ UNCHANGED <<buf, userId>>
        /\ sent["server"] = <<>>
    BY <1>3, Zenon DEF ClientRequest, Talk
  <2>2. pc["server"] # "open"
    BY <2>1, RequestTaken, Zenon
  <2>3. /\ pc'["client"] \in {"headers", "failed"} /\ pc'["server"] = pc["server"]
        /\ \/ pc'["client"] = "headers" /\ SendTo("server", Request(wsKey'))
           \/ pc'["client"] = "failed" /\ UNCHANGED sent
    <3>1. \/ pc' = [pc EXCEPT !["client"] = "headers"] /\ SendTo("server", Request(wsKey'))
          \/ pc' = [pc EXCEPT !["client"] = "failed"] /\ UNCHANGED sent
      BY <1>3, Zenon DEF ClientRequest, Goto, Fail
    <3> QED
      BY <1>0, <3>1, Zenon
  <2>4. CASE pc'["client"] = "headers" /\ SendTo("server", Request(wsKey'))
    <3>1. Request(wsKey') \in Text
      BY <2>1, RequestType, TextAssumption, Zenon
    <3>2. sent'["server"] = <<>> \o Request(wsKey')
      BY <1>0, <2>1, <2>4, Zenon DEF SendTo
    <3>3. <<>> \o Request(wsKey') = Request(wsKey') \o <<>> /\ <<>> \in Text
      BY <3>1 DEF Text
    <3>4. Asked(sent'["server"], wsKey')
      BY <2>1, <3>2, <3>3, Zenon DEF Asked
    <3> QED
      BY <2>2, <2>3, <2>4, <3>4, Zenon DEF Talk
  <2>5. CASE pc'["client"] = "failed" /\ UNCHANGED sent
    BY <2>1, <2>2, <2>3, <2>5, Zenon DEF Talk
  <2> QED
    BY <2>3, <2>4, <2>5, Zenon
<1> QED
  BY <1>1, <1>2, <1>3, Zenon

LEMMA TalkOther ==
  ASSUME IInv, Talk, NEW s \in Sides, SendFrame(s) \/ Foreign(s)
  PROVE  Talk'
<1>0. /\ "server" \in Sides /\ "client" \in Sides /\ pc \in [Sides -> PCs]
      /\ sent \in [Sides -> Text] /\ (s = "client" \/ s = "server")
      /\ Other("client") = "server" /\ Other("server") = "client"
  BY Zenon DEF Sides, IInv, StreamType, Other
<1>1. UNCHANGED <<buf, wsKey, userId>>
  BY Zenon DEF SendFrame, Foreign, ForeignSend, ForeignMore, ForeignClose
<1>2. <<Frame>> \in Text
  BY DEF Text, Char, Frame
<1>3. CASE SendFrame(s)
  <2>1. pc[s] = "open" /\ pc' = pc /\ SendTo(Other(s), <<Frame>>)
    BY <1>3, Zenon DEF SendFrame
  <2>2. CASE s = "client"
    <3>1. sent'["server"] = sent["server"] \o <<Frame>> /\ sent'["client"] = sent["client"]
      BY <1>0, <2>1, <2>2, Zenon DEF SendTo
    <3>2. wsKey \in Keys /\ \E f \in Text : sent["server"] = Request(wsKey) \o f
      BY <2>1, <2>2, Zenon DEF Talk, Asked
    <3>3. Request(wsKey) \in Text
      BY <3>2, RequestType, TextAssumption, Zenon
    <3>4. \E f \in Text : sent["server"] \o <<Frame>> = Request(wsKey) \o f
      <4>1. PICK f \in Text : sent["server"] = Request(wsKey) \o f
        BY <3>2, Zenon
      <4>2. \E g \in Text : (Request(wsKey) \o f) \o <<Frame>> = Request(wsKey) \o g
        BY <1>2, <3>3, SaidOn, Zenon
      <4> QED
        BY <4>1, <4>2, Zenon
    <3>5. Asked(sent'["server"], wsKey)
      BY <3>1, <3>2, <3>4, Zenon DEF Asked
    <3>6. ClientAgrees(buf["client"])'
      BY <1>1, <2>1, <2>2, Zenon DEF Talk, ClientAgrees
    <3> QED
      BY <1>1, <2>1, <2>2, <3>1, <3>5, <3>6, Zenon DEF Talk
  <2>3. CASE s = "server"
    <3>1. sent'["client"] = sent["client"] \o <<Frame>> /\ sent'["server"] = sent["server"]
      BY <1>0, <2>1, <2>3, Zenon DEF SendTo
    <3>2. ASSUME pc["client"] \notin {"foreign", "said"}
          PROVE  userId' = SessionUser(ClientId) /\ Answered(sent'["client"], wsKey)
      <4>1. wsKey \in Keys
        BY <2>1, <2>3, <3>2, RequestTaken, Zenon
      <4>2. Response(wsKey) \in Text
        BY <4>1, ResponseRead, PlainAssumption, Zenon
      <4>3. userId = SessionUser(ClientId) /\ \E f \in Text : sent["client"] = Response(wsKey) \o f
        BY <2>1, <2>3, <3>2, Zenon DEF Talk, Answered
      <4>4. \E f \in Text : sent["client"] \o <<Frame>> = Response(wsKey) \o f
        <5>1. PICK f \in Text : sent["client"] = Response(wsKey) \o f
          BY <4>3, Zenon
        <5>2. \E g \in Text : (Response(wsKey) \o f) \o <<Frame>> = Response(wsKey) \o g
          BY <1>2, <4>2, SaidOn, Zenon
        <5> QED
          BY <5>1, <5>2, Zenon
      <4> QED
        BY <1>1, <3>1, <4>3, <4>4, Zenon DEF Answered
    <3> QED
      BY <1>1, <2>1, <3>1, <3>2, TalkServer, Zenon
  <2> QED
    BY <1>0, <2>2, <2>3, Zenon
<1>4. CASE Foreign(s) /\ s = "server"
  <2>1. pc[s] \in {"foreign", "said"}
    BY <1>4, Zenon DEF Foreign, ForeignSend, ForeignMore, ForeignClose
  <2>2. pc' = pc \/ pc' = [pc EXCEPT ![s] = "said"]
    BY <1>4, Zenon DEF Foreign, ForeignSend, ForeignMore, ForeignClose, Goto
  <2>3. pc'["client"] = pc["client"] /\ pc'["server"] # "open"
    BY <1>0, <1>4, <2>1, <2>2, Zenon
  <2>4. sent' = sent \/ \E text : SendTo("client", text)
    BY <1>0, <1>4, Zenon DEF Foreign, ForeignSend, ForeignMore, ForeignClose
  <2>5. sent'["server"] = sent["server"]
    BY <1>0, <2>4, Zenon DEF SendTo
  <2> QED
    BY <1>1, <2>3, <2>5, TalkServer, Zenon
<1>5. CASE Foreign(s) /\ s = "client"
  <2>1. pc[s] \in {"foreign", "said"}
    BY <1>5, Zenon DEF Foreign, ForeignSend, ForeignMore, ForeignClose
  <2>2. pc' = pc \/ pc' = [pc EXCEPT ![s] = "said"]
    BY <1>5, Zenon DEF Foreign, ForeignSend, ForeignMore, ForeignClose, Goto
  <2>3. pc'["client"] \in {"foreign", "said"}
    BY <1>0, <1>5, <2>1, <2>2, Zenon
  <2> QED
    BY <2>3, Zenon DEF Talk
<1> QED
  BY <1>0, <1>3, <1>4, <1>5, Zenon

LEMMA TalkAlways ==
  ASSUME \A key \in Text : AcceptKey(key) \in Text
  PROVE  Spec => [](IInv /\ Talk)
<1>1. Init => Talk
  <2> SUFFICES ASSUME Init PROVE Talk
    OBVIOUS
  <2>1. pc["client"] \in {"start", "foreign"} /\ pc["server"] \in {"listen", "foreign"}
    BY DEF Init
  <2>2. sent["server"] = <<>>
    BY DEF Init, Sides
  <2>3. /\ pc["client"] \notin {"headers", "check", "open"}
        /\ pc["client"] # "failed" /\ pc["client"] # "open" /\ pc["server"] # "open"
    BY <2>1
  <2> QED
    BY <2>2, <2>3, Zenon DEF Talk
<1>2. IInv /\ Talk /\ [Next]_vars => Talk'
  <2> SUFFICES ASSUME IInv, Talk, [Next]_vars PROVE Talk'
    BY Zenon
  <2>1. CASE Client
    BY <2>1, TalkRead, TalkConnect, Zenon DEF Client, Sides
  <2>2. CASE Server
    BY <2>2, TalkRead, TalkAccept, Zenon DEF Server, Sides
  <2>3. CASE \E s \in Sides : SendFrame(s) \/ Foreign(s)
    BY <2>3, TalkOther, Zenon
  <2>4. CASE UNCHANGED vars
    BY <2>4, Zenon DEF vars, Talk, ClientAgrees
  <2> QED
    BY <2>1, <2>2, <2>3, <2>4, Zenon DEF Next
<1> QED
  BY <1>1, <1>2, Invariance, PTL DEF Spec

\* The C++ client and the C++ server agree for every key, user name and limit: what
\* connect() writes is accepted under its name, and the response with its key.
THEOREM EndsAgree ==
  ASSUME \A key \in Text : AcceptKey(key) \in Text
  PROVE  Spec => []Interoperates
<1>1. IInv /\ Talk => Interoperates
  <2> SUFFICES ASSUME IInv, Talk, pc["client"] \notin {"foreign", "said"},
                      pc["server"] \notin {"foreign", "said"}
               PROVE  /\ pc["server"] = "check" => ServerAgrees(buf["server"])
                      /\ pc["server"] = "open" => userId = SessionUser(ClientId)
                      /\ pc["client"] = "check" => ClientAgrees(buf["client"])
    BY Zenon DEF Interoperates
  <2>1. ASSUME pc["server"] = "check" PROVE ServerAgrees(buf["server"])
    BY <2>1, RequestTaken, RequestRead, TextAssumption, PlainAssumption, Zenon
  <2>2. pc["server"] = "open" => userId = SessionUser(ClientId)
    BY Zenon DEF Talk
  <2>3. ASSUME pc["client"] = "check" PROVE ClientAgrees(buf["client"])
    BY <2>3, ResponseTaken, ResponseRead, PlainAssumption, Zenon DEF ClientAgrees
  <2> QED
    BY <2>1, <2>2, <2>3, Zenon
<1> QED
  BY <1>1, TalkAlways, PTL

\* connect() returns true only when the 101 answers its own key: the C++ server took
\* the key out of this client's request, and the response of a foreign one has a line
\* with the answer to it.
THEOREM OwnKeyAnswered ==
  ASSUME \A key \in Text : AcceptKey(key) \in Text
  PROVE  Spec => []AnswersOwnKey
<1>1. IInv /\ Talk => AnswersOwnKey
  <2> SUFFICES ASSUME IInv, Talk, pc["client"] = "open"
               PROVE  \/ /\ pc["server"] = "open"
                         /\ extractHeader(buf["server"], SecWebSocketKey) = wsKey
                      \/ /\ pc["server"] = "said" /\ Head(buf["client"]) = Status101
                         /\ HeaderOf(buf["client"], SecWebSocketAccept) = AcceptKey(wsKey)
    BY Zenon DEF AnswersOwnKey
  <2>1. /\ buf["client"] \in Text /\ net["client"] \in Text /\ Terminated(buf["client"])
        /\ sent["client"] = buf["client"] \o net["client"]
    BY Zenon DEF IInv, StreamType, Conserved, Sides, Read
  <2>2. pc["server"] \in {"open", "said"}
    <3> SUFFICES ASSUME pc["server"] \notin {"open", "said"} PROVE FALSE
      BY Zenon
    <3>1. buf["client"] = <<>>
      BY <2>1, EmptyConcat, Zenon DEF IInv, Ends
    <3> QED
      BY <2>1, <3>1 DEF Terminated
  <2>3. CASE pc["server"] = "open"
    <3>1. wsKey \in Keys /\ buf["server"] = Request(wsKey)
      BY <2>3, RequestTaken, Zenon
    <3>2. extractHeader(buf["server"], SecWebSocketKey) = wsKey
      BY <3>1, RequestRead, TextAssumption, PlainAssumption, Zenon
    <3> QED
      BY <2>3, <3>2, Zenon
  <2>4. CASE pc["server"] = "said"
    <3>1. /\ Head(buf["client"]) = Status101
          /\ extractHeader(buf["client"], SecWebSocketAccept) = AcceptKey(wsKey)
      BY Zenon DEF Talk, ClientAgrees
    <3>2. SecWebSocketAccept \in Char /\ tolower(SecWebSocketAccept) # CR
      BY DEF SecWebSocketAccept, Char, tolower, CR
    <3>3. extractHeader(buf["client"], SecWebSocketAccept)
            = HeaderOf(buf["client"], SecWebSocketAccept)
      BY <2>1, <3>2, Extracts, Zenon
    <3> QED
      BY <2>4, <3>1, <3>3, Zenon
  <2> QED
    BY <2>2, <2>3, <2>4, Zenon
<1> QED
  BY <1>1, TalkAlways, PTL
=============================================================================
