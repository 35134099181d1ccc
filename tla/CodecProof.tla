----------------------------- MODULE CodecProof ------------------------------
(***************************************************************************)
(* For every frame, every width of a byte and of a word: decodeMessage     *)
(* stays within the payload, and the counts it believes are covered by     *)
(* bytes that have arrived; and a field that was written is read back.     *)
(***************************************************************************)
EXTENDS Codec, TLAPS, WellFoundedInduction

\* A set of numbers with 0 and the successor of each of its members has them all:
\* the least number outside of it would have a predecessor inside.
LEMMA NatInd ==
  ASSUME NEW S \in SUBSET Nat, 0 \in S, \A n \in S : n + 1 \in S
  PROVE  S = Nat
<1> DEFINE R == OpToRel(<, Nat)
           T == Nat \ S
<1>1. IsWellFoundedOn(R, Nat)
  BY NatLessThanWellFounded, Zenon
<1>2. \A x, y \in Nat : <<y, x>> \in R <=> y < x
  BY Zenon DEF OpToRel
<1> HIDE DEF R
<1> SUFFICES ASSUME T # {} PROVE FALSE
  BY Zenon
<1>3. PICK x \in T : \A y \in T : ~(<<y, x>> \in R)
  <2>1. T \subseteq Nat
    BY Zenon DEF T
  <2> HIDE DEF T
  <2> QED
    BY <1>1, <2>1, WFMin, Zenon
<1>4. x \in Nat /\ x # 0 /\ x - 1 \in Nat
  OBVIOUS
<1>5. x - 1 \in S
  <2>1. <<x - 1, x>> \in R
    BY <1>2, <1>4
  <2> QED
    BY <1>3, <1>4, <2>1, Zenon
<1> QED
  BY <1>4, <1>5

-----------------------------------------------------------------------------
(* The operators on sequences, as far as they are needed here.             *)

LEMMA SeqLen ==
  ASSUME NEW S, NEW s \in Seq(S)
  PROVE  Len(s) \in Nat /\ s \in [1..Len(s) -> S] /\ DOMAIN s = 1..Len(s)
OBVIOUS

LEMMA SeqElement ==
  ASSUME NEW S, NEW s \in Seq(S), NEW i \in 1..Len(s)
  PROVE  s[i] \in S
OBVIOUS

LEMMA SeqEqual ==
  ASSUME NEW S, NEW s \in Seq(S), NEW t \in Seq(S),
         Len(s) = Len(t), \A i \in 1..Len(s) : s[i] = t[i]
  PROVE  s = t
OBVIOUS

LEMMA SeqConcat ==
  ASSUME NEW S, NEW s \in Seq(S), NEW t \in Seq(S)
  PROVE  /\ s \o t \in Seq(S) /\ Len(s \o t) = Len(s) + Len(t)
         /\ \A i \in 1..Len(s) + Len(t) : (s \o t)[i] = IF i <= Len(s) THEN s[i] ELSE t[i - Len(s)]
OBVIOUS

LEMMA SeqNothing ==
  ASSUME NEW S, NEW s \in Seq(S)
  PROVE  s \o <<>> = s /\ <<>> \o s = s
OBVIOUS

LEMMA SeqHeadTail ==
  ASSUME NEW S, NEW s \in Seq(S), s # <<>>
  PROVE  /\ Head(s) \in S /\ Tail(s) \in Seq(S) /\ Len(Tail(s)) = Len(s) - 1
         /\ \A i \in 1..Len(Tail(s)) : Tail(s)[i] = s[i + 1]
OBVIOUS

LEMMA SeqAppend ==
  ASSUME NEW S, NEW s \in Seq(S), NEW x \in S
  PROVE  /\ Append(s, x) \in Seq(S) /\ Append(s, x) # <<>> /\ Len(Append(s, x)) = Len(s) + 1
         /\ \A i \in 1..Len(s) : Append(s, x)[i] = s[i]
         /\ Append(s, x)[Len(s) + 1] = x
OBVIOUS

\* t is what stands from m to n in s.
IsCut(t, S, s, m, n) ==
  /\ t \in Seq(S) /\ Len(t) = IF m <= n THEN n - m + 1 ELSE 0
  /\ \A i \in 1..n - m + 1 : t[i] = s[m + i - 1]
LEMMA SeqSubSeq ==
  ASSUME NEW S, NEW s, NEW m \in Int, NEW n \in Int, \A i \in m..n : s[i] \in S
  PROVE  IsCut(SubSeq(s, m, n), S, s, m, n)
BY DEF IsCut

-----------------------------------------------------------------------------
(* Powers of the base.                                                     *)

\* p[i] is the i-th power, up to k.
Powers(p, k) == p = [i \in 0..k |-> IF i = 0 THEN 1 ELSE p[i - 1] * Base]

LEMMA PowersExist == ASSUME NEW n \in Nat PROVE \E p : Powers(p, n)
<1> DEFINE Good == {k \in Nat : \E p : Powers(p, k)}
<1>1. 0 \in Good
  <2>1. Powers([i \in 0..0 |-> 1], 0)
    BY DEF Powers
  <2> QED
    BY <2>1, Zenon
<1>2. ASSUME NEW k \in Good PROVE k + 1 \in Good
  <2>1. PICK p : Powers(p, k)
    BY Zenon
  <2> DEFINE q == [i \in 0..k + 1 |-> IF i <= k THEN p[i] ELSE p[k] * Base]
  <2>2. ASSUME NEW i \in 0..k + 1 PROVE q[i] = IF i = 0 THEN 1 ELSE q[i - 1] * Base
    <3>1. CASE i = 0
      BY <2>1, <3>1 DEF Powers
    <3>2. CASE i \in 1..k
      BY <2>1, <3>2 DEF Powers
    <3>3. CASE i = k + 1
      BY <2>1, <3>3 DEF Powers
    <3> QED
      BY <3>1, <3>2, <3>3
  <2>3. q = [i \in 0..k + 1 |-> IF i = 0 THEN 1 ELSE q[i - 1] * Base]
    BY <2>2, Zenon
  <2>4. Powers(q, k + 1)
    BY <2>3, Zenon DEF Powers
  <2> QED
    BY <2>4
<1> HIDE DEF Good
<1>3. Good = Nat
  <2>1. Good \in SUBSET Nat
    BY Zenon DEF Good
  <2> QED
    BY <1>1, <1>2, <2>1, NatInd, Zenon
<1> QED
  BY <1>3, Zenon DEF Good

LEMMA PowersAgree ==
  ASSUME NEW p, NEW q, NEW k \in Nat, NEW l \in Nat, Powers(p, k), Powers(q, l)
  PROVE  \A i \in Nat : i <= k /\ i <= l => p[i] = q[i]
<1> DEFINE Good == {i \in Nat : i <= k /\ i <= l => p[i] = q[i]}
<1>1. 0 \in Good
  BY DEF Powers
<1>2. ASSUME NEW i \in Good PROVE i + 1 \in Good
  <2> SUFFICES ASSUME i + 1 <= k, i + 1 <= l PROVE p[i + 1] = q[i + 1]
    OBVIOUS
  <2>1. p[i] = q[i] /\ i + 1 \in 1..k /\ i + 1 \in 1..l /\ (i + 1) - 1 = i
    OBVIOUS
  <2>2. p[i + 1] = p[i] * Base
    BY <2>1 DEF Powers
  <2>3. q[i + 1] = q[i] * Base
    BY <2>1 DEF Powers
  <2> QED
    BY <2>1, <2>2, <2>3, Zenon
<1> HIDE DEF Good
<1>3. Good = Nat
  <2>1. Good \in SUBSET Nat
    BY Zenon DEF Good
  <2> QED
    BY <1>1, <1>2, <2>1, NatInd, Zenon
<1> QED
  BY <1>3, Zenon DEF Good

LEMMA PowerAt ==
  ASSUME NEW n \in Nat
  PROVE  \E p : Powers(p, n) /\ Power(n) = p[n]
<1> DEFINE P == CHOOSE p : Powers(p, n)
<1>1. Powers(P, n)
  BY PowersExist, Zenon
<1>2. Power(n) = P[n]
  BY Zenon DEF Power, Powers
<1> QED
  BY <1>1, <1>2, Zenon

LEMMA PowerZero == Power(0) = 1
<1>1. PICK p : Powers(p, 0) /\ Power(0) = p[0]
  BY PowerAt, Zenon
<1> QED
  BY <1>1 DEF Powers

LEMMA PowerNext == ASSUME NEW n \in Nat PROVE Power(n + 1) = Power(n) * Base
<1>1. PICK p : Powers(p, n) /\ Power(n) = p[n]
  BY PowerAt, Zenon
<1>2. PICK q : Powers(q, n + 1) /\ Power(n + 1) = q[n + 1]
  BY PowerAt
<1>3. p[n] = q[n]
  BY <1>1, <1>2, PowersAgree
<1>4. q[n + 1] = q[n] * Base
  BY <1>2 DEF Powers
<1> QED
  BY <1>1, <1>2, <1>3, <1>4, Zenon

LEMMA PowerType == \A n \in Nat : Power(n) \in Nat \ {0}
<1> DEFINE Good == {n \in Nat : Power(n) \in Nat \ {0}}
<1>1. 0 \in Good
  BY PowerZero
<1>2. ASSUME NEW n \in Good PROVE n + 1 \in Good
  <2> DEFINE x == Power(n)
  <2>1. x \in Nat \ {0} /\ Base \in Nat \ {0} /\ Power(n + 1) = x * Base
    BY PowerNext, WidthAssumption, Zenon
  <2> HIDE DEF x
  <2> QED
    BY <2>1
<1> HIDE DEF Good
<1>3. Good = Nat
  <2>1. Good \in SUBSET Nat
    BY Zenon DEF Good
  <2> QED
    BY <1>1, <1>2, <2>1, NatInd, Zenon
<1> QED
  BY <1>3, Zenon DEF Good

LEMMA PowerSum == ASSUME NEW m \in Nat PROVE \A n \in Nat : Power(m + n) = Power(m) * Power(n)
<1> DEFINE Good == {n \in Nat : Power(m + n) = Power(m) * Power(n)}
           x == Power(m)
<1>0. x \in Nat
  BY PowerType
<1>1. 0 \in Good
  <2>1. Power(0) = 1 /\ m + 0 = m
    BY PowerZero
  <2>2. x * 1 = x
    BY <1>0
  <2> QED
    BY <2>1, <2>2, Zenon
<1>2. ASSUME NEW n \in Good PROVE n + 1 \in Good
  <2> DEFINE y == Power(n)
  <2>1. /\ y \in Nat /\ Base \in Nat /\ m + (n + 1) = (m + n) + 1
        /\ Power(m + n) = x * y /\ Power(n + 1) = y * Base
        /\ Power((m + n) + 1) = Power(m + n) * Base
    BY PowerNext, PowerType, WidthAssumption
  <2> HIDE DEF x, y
  <2>2. (x * y) * Base = x * (y * Base)
    BY <1>0, <2>1
  <2>3. Power(m + (n + 1)) = x * Power(n + 1)
    BY <2>1, <2>2, Zenon
  <2> QED
    BY <2>3 DEF x
<1> HIDE DEF Good
<1>3. Good = Nat
  <2>1. Good \in SUBSET Nat
    BY Zenon DEF Good
  <2> QED
    BY <1>1, <1>2, <2>1, NatInd, Zenon
<1> QED
  BY <1>3, Zenon DEF Good

-----------------------------------------------------------------------------
(* Numbers.                                                                *)

\* v[i] is the number that the first i bytes of s stand for, up to k.
Reads(s, v, k) ==
  v = [i \in 0..k |-> IF i = 0 THEN 0 ELSE v[i - 1] * Base + s[i]]

LEMMA ReadsExists ==
  ASSUME NEW s, NEW n \in Nat PROVE \E v : Reads(s, v, n)
<1> DEFINE Good == {k \in Nat : \E v : Reads(s, v, k)}
<1>1. 0 \in Good
  <2>1. Reads(s, [i \in 0..0 |-> 0], 0)
    BY DEF Reads
  <2> QED
    BY <2>1, Zenon
<1>2. ASSUME NEW k \in Good PROVE k + 1 \in Good
  <2>1. PICK v : Reads(s, v, k)
    BY Zenon
  <2> DEFINE w == [i \in 0..k + 1 |-> IF i <= k THEN v[i] ELSE v[k] * Base + s[k + 1]]
  <2>2. ASSUME NEW i \in 0..k + 1
        PROVE  w[i] = IF i = 0 THEN 0 ELSE w[i - 1] * Base + s[i]
    <3>1. CASE i = 0
      BY <2>1, <3>1 DEF Reads
    <3>2. CASE i \in 1..k
      BY <2>1, <3>2 DEF Reads
    <3>3. CASE i = k + 1
      BY <2>1, <3>3 DEF Reads
    <3> QED
      BY <3>1, <3>2, <3>3
  <2>3. w = [i \in 0..k + 1 |-> IF i = 0 THEN 0 ELSE w[i - 1] * Base + s[i]]
    BY <2>2, Zenon
  <2>4. Reads(s, w, k + 1)
    BY <2>3, Zenon DEF Reads
  <2> QED
    BY <2>4
<1> HIDE DEF Good
<1>3. Good = Nat
  <2>1. Good \in SUBSET Nat
    BY Zenon DEF Good
  <2> QED
    BY <1>1, <1>2, <2>1, NatInd, Zenon
<1> QED
  BY <1>3, Zenon DEF Good

LEMMA NumberReads ==
  ASSUME NEW s, Len(s) \in Nat
  PROVE  \E v : Reads(s, v, Len(s)) /\ Number(s) = v[Len(s)]
<1> DEFINE V == CHOOSE v : Reads(s, v, Len(s))
<1>1. Reads(s, V, Len(s))
  BY ReadsExists, Zenon
<1>2. Number(s) = V[Len(s)]
  BY DEF Number, Reads
<1> QED
  BY <1>1, <1>2, Zenon

\* Bytes stand for a natural number.
LEMMA NumberType ==
  ASSUME NEW s \in Seq(0..Base - 1) PROVE Number(s) \in Nat
<1>0. Len(s) \in Nat
  OBVIOUS
<1>1. PICK v : Reads(s, v, Len(s)) /\ Number(s) = v[Len(s)]
  BY <1>0, NumberReads, Zenon
<1> DEFINE Good == {i \in Nat : i <= Len(s) => v[i] \in Nat}
<1>2. 0 \in Good
  BY <1>1 DEF Reads
<1>3. ASSUME NEW i \in Good PROVE i + 1 \in Good
  <2> SUFFICES ASSUME i + 1 <= Len(s) PROVE v[i + 1] \in Nat
    OBVIOUS
  <2>1. v[i] \in Nat /\ i + 1 \in 1..Len(s)
    OBVIOUS
  <2>2. s[i + 1] \in Nat
    BY <2>1, WidthAssumption
  <2>3. v[i + 1] = v[i] * Base + s[i + 1]
    BY <1>1, <2>1 DEF Reads
  <2>4. v[i] * Base \in Nat
    <3> DEFINE x == v[i]
    <3>1. x \in Nat /\ Base \in Nat
      BY <2>1, WidthAssumption, Zenon
    <3> HIDE DEF x
    <3>2. x * Base \in Nat
      BY <3>1
    <3> QED
      BY <3>2, Zenon DEF x
  <2> DEFINE y == v[i] * Base
  <2>5. y \in Nat /\ v[i + 1] = y + s[i + 1]
    BY <2>3, <2>4, Zenon
  <2> HIDE DEF y
  <2> QED
    BY <2>2, <2>5
<1> HIDE DEF Good
<1>4. Good = Nat
  <2>1. Good \in SUBSET Nat
    BY DEF Good
  <2> QED
    BY <1>2, <1>3, <2>1, NatInd, Zenon
<1> QED
  BY <1>0, <1>1, <1>4 DEF Good

-----------------------------------------------------------------------------
(* Quotients.                                                              *)

LEMMA Quotient ==
  ASSUME NEW a \in Int, NEW b \in Nat \ {0}
  PROVE  /\ a \div b \in Int /\ a % b \in 0..b - 1
         /\ a = b * (a \div b) + (a % b)
<1>1. a \div b \in Int /\ a % b \in 0..b - 1
  OBVIOUS
<1>2. a = b * (a \div b) + (a % b)
  OBVIOUS
<1> QED
  BY <1>1, <1>2, Zenon

LEMMA QuotientIs ==
  ASSUME NEW a \in Int, NEW b \in Nat \ {0}, NEW q \in Int, NEW r \in 0..b - 1,
         a = b * q + r
  PROVE  a \div b = q /\ a % b = r
<1>1. q * b <= a /\ a < q * b + b
  OBVIOUS
<1>2. a \div b = q
  BY <1>1
<1>3. a = b * (a \div b) + (a % b) /\ a % b \in 0..b - 1
  BY Quotient, Zenon
<1> DEFINE x == b * q
           y == a % b
<1>4. x \in Int /\ a = x + r
  OBVIOUS
<1>6. a = x + y
  BY <1>2, <1>3, Zenon
<1>7. y \in Int
  BY <1>3
<1> HIDE DEF x, y
<1>5. y = r
  BY <1>4, <1>6, <1>7
<1> QED
  BY <1>2, <1>5, Zenon DEF y

\* Dividing by a product is dividing by one factor and then by the other.
LEMMA QuotientTwice ==
  ASSUME NEW v \in Int, NEW m \in Nat \ {0}, NEW b \in Nat \ {0}
  PROVE  v \div (m * b) = (v \div m) \div b
<1> DEFINE q == v \div m
           r == v % m
           d == q \div b
           s == q % b
<1>1. q \in Int /\ r \in 0..m - 1 /\ v = m * q + r
  BY Quotient
<1>2. d \in Int /\ s \in 0..b - 1 /\ q = b * d + s
  BY <1>1, Quotient, Zenon
<1> HIDE DEF q, r, d, s
<1>3. m * q = m * (b * d) + m * s
  BY <1>1, <1>2
<1>4. m * (b * d) = (m * b) * d
  BY <1>2
<1>5. m * s \in Nat /\ m * s + m <= m * b
  <2>1. s + 1 <= b /\ s \in Nat
    BY <1>2
  <2>2. m * (s + 1) <= m * b /\ m * (s + 1) = m * s + m
    BY <2>1
  <2> QED
    BY <2>1, <2>2
<1> DEFINE t == m * s
           n == m * b
           e == n * d
<1>6. /\ t \in Nat /\ t + m <= n /\ n \in Nat \ {0} /\ e \in Int /\ v = e + (t + r)
      /\ e = n * d
  BY <1>1, <1>2, <1>3, <1>4, <1>5
<1> HIDE DEF t, n, e
<1>7. t + r \in 0..n - 1
  BY <1>1, <1>6
<1>8. v \div n = d
  BY <1>2, <1>6, <1>7, QuotientIs
<1> QED
  BY <1>8, Zenon DEF n, d, q

-----------------------------------------------------------------------------
(* Numbers that were written are the numbers that are read.                *)

\* readU32 after writeU32.
LEMMA NumberU32 ==
  ASSUME NEW v \in Nat, v < Word
  PROVE  U32(v) \in Seq(0..Base - 1) /\ Len(U32(v)) = WordLen /\ Number(U32(v)) = v
<1> DEFINE s == U32(v)
           P(i) == Power(WordLen - i)
<1>0. /\ WordLen \in Nat \ {0} /\ Base \in Nat \ {0}
      /\ \A i \in 0..WordLen : P(i) \in Nat \ {0} /\ v \div P(i) \in Int
  BY WidthAssumption, PowerType
<1>1. \A i \in 1..WordLen : s[i] = (v \div P(i)) % Base /\ s[i] \in 0..Base - 1
  BY <1>0 DEF U32
<1>2. s \in Seq(0..Base - 1) /\ Len(s) = WordLen
  <2>1. s \in [1..WordLen -> 0..Base - 1]
    BY <1>1, Zenon DEF U32
  <2> HIDE DEF s
  <2> QED
    BY <1>0, <2>1
<1>3. PICK w : Reads(s, w, WordLen) /\ Number(s) = w[WordLen]
  BY <1>0, <1>2, NumberReads, Zenon
<1> DEFINE Good == {i \in Nat : i <= WordLen => w[i] = v \div P(i)}
<1>4. 0 \in Good
  <2>1. w[0] = 0
    BY <1>0, <1>3 DEF Reads
  <2>2. P(0) = Word
    BY <1>0 DEF Word
  <2>3. v \div Word = 0
    <3>1. Word \in Nat \ {0} /\ v \in 0..Word - 1
      BY <1>0, <2>2
    <3>2. v = Word * 0 + v
      BY <3>1
    <3> QED
      BY <3>1, <3>2, QuotientIs
  <2> QED
    BY <2>1, <2>2, <2>3, Zenon
<1>5. ASSUME NEW i \in Good PROVE i + 1 \in Good
  <2> SUFFICES ASSUME i + 1 <= WordLen PROVE w[i + 1] = v \div P(i + 1)
    OBVIOUS
  <2>1. w[i] = v \div P(i) /\ i + 1 \in 1..WordLen /\ i \in 0..WordLen
    BY <1>0
  <2>2. w[i + 1] = w[i] * Base + s[i + 1]
    BY <1>3, <2>1 DEF Reads
  <2> DEFINE m == P(i + 1)
             q == v \div m
  <2>3. m \in Nat \ {0} /\ q \in Int /\ s[i + 1] = q % Base
    BY <1>0, <1>1, <2>1
  <2>4. P(i) = m * Base
    <3>1. WordLen - (i + 1) \in Nat /\ (WordLen - (i + 1)) + 1 = WordLen - i
      BY <1>0, <2>1
    <3> QED
      BY <3>1, PowerNext, Zenon
  <2>5. v \div P(i) = q \div Base
    BY <1>0, <2>3, <2>4, QuotientTwice
  <2>6. w[i + 1] = (q \div Base) * Base + (q % Base)
    BY <2>1, <2>2, <2>3, <2>5, Zenon
  <2> HIDE DEF m, q
  <2>7. q = Base * (q \div Base) + (q % Base) /\ q \div Base \in Int
    BY <1>0, <2>3, Quotient, Zenon
  <2>8. (q \div Base) * Base = Base * (q \div Base)
    BY <1>0, <2>7
  <2>9. w[i + 1] = q
    BY <2>6, <2>7, <2>8, Zenon
  <2> QED
    BY <2>9, Zenon DEF q, m
<1> HIDE DEF Good
<1>6. Good = Nat
  <2>1. Good \in SUBSET Nat
    BY Zenon DEF Good
  <2> QED
    BY <1>4, <1>5, <2>1, NatInd
<1>7. w[WordLen] = v \div P(WordLen)
  BY <1>0, <1>6 DEF Good
<1>8. P(WordLen) = 1
  BY <1>0, PowerZero
<1>9. v \div 1 = v
  OBVIOUS
<1> QED
  BY <1>2, <1>3, <1>7, <1>8, <1>9, Zenon

\* The number of bytes a followed by bytes b.
LEMMA NumberConcat ==
  ASSUME NEW a \in Seq(0..Base - 1), NEW b \in Seq(0..Base - 1)
  PROVE  Number(a \o b) = Number(a) * Power(Len(b)) + Number(b)
<1> DEFINE B == 0..Base - 1
           s == a \o b
           k == Len(a)
           n == Len(b)
<1>0. Base \in Nat \ {0} /\ B \subseteq Nat
  BY WidthAssumption
<1>1. /\ s \in Seq(B) /\ Len(s) = k + n /\ k \in Nat /\ n \in Nat
      /\ \A i \in 1..k : s[i] = a[i]
      /\ \A i \in 1..n : s[k + i] = b[i] /\ b[i] \in Nat
  BY <1>0
<1>2. PICK v : Reads(a, v, k) /\ Number(a) = v[k]
  BY <1>1, NumberReads, Zenon
<1>3. PICK w : Reads(b, w, n) /\ Number(b) = w[n]
  BY <1>1, NumberReads, Zenon
<1> HIDE DEF s, B
<1>4. PICK u : Reads(s, u, k + n) /\ Number(s) = u[k + n]
  <2>1. Len(s) \in Nat
    BY <1>1
  <2>2. \E u : Reads(s, u, Len(s)) /\ Number(s) = u[Len(s)]
    BY <2>1, NumberReads, Zenon
  <2> QED
    BY <1>1, <2>2
<1> DEFINE One == {i \in Nat : i <= k => u[i] = v[i]}
<1>5. One = Nat
  <2>1. 0 \in One
    BY <1>1, <1>2, <1>4 DEF Reads
  <2>2. ASSUME NEW i \in One PROVE i + 1 \in One
    <3> SUFFICES ASSUME i + 1 <= k PROVE u[i + 1] = v[i + 1]
      OBVIOUS
    <3>1. u[i] = v[i] /\ i + 1 \in 1..k /\ i + 1 \in 1..k + n /\ (i + 1) - 1 = i
      BY <1>1
    <3>2. u[i + 1] = u[i] * Base + s[i + 1]
      BY <1>4, <3>1 DEF Reads
    <3>3. v[i + 1] = v[i] * Base + a[i + 1]
      BY <1>2, <3>1 DEF Reads
    <3> QED
      BY <1>1, <3>1, <3>2, <3>3, Zenon
  <2> HIDE DEF One
  <2>3. One \in SUBSET Nat
    BY Zenon DEF One
  <2> QED
    BY <2>1, <2>2, <2>3, NatInd, Zenon
<1>6. u[k] = Number(a)
  BY <1>1, <1>2, <1>5
<1> DEFINE x == Number(a)
           Two == {i \in Nat : i <= n => w[i] \in Nat /\ u[k + i] = x * Power(i) + w[i]}
<1>7. x \in Nat
  BY NumberType, Zenon
<1> HIDE DEF x, One
<1>8. Two = Nat
  <2>1. 0 \in Two
    <3>1. w[0] = 0 /\ Power(0) = 1 /\ k + 0 = k
      BY <1>1, <1>3, PowerZero DEF Reads
    <3>2. x * 1 + 0 = x
      BY <1>7
    <3> QED
      BY <1>6, <3>1, <3>2 DEF x
  <2>2. ASSUME NEW i \in Two PROVE i + 1 \in Two
    <3> SUFFICES ASSUME i + 1 <= n
                 PROVE  w[i + 1] \in Nat /\ u[k + (i + 1)] = x * Power(i + 1) + w[i + 1]
      OBVIOUS
    <3> DEFINE y == w[i]
               p == Power(i)
               c == b[i + 1]
    <3>1. /\ y \in Nat /\ u[k + i] = x * p + y /\ i + 1 \in 1..n /\ (i + 1) - 1 = i
          /\ k + (i + 1) \in 1..k + n /\ (k + (i + 1)) - 1 = k + i
      BY <1>1
    <3>2. w[i + 1] = y * Base + c
      BY <1>3, <3>1 DEF Reads
    <3>3. u[k + (i + 1)] = u[k + i] * Base + c
      <4>1. s[k + (i + 1)] = c
        BY <1>1, <3>1, Zenon
      <4> DEFINE j == k + (i + 1)
      <4>2. j \in 1..k + n /\ j - 1 = k + i
        BY <3>1, Zenon
      <4> HIDE DEF j
      <4>3. u[j] = u[j - 1] * Base + s[j]
        BY <1>1, <1>4, <4>2 DEF Reads
      <4> QED
        BY <4>1, <4>2, <4>3, Zenon DEF j
    <3>4. Power(i + 1) = p * Base /\ p \in Nat /\ c \in Nat
      BY <1>1, <3>1, PowerNext, PowerType, Zenon
    <3> HIDE DEF y, p, c
    <3>5. (x * p + y) * Base + c = x * (p * Base) + (y * Base + c)
      <4>1. (x * p + y) * Base = x * (p * Base) + y * Base
        BY <1>0, <1>7, <3>1, <3>4
      <4> DEFINE e == x * (p * Base)
                 f == y * Base
      <4>2. e \in Int /\ f \in Int /\ (x * p + y) * Base = e + f
        BY <1>0, <1>7, <3>1, <3>4, <4>1
      <4> HIDE DEF e, f
      <4>3. (e + f) + c = e + (f + c)
        BY <3>4, <4>2
      <4> QED
        BY <4>2, <4>3 DEF e, f
    <3>6. y * Base + c \in Nat
      <4>1. y * Base \in Nat
        BY <1>0, <3>1
      <4> QED
        BY <3>4, <4>1
    <3> QED
      BY <3>1, <3>2, <3>3, <3>4, <3>5, <3>6, Zenon
  <2> HIDE DEF Two
  <2>3. Two \in SUBSET Nat
    BY Zenon DEF Two
  <2> QED
    BY <2>1, <2>2, <2>3, NatInd, Zenon
<1>9. u[k + n] = x * Power(n) + w[n]
  BY <1>1, <1>8
<1> QED
  BY <1>3, <1>4, <1>9, Zenon DEF x, s

\* The conversion to a signed type undoes the reduction modulo its range.
LEMMA SignedBack ==
  ASSUME NEW M \in Nat \ {0}, NEW v \in Int, -M <= 2 * v, 2 * v < M,
         NEW u \in 0..M - 1, NEW d \in Int, v = M * d + u
  PROVE  Signed(u, M) = v
<1> DEFINE x == M * d
<1>1. x \in Int /\ v = x + u
  OBVIOUS
<1>2. d >= 1 => x >= M
  OBVIOUS
<1>3. d <= -2 => x <= -(2 * M)
  OBVIOUS
<1>4. (d = 0 => x = 0) /\ (d = -1 => x = -M)
  OBVIOUS
<1> HIDE DEF x
<1>5. d = 0 \/ d = -1
  BY <1>1, <1>2, <1>3
<1> QED
  BY <1>1, <1>4, <1>5 DEF Signed

LEMMA WordType == Word \in Nat \ {0} /\ Power(2 * WordLen) = Word * Word
<1>1. WordLen \in Nat /\ 2 * WordLen = WordLen + WordLen
  BY WidthAssumption
<1> QED
  BY <1>1, PowerType, PowerSum, Zenon DEF Word

\* readI32 after writeU32 of the int32 as an unsigned one.
LEMMA I32Back ==
  ASSUME NEW v, IsInt(v, WordLen)
  PROVE  /\ U32(v % Word) \in Seq(0..Base - 1) /\ Len(U32(v % Word)) = WordLen
         /\ Signed(Number(U32(v % Word)), Power(WordLen)) = v
<1> DEFINE M == Word
           u == v % M
           d == v \div M
<1>1. v \in Int /\ M \in Nat \ {0} /\ -M <= 2 * v /\ 2 * v < M
  BY WordType, Zenon DEF IsInt, Word
<1>2. d \in Int /\ u \in 0..M - 1 /\ v = M * d + u
  BY <1>1, Quotient
<1> HIDE DEF M, u, d
<1>3. U32(u) \in Seq(0..Base - 1) /\ Len(U32(u)) = WordLen /\ Number(U32(u)) = u
  <2>1. u \in Nat /\ u < Word
    BY <1>1, <1>2 DEF M
  <2> QED
    BY <2>1, NumberU32, Zenon
<1>4. Signed(u, M) = v
  BY <1>1, <1>2, SignedBack, Zenon
<1> QED
  BY <1>3, <1>4, Zenon DEF M, u, Word

\* readI64 after writeI64.
LEMMA I64Back ==
  ASSUME NEW v, IsInt(v, 2 * WordLen)
  PROVE  /\ I64(v) \in Seq(0..Base - 1) /\ Len(I64(v)) = 2 * WordLen
         /\ Signed(Number(I64(v)), Power(2 * WordLen)) = v
<1> DEFINE W == Word
           M == W * W
           q == v \div W
           l == v % W
           d == q \div W
           h == q % W
           u == h * W + l
<1>1. v \in Int /\ W \in Nat \ {0} /\ M \in Nat \ {0} /\ -M <= 2 * v /\ 2 * v < M
  <2>1. W \in Nat \ {0}
    BY WordType
  <2>2. v \in Int /\ -M <= 2 * v /\ 2 * v < M
    BY WordType, Zenon DEF IsInt
  <2>3. M \in Nat \ {0}
    <3> HIDE DEF W
    <3> QED
      BY <2>1
  <2> QED
    BY <2>1, <2>2, <2>3, Zenon
<1>2. q \in Int /\ l \in 0..W - 1 /\ v = W * q + l
  BY <1>1, Quotient, Zenon
<1>3. d \in Int /\ h \in 0..W - 1 /\ q = W * d + h
  BY <1>1, <1>2, Quotient
<1>4. I64(v) = U32(h) \o U32(l)
  BY Zenon DEF I64
<1> HIDE DEF W, q, l, d, h
<1>5. h \in Nat /\ l \in Nat /\ h < Word /\ l < Word
  BY <1>1, <1>2, <1>3 DEF W
<1>6. /\ U32(h) \in Seq(0..Base - 1) /\ Len(U32(h)) = WordLen /\ Number(U32(h)) = h
      /\ U32(l) \in Seq(0..Base - 1) /\ Len(U32(l)) = WordLen /\ Number(U32(l)) = l
  BY <1>5, NumberU32, Zenon
<1>7. I64(v) \in Seq(0..Base - 1) /\ Len(I64(v)) = 2 * WordLen
  <2>1. /\ U32(h) \o U32(l) \in Seq(0..Base - 1)
        /\ Len(U32(h) \o U32(l)) = Len(U32(h)) + Len(U32(l))
    BY <1>6, SeqConcat
  <2>2. WordLen + WordLen = 2 * WordLen
    BY WidthAssumption
  <2> QED
    BY <1>4, <1>6, <2>1, <2>2, Zenon
<1>8. Number(I64(v)) = u
  <2>1. Number(U32(h) \o U32(l)) = Number(U32(h)) * Power(Len(U32(l))) + Number(U32(l))
    BY <1>6, NumberConcat
  <2> QED
    BY <1>4, <1>6, <2>1, Zenon DEF W, Word
<1>9. u \in 0..M - 1
  <2>1. h * W \in Nat /\ h * W + W <= M
    <3>1. h + 1 <= W
      BY <1>1, <1>3
    <3>2. (h + 1) * W <= W * W
      BY <1>1, <1>5, <3>1
    <3>3. (h + 1) * W = h * W + W /\ h * W \in Nat
      BY <1>1, <1>5
    <3> QED
      BY <3>2, <3>3, Zenon
  <2> DEFINE x == h * W
  <2>2. x \in Nat /\ x + W <= M /\ u = x + l
    BY <2>1, Zenon
  <2> HIDE DEF x, u
  <2> QED
    BY <1>1, <1>2, <2>2
<1>10. v = M * d + u
  <2>1. W * q = M * d + h * W
    <3>1. W * (W * d + h) = W * (W * d) + W * h
      BY <1>1, <1>3, <1>5
    <3>2. W * (W * d) = M * d /\ W * h = h * W
      BY <1>1, <1>3, <1>5
    <3> QED
      BY <1>3, <3>1, <3>2, Zenon
  <2> DEFINE x == M * d
             y == h * W
  <2>2. x \in Int /\ y \in Int /\ v = (x + y) + l /\ u = y + l
    BY <1>1, <1>2, <1>3, <1>5, <2>1
  <2> HIDE DEF x, y, u
  <2>3. v = x + u
    BY <1>2, <2>2
  <2> QED
    BY <2>3, Zenon DEF x
<1> HIDE DEF M, u
<1>11. Signed(u, M) = v
  BY <1>1, <1>3, <1>9, <1>10, SignedBack, Zenon
<1>12. Power(2 * WordLen) = M
  BY WordType, Zenon DEF M, W
<1> QED
  BY <1>7, <1>8, <1>11, <1>12

-----------------------------------------------------------------------------
(* Sequences.                                                              *)

LEMMA FunSeq ==
  ASSUME NEW S, NEW n \in Nat, NEW f \in [1..n -> S]
  PROVE  f \in Seq(S) /\ Len(f) = n
OBVIOUS

\* An equation that the provers find by its name.
Same(s, t) == s = t

\* Moving the first element of b to the end of a.
LEMMA MoveOne ==
  ASSUME NEW S, NEW a \in Seq(S), NEW b \in Seq(S), b # <<>>
  PROVE  /\ Append(a, Head(b)) \in Seq(S) /\ Tail(b) \in Seq(S)
         /\ Same(Append(a, Head(b)) \o Tail(b), a \o b)
<1>1. /\ Head(b) \in S /\ Tail(b) \in Seq(S) /\ Len(Tail(b)) = Len(b) - 1
      /\ Len(b) \in Nat \ {0} /\ \A i \in 1..Len(Tail(b)) : Tail(b)[i] = b[i + 1]
  BY SeqHeadTail
<1> DEFINE c == Append(a, Head(b))
<1>2. /\ c \in Seq(S) /\ Len(c) = Len(a) + 1 /\ Len(a) \in Nat
      /\ \A i \in 1..Len(a) : c[i] = a[i]
      /\ c[Len(a) + 1] = Head(b)
  BY <1>1, SeqAppend
<1> HIDE DEF c
<1>3. Head(b) = b[1]
  OBVIOUS
<1>4. c \o Tail(b) = a \o b
  <2> DEFINE d == c \o Tail(b)
             e == a \o b
  <2>1. /\ d \in Seq(S) /\ Len(d) = Len(c) + Len(Tail(b))
        /\ \A i \in 1..Len(c) + Len(Tail(b)) :
             d[i] = IF i <= Len(c) THEN c[i] ELSE Tail(b)[i - Len(c)]
    BY <1>1, <1>2, SeqConcat, Zenon
  <2>2. /\ e \in Seq(S) /\ Len(e) = Len(a) + Len(b)
        /\ \A i \in 1..Len(a) + Len(b) : e[i] = IF i <= Len(a) THEN a[i] ELSE b[i - Len(a)]
    BY SeqConcat, Zenon
  <2> HIDE DEF d, e
  <2>3. Len(d) = Len(e)
    BY <1>1, <1>2, <2>1, <2>2
  <2>4. ASSUME NEW i \in 1..Len(d) PROVE d[i] = e[i]
    <3>1. CASE i <= Len(a)
      BY <1>1, <1>2, <2>1, <2>2, <2>3, <3>1
    <3>2. CASE i = Len(a) + 1
      BY <1>1, <1>2, <1>3, <2>1, <2>2, <2>3, <3>2
    <3>3. CASE i > Len(a) + 1
      <4>1. /\ i - Len(c) \in 1..Len(Tail(b)) /\ (i - Len(c)) + 1 = i - Len(a)
            /\ ~(i <= Len(a)) /\ ~(i <= Len(c))
        BY <1>1, <1>2, <2>1, <3>3
      <4> QED
        BY <1>1, <1>2, <2>1, <2>2, <2>3, <4>1, Zenon
    <3> QED
      BY <1>2, <3>1, <3>2, <3>3
  <2>5. d = e
    BY <2>1, <2>2, <2>3, <2>4, SeqEqual, Zenon
  <2> QED
    BY <2>5, Zenon DEF d, e
<1> QED
  BY <1>1, <1>2, <1>4, Zenon DEF c, Same

\* One element and those after it.
LEMMA ConsOne ==
  ASSUME NEW S, NEW x \in S, NEW s \in Seq(S)
  PROVE  /\ <<x>> \o s \in Seq(S) /\ <<x>> \o s # <<>>
         /\ Head(<<x>> \o s) = x /\ Tail(<<x>> \o s) = s
         /\ Len(<<x>> \o s) = Len(s) + 1
<1> DEFINE c == <<x>> \o s
<1>0. <<x>> \in Seq(S) /\ Len(<<x>>) = 1 /\ Len(s) \in Nat
  OBVIOUS
<1>1. /\ c \in Seq(S) /\ Len(c) = 1 + Len(s)
      /\ \A i \in 1..1 + Len(s) : c[i] = IF i <= 1 THEN <<x>>[i] ELSE s[i - 1]
  BY <1>0, SeqConcat
<1> HIDE DEF c
<1>2. c # <<>> /\ c[1] = x /\ Len(c) = Len(s) + 1
  BY <1>0, <1>1
<1>3. /\ Tail(c) \in Seq(S) /\ Len(Tail(c)) = Len(c) - 1
      /\ \A i \in 1..Len(Tail(c)) : Tail(c)[i] = c[i + 1]
  BY <1>1, <1>2, SeqHeadTail, Zenon
<1>4. Head(c) = c[1]
  BY <1>1, <1>2
<1>5. Tail(c) = s
  <2>1. Len(Tail(c)) = Len(s)
    BY <1>0, <1>1, <1>3
  <2>2. \A i \in 1..Len(Tail(c)) : Tail(c)[i] = s[i]
    BY <1>0, <1>1, <1>3, <2>1
  <2> QED
    BY <1>3, <2>1, <2>2, SeqEqual, Zenon
<1> QED
  BY <1>1, <1>2, <1>4, <1>5 DEF c

\* Concatenation is associative.
LEMMA Regrouped ==
  ASSUME NEW S, NEW a \in Seq(S), NEW b \in Seq(S), NEW c \in Seq(S)
  PROVE  Same((a \o b) \o c, a \o (b \o c))
BY DEF Same

\* f[i] is the concatenation of the first i sequences of ss, up to k.
Flattens(ss, f, k) == f = [i \in 1..k |-> IF i = 1 THEN ss[i] ELSE f[i - 1] \o ss[i]]

LEMMA FlattensAt ==
  ASSUME NEW ss, NEW f, NEW k \in Nat, Flattens(ss, f, k), NEW i \in 1..k
  PROVE  (i = 1 => f[i] = ss[i]) /\ (i # 1 => f[i] = f[i - 1] \o ss[i])
BY Zenon DEF Flattens

LEMMA FlattensExists ==
  ASSUME NEW ss, NEW n \in Nat PROVE \E f : Flattens(ss, f, n)
<1> DEFINE Good == {k \in Nat : \E f : Flattens(ss, f, k)}
<1>1. 0 \in Good
  <2> DEFINE f == [i \in 1..0 |-> 0]
  <2>1. f = [i \in 1..0 |-> IF i = 1 THEN ss[i] ELSE f[i - 1] \o ss[i]]
    OBVIOUS
  <2>2. Flattens(ss, f, 0)
    BY <2>1, Zenon DEF Flattens
  <2> QED
    BY <2>2, Zenon
<1>2. ASSUME NEW k \in Good PROVE k + 1 \in Good
  <2>1. PICK f : Flattens(ss, f, k)
    BY Zenon
  <2> DEFINE w == [i \in 1..k + 1 |->
                     IF i <= k THEN f[i] ELSE IF i = 1 THEN ss[i] ELSE f[k] \o ss[i]]
  <2>2. ASSUME NEW i \in 1..k + 1
        PROVE  w[i] = IF i = 1 THEN ss[i] ELSE w[i - 1] \o ss[i]
    <3>1. CASE i <= k
      <4>1. i \in 1..k /\ w[i] = f[i]
        BY <3>1
      <4>2. f[i] = IF i = 1 THEN ss[i] ELSE f[i - 1] \o ss[i]
        BY <2>1, <4>1, Zenon DEF Flattens
      <4>3. i # 1 => w[i - 1] = f[i - 1]
        BY <3>1
      <4> QED
        BY <4>1, <4>2, <4>3, Zenon
    <3>2. CASE i = k + 1
      <4>1. w[i] = IF i = 1 THEN ss[i] ELSE f[k] \o ss[i]
        BY <3>2
      <4>2. i # 1 => w[i - 1] = f[k]
        BY <3>2
      <4> QED
        BY <4>1, <4>2, Zenon
    <3> QED
      BY <3>1, <3>2
  <2>3. w = [i \in 1..k + 1 |-> IF i = 1 THEN ss[i] ELSE w[i - 1] \o ss[i]]
    BY <2>2, Zenon
  <2>4. Flattens(ss, w, k + 1)
    BY <2>3, Zenon DEF Flattens
  <2> QED
    BY <2>4
<1> HIDE DEF Good
<1>3. Good = Nat
  <2>1. Good \in SUBSET Nat
    BY Zenon DEF Good
  <2> QED
    BY <1>1, <1>2, <2>1, NatInd, Zenon
<1> QED
  BY <1>3, Zenon DEF Good

LEMMA FlattenAt ==
  ASSUME NEW ss, Len(ss) \in Nat \ {0}
  PROVE  \E f : Flattens(ss, f, Len(ss)) /\ Joined(ss) = f[Len(ss)]
<1> DEFINE F == CHOOSE f : Flattens(ss, f, Len(ss))
<1>1. Flattens(ss, F, Len(ss))
  BY FlattensExists, Zenon
<1>2. Joined(ss) = F[Len(ss)]
  BY DEF Joined, Flattens
<1> QED
  BY <1>1, <1>2, Zenon

\* ss is a sequence of sequences of members of S.
Parts(ss, S) == ss \in Seq(Seq(S))

\* The first sequence, and then the others.
LEMMA FlattenHead ==
  ASSUME NEW S, NEW ss, Parts(ss, S), Len(ss) > 0
  PROVE  Joined(ss) = Head(ss) \o Joined(Tail(ss)) /\ Joined(ss) \in Seq(S)
<1> DEFINE tt == Tail(ss)
           n == Len(ss)
           x == Head(ss)
<1>1. /\ n \in Nat \ {0} /\ x \in Seq(S) /\ x = ss[1] /\ Len(tt) = n - 1
      /\ \A i \in 1..n - 1 : tt[i] = ss[i + 1]
      /\ \A i \in 1..n : ss[i] \in Seq(S)
  <2>0. ss \in Seq(Seq(S)) /\ ss # <<>>
    BY DEF Parts
  <2>1. n \in Nat \ {0} /\ x = ss[1]
    BY <2>0
  <2>2. /\ x \in Seq(S) /\ Len(tt) = n - 1
        /\ \A i \in 1..n - 1 : tt[i] = ss[i + 1]
    BY <2>0, SeqHeadTail, Zenon
  <2>3. \A i \in 1..n : ss[i] \in Seq(S)
    BY <2>0, SeqElement
  <2> QED
    BY <2>1, <2>2, <2>3, Zenon
<1>2. PICK f : Flattens(ss, f, n) /\ Joined(ss) = f[n]
  BY <1>1, FlattenAt, Zenon
<1> HIDE DEF tt, n, x
<1>5. \A i \in 1..n : (i = 1 => f[i] = ss[i]) /\ (i # 1 => f[i] = f[i - 1] \o ss[i])
  <2>1. n \in Nat
    BY <1>1, Zenon
  <2> QED
    BY <1>2, <2>1, FlattensAt, Zenon
<1>3. CASE n = 1
  <2>1. f[1] = x
    BY <1>1, <1>3, <1>5
  <2>2. Len(tt) = 0 /\ tt = <<>>
    <3>1. ss \in Seq(Seq(S)) /\ ss # <<>>
      BY DEF Parts
    <3>2. tt \in Seq(Seq(S)) /\ Len(tt) = 0
      BY <1>1, <1>3, <3>1, SeqHeadTail DEF tt
    <3> QED
      BY <3>2
  <2>3. Joined(tt) = <<>>
    BY <2>2, Zenon DEF Joined
  <2>4. x \o <<>> = x
    BY <1>1, SeqNothing
  <2> QED
    BY <1>1, <1>2, <1>3, <2>1, <2>3, <2>4, Zenon DEF tt, x
<1>4. CASE n > 1
  <2>0. Len(tt) \in Nat \ {0}
    BY <1>1, <1>4
  <2>1. PICK g : Flattens(tt, g, Len(tt)) /\ Joined(tt) = g[Len(tt)]
    BY <2>0, FlattenAt, Zenon
  <2>7. \A i \in 1..n - 1 : (i = 1 => g[i] = tt[i]) /\ (i # 1 => g[i] = g[i - 1] \o tt[i])
    <3>1. Len(tt) \in Nat
      BY <2>0, Zenon
    <3>2. \A i \in 1..Len(tt) : (i = 1 => g[i] = tt[i]) /\ (i # 1 => g[i] = g[i - 1] \o tt[i])
      BY <2>1, <3>1, FlattensAt, Zenon
    <3> QED
      BY <1>1, <3>2, Zenon
  <2> DEFINE Good == {i \in Nat : i + 1 <= n - 1 =>
                        g[i + 1] \in Seq(S) /\ f[i + 2] = x \o g[i + 1]}
  <2>2. 0 \in Good
    <3>1. 1 \in 1..Len(tt) /\ 1 \in 1..n /\ 2 \in 1..n /\ 1 \in 1..n - 1 /\ 1 + 1 = 2
      BY <1>1, <1>4
    <3>2. g[1] = tt[1]
      BY <2>7, <3>1, Zenon
    <3>3. tt[1] = ss[2] /\ ss[2] \in Seq(S)
      BY <1>1, <3>1
    <3>4. f[1] = ss[1]
      BY <1>5, <3>1, Zenon
    <3>5. f[2] = f[2 - 1] \o ss[2]
      <4>1. 2 # 1
        OBVIOUS
      <4> QED
        BY <1>5, <3>1, <4>1, Zenon
    <3>6. g[0 + 1] \in Seq(S) /\ f[0 + 2] = x \o g[0 + 1]
      <4>1. 0 + 1 = 1 /\ 0 + 2 = 2 /\ 2 - 1 = 1
        OBVIOUS
      <4>2. x = ss[1]
        BY <1>1, Zenon
      <4> QED
        BY <3>2, <3>3, <3>4, <3>5, <4>1, <4>2, Zenon
    <3> QED
      BY <3>6, Zenon
  <2>3. ASSUME NEW i \in Good PROVE i + 1 \in Good
    <3> SUFFICES ASSUME (i + 1) + 1 <= n - 1
                 PROVE  g[(i + 1) + 1] \in Seq(S) /\ f[(i + 1) + 2] = x \o g[(i + 1) + 1]
      OBVIOUS
    <3> DEFINE j == i + 2
               y == tt[j]
    <3>1. /\ j \in 2..n - 1 /\ j + 1 \in 2..n /\ j = (i + 1) + 1 /\ j + 1 = (i + 1) + 2
          /\ j - 1 = i + 1 /\ i + 2 = j /\ (j + 1) - 1 = j
      BY <1>1
    <3>2. g[j - 1] \in Seq(S) /\ f[j] = x \o g[j - 1]
      <4>1. i + 1 <= n - 1
        BY <1>1
      <4>2. g[i + 1] \in Seq(S) /\ f[i + 2] = x \o g[i + 1]
        BY <4>1, Zenon
      <4> QED
        BY <3>1, <4>2, Zenon
    <3> HIDE DEF j
    <3>3. y \in Seq(S) /\ ss[j + 1] = y
      BY <1>1, <3>1
    <3>4. g[j] = g[j - 1] \o y
      <4>1. j \in 1..n - 1 /\ j # 1
        BY <1>1, <3>1
      <4> QED
        BY <2>7, <4>1, Zenon
    <3>5. f[j + 1] = f[j] \o y
      <4>1. j + 1 \in 1..n /\ j + 1 # 1 /\ n \in Nat
        BY <1>1, <3>1
      <4>2. f[j + 1] = f[(j + 1) - 1] \o ss[j + 1]
        BY <1>5, <4>1, Zenon
      <4> QED
        BY <3>1, <3>3, <4>2, Zenon
    <3> HIDE DEF y
    <3>6. (x \o g[j - 1]) \o y = x \o (g[j - 1] \o y)
      <4> DEFINE z == g[j - 1]
      <4>1. x \in Seq(S) /\ y \in Seq(S) /\ z \in Seq(S)
        BY <1>1, <3>2, <3>3, Zenon
      <4> HIDE DEF z
      <4>2. (x \o z) \o y = x \o (z \o y)
        <5>1. Same((x \o z) \o y, x \o (z \o y))
          BY <4>1, Regrouped, Zenon
        <5> QED
          BY <5>1, Zenon DEF Same
      <4> QED
        BY <4>2 DEF z
    <3>7. g[j] \in Seq(S)
      BY <3>2, <3>3, <3>4, SeqConcat
    <3>8. f[j + 1] = x \o g[j]
      BY <3>2, <3>4, <3>5, <3>6, Zenon
    <3> QED
      BY <3>1, <3>7, <3>8
  <2> HIDE DEF Good
  <2>4. Good = Nat
    <3>1. Good \in SUBSET Nat
      BY DEF Good
    <3> QED
      BY <2>2, <2>3, <3>1, NatInd, Zenon
  <2>5. g[n - 1] \in Seq(S) /\ f[n] = x \o g[n - 1]
    <3>1. n - 2 \in Nat /\ (n - 2) + 1 = n - 1 /\ (n - 2) + 2 = n
      BY <1>1, <1>4
    <3>2. n - 2 \in Good /\ (n - 2) + 1 <= n - 1
      BY <1>1, <2>4, <3>1
    <3>3. g[(n - 2) + 1] \in Seq(S) /\ f[(n - 2) + 2] = x \o g[(n - 2) + 1]
      BY <3>2, Zenon DEF Good
    <3> QED
      BY <3>1, <3>3, Zenon
  <2>6. x \o g[n - 1] \in Seq(S)
    BY <1>1, <2>5, SeqConcat, Zenon
  <2> QED
    BY <1>1, <1>2, <2>1, <2>5, <2>6, Zenon DEF tt, x
<1> QED
  BY <1>1, <1>3, <1>4

LEMMA FlattenEmpty == Joined(<<>>) = <<>>
BY Zenon DEF Joined

LEMMA FlattenType ==
  ASSUME NEW S, NEW ss, Parts(ss, S) PROVE Joined(ss) \in Seq(S)
<1>1. CASE Len(ss) > 0
  BY <1>1, FlattenHead
<1>2. CASE ss = <<>>
  <2>1. Joined(ss) = <<>>
    BY <1>2, FlattenEmpty, Zenon
  <2>2. <<>> \in Seq(S)
    OBVIOUS
  <2> QED
    BY <2>1, <2>2, Zenon
<1>3. Len(ss) > 0 \/ ss = <<>>
  BY DEF Parts
<1> QED
  BY <1>1, <1>2, <1>3, Zenon

\* At least w bytes for each of the sequences.
LEMMA FlattenLength ==
  ASSUME NEW S, NEW w \in Nat
  PROVE  \A n \in Nat : \A ss : Parts(ss, S) /\ Len(ss) = n /\ (\A i \in 1..n : Len(ss[i]) >= w)
                                  => Len(Joined(ss)) >= n * w
<1> DEFINE Long(ss, n) == Parts(ss, S) /\ Len(ss) = n /\ (\A i \in 1..n : Len(ss[i]) >= w)
           Good == {n \in Nat : \A ss : Long(ss, n) => Len(Joined(ss)) >= n * w}
<1>1. 0 \in Good
  <2> SUFFICES ASSUME NEW ss, Long(ss, 0) PROVE Len(Joined(ss)) >= 0 * w
    BY Zenon
  <2>1. Joined(ss) \in Seq(S)
    BY FlattenType, Zenon
  <2>2. Len(Joined(ss)) \in Nat /\ 0 * w = 0
    BY <2>1
  <2> QED
    BY <2>2
<1>2. ASSUME NEW n \in Good PROVE n + 1 \in Good
  <2>0. n + 1 \in Nat
    OBVIOUS
  <2> SUFFICES ASSUME NEW ss, Long(ss, n + 1) PROVE Len(Joined(ss)) >= (n + 1) * w
    BY <2>0, Zenon
  <2> DEFINE x == Head(ss)
             tt == Tail(ss)
             f == Joined(tt)
  <2>1. n \in Nat /\ ss \in Seq(Seq(S)) /\ Len(ss) = n + 1 /\ ss # <<>>
    BY DEF Parts
  <2>2. /\ x \in Seq(S) /\ x = ss[1] /\ tt \in Seq(Seq(S)) /\ Len(tt) = n
        /\ \A i \in 1..n : tt[i] = ss[i + 1]
    BY <2>1, SeqHeadTail
  <2>3. Parts(tt, S)
    BY <2>2, Zenon DEF Parts
  <2> HIDE DEF x, tt
  <2>4. Len(x) >= w /\ \A i \in 1..n : Len(tt[i]) >= w
    BY <2>1, <2>2
  <2>5. f \in Seq(S) /\ Len(f) >= n * w
    BY <2>2, <2>3, <2>4, FlattenType, Zenon
  <2>6. Joined(ss) = x \o f
    <3>1. Parts(ss, S) /\ Len(ss) > 0
      BY <2>1
    <3> QED
      BY <3>1, FlattenHead, Zenon DEF x, tt
  <2> HIDE DEF f
  <2>7. Len(x \o f) = Len(x) + Len(f) /\ Len(x) \in Nat /\ Len(f) \in Nat
    BY <2>2, <2>5, SeqConcat, SeqLen
  <2>8. (n + 1) * w = n * w + w /\ n * w \in Nat
    BY <2>1
  <2> QED
    BY <2>4, <2>5, <2>6, <2>7, <2>8
<1> HIDE DEF Good
<1>3. Good = Nat
  <2>1. Good \in SUBSET Nat
    BY Zenon DEF Good
  <2> QED
    BY <1>1, <1>2, <2>1, NatInd, Zenon
<1> QED
  BY <1>3, Zenon DEF Good

-----------------------------------------------------------------------------
(* Texts and maps.                                                         *)

Bytes == 0..Base - 1

LEMMA StrType ==
  ASSUME NEW s, IsText(s)
  PROVE  /\ s \in Seq(Bytes) /\ Len(s) \in Nat /\ Str(s) \in Seq(Bytes)
         /\ U32(Len(s)) \in Seq(Bytes) /\ Len(U32(Len(s))) = WordLen
         /\ Number(U32(Len(s))) = Len(s)
         /\ Str(s) = U32(Len(s)) \o s /\ Len(Str(s)) = WordLen + Len(s)
<1>1. s \in Seq(Bytes) /\ Len(s) \in Nat /\ Len(s) < Word
  BY DEF IsText, Bytes
<1>2. /\ U32(Len(s)) \in Seq(Bytes) /\ Len(U32(Len(s))) = WordLen
      /\ Number(U32(Len(s))) = Len(s)
  BY <1>1, NumberU32, Zenon DEF Bytes
<1>3. Str(s) = U32(Len(s)) \o s
  BY DEF Str
<1>4. U32(Len(s)) \o s \in Seq(Bytes) /\ Len(U32(Len(s)) \o s) = WordLen + Len(s)
  BY <1>1, <1>2, SeqConcat, Zenon
<1> QED
  BY <1>1, <1>2, <1>3, <1>4, Zenon

\* The entries of the map m for the keys es, in this order.
Entries(es, m) == Joined([i \in 1..Len(es) |-> Str(es[i]) \o Str(m[es[i]])])

\* An entry.
LEMMA EntryType ==
  ASSUME NEW m, IsMap(m), NEW k \in DOMAIN m
  PROVE  /\ IsText(k) /\ IsText(m[k])
         /\ Str(k) \o Str(m[k]) \in Seq(Bytes) /\ Len(Str(k) \o Str(m[k])) >= 2 * WordLen
<1>1. IsText(k) /\ IsText(m[k])
  BY Zenon DEF IsMap
<1>2. /\ Str(k) \in Seq(Bytes) /\ Len(Str(k)) = WordLen + Len(k) /\ Len(k) \in Nat
      /\ Str(m[k]) \in Seq(Bytes) /\ Len(Str(m[k])) = WordLen + Len(m[k]) /\ Len(m[k]) \in Nat
  BY <1>1, StrType, Zenon
<1> DEFINE a == Str(k)
           b == Str(m[k])
<1>3. a \in Seq(Bytes) /\ b \in Seq(Bytes)
  BY <1>2
<1> HIDE DEF a, b
<1>4. a \o b \in Seq(Bytes) /\ Len(a \o b) = Len(a) + Len(b)
  BY <1>3, SeqConcat, Zenon
<1>5. Len(a) + Len(b) >= 2 * WordLen
  BY <1>2, WidthAssumption DEF a, b
<1> QED
  BY <1>1, <1>4, <1>5 DEF a, b

LEMMA EntriesParts ==
  ASSUME NEW m, IsMap(m), NEW es \in Seq(DOMAIN m)
  PROVE  LET ss == [i \in 1..Len(es) |-> Str(es[i]) \o Str(m[es[i]])] IN
         /\ Parts(ss, Bytes) /\ Len(ss) = Len(es)
         /\ \A i \in 1..Len(es) : ss[i] = Str(es[i]) \o Str(m[es[i]]) /\ Len(ss[i]) >= 2 * WordLen
<1> DEFINE n == Len(es)
           ss == [i \in 1..n |-> Str(es[i]) \o Str(m[es[i]])]
<1>1. n \in Nat /\ \A i \in 1..n : es[i] \in DOMAIN m
  OBVIOUS
<1>2. ASSUME NEW i \in 1..n
      PROVE  Str(es[i]) \o Str(m[es[i]]) \in Seq(Bytes) /\ Len(Str(es[i]) \o Str(m[es[i]])) >= 2 * WordLen
  BY <1>1, <1>2, EntryType, Zenon
<1>3. ss \in [1..n -> Seq(Bytes)]
  BY <1>2, Zenon
<1>4. \A i \in 1..n : ss[i] = Str(es[i]) \o Str(m[es[i]]) /\ Len(ss[i]) >= 2 * WordLen
  BY <1>2, Zenon
<1> HIDE DEF ss, n
<1>5. ss \in Seq(Seq(Bytes)) /\ Len(ss) = n
  BY <1>1, <1>3, FunSeq, Zenon
<1> QED
  BY <1>4, <1>5, Zenon DEF Parts, n, ss

LEMMA EntriesType ==
  ASSUME NEW m, IsMap(m), NEW es \in Seq(DOMAIN m)
  PROVE  Entries(es, m) \in Seq(Bytes) /\ Len(Entries(es, m)) >= Len(es) * (2 * WordLen)
<1> DEFINE ss == [i \in 1..Len(es) |-> Str(es[i]) \o Str(m[es[i]])]
           n == Len(es)
           w == 2 * WordLen
<1>1. Parts(ss, Bytes) /\ Len(ss) = n /\ \A i \in 1..n : Len(ss[i]) >= w
  BY EntriesParts, Zenon
<1>2. n \in Nat /\ w \in Nat
  BY WidthAssumption
<1>3. Entries(es, m) = Joined(ss)
  BY Zenon DEF Entries
<1> HIDE DEF ss, n, w
<1>4. Joined(ss) \in Seq(Bytes)
  BY <1>1, FlattenType, Zenon
<1>5. Len(Joined(ss)) >= n * w
  BY <1>1, <1>2, FlattenLength, Zenon
<1> QED
  BY <1>3, <1>4, <1>5 DEF n, w

\* The first entry, and then the others.
LEMMA EntriesHead ==
  ASSUME NEW m, IsMap(m), NEW es \in Seq(DOMAIN m), Len(es) > 0
  PROVE  /\ Head(es) \in DOMAIN m /\ Tail(es) \in Seq(DOMAIN m) /\ Len(Tail(es)) = Len(es) - 1
         /\ Entries(es, m) = (Str(Head(es)) \o Str(m[Head(es)])) \o Entries(Tail(es), m)
<1> DEFINE n == Len(es)
           ss == [i \in 1..n |-> Str(es[i]) \o Str(m[es[i]])]
           fs == Tail(es)
           tt == [i \in 1..Len(fs) |-> Str(fs[i]) \o Str(m[fs[i]])]
<1>1. /\ es # <<>> /\ n \in Nat \ {0} /\ Head(es) = es[1] /\ Head(es) \in DOMAIN m
      /\ fs \in Seq(DOMAIN m) /\ Len(fs) = n - 1
      /\ \A i \in 1..n - 1 : fs[i] = es[i + 1]
  <2>1. es # <<>> /\ n \in Nat \ {0} /\ Head(es) = es[1]
    OBVIOUS
  <2> QED
    BY <2>1, SeqHeadTail
<1>2. /\ Parts(ss, Bytes) /\ Len(ss) = n
      /\ \A i \in 1..n : ss[i] = Str(es[i]) \o Str(m[es[i]])
  BY EntriesParts, Zenon
<1>3. /\ Parts(tt, Bytes) /\ Len(tt) = Len(fs)
      /\ \A i \in 1..Len(fs) : tt[i] = Str(fs[i]) \o Str(m[fs[i]])
  BY <1>1, EntriesParts, Zenon
<1>4. Entries(es, m) = Joined(ss) /\ Entries(fs, m) = Joined(tt)
  BY Zenon DEF Entries
<1> HIDE DEF ss, tt, fs, n
<1>5. Joined(ss) = Head(ss) \o Joined(Tail(ss))
  <2>1. Len(ss) > 0
    BY <1>1, <1>2
  <2> QED
    BY <1>2, <2>1, FlattenHead, Zenon
<1>6. /\ ss \in Seq(Seq(Bytes)) /\ ss # <<>> /\ tt \in Seq(Seq(Bytes)) /\ Head(ss) = ss[1]
      /\ Tail(ss) \in Seq(Seq(Bytes)) /\ Len(Tail(ss)) = n - 1
      /\ \A i \in 1..n - 1 : Tail(ss)[i] = ss[i + 1]
  <2>1. ss \in Seq(Seq(Bytes)) /\ tt \in Seq(Seq(Bytes))
    BY <1>2, <1>3, Zenon DEF Parts
  <2>2. ss # <<>> /\ Head(ss) = ss[1]
    BY <1>1, <1>2, <2>1
  <2> QED
    BY <1>2, <2>1, <2>2, SeqHeadTail
<1>7. Tail(ss) = tt
  <2>1. ASSUME NEW i \in 1..n - 1 PROVE Tail(ss)[i] = tt[i]
    <3>1. i + 1 \in 1..n
      BY <1>1
    <3> QED
      BY <1>1, <1>2, <1>3, <1>6, <3>1, Zenon
  <2>2. Len(tt) = n - 1
    BY <1>1, <1>3, Zenon
  <2> QED
    BY <1>6, <2>1, <2>2, SeqEqual, Zenon
<1>8. ss[1] = Str(Head(es)) \o Str(m[Head(es)])
  <2>1. 1 \in 1..n
    BY <1>1
  <2> QED
    BY <1>1, <1>2, <2>1, Zenon
<1> QED
  BY <1>1, <1>4, <1>5, <1>6, <1>7, <1>8, Zenon DEF fs, n

LEMMA FlattenNone ==
  ASSUME NEW S, NEW ss, Parts(ss, S), Len(ss) = 0 PROVE Joined(ss) = <<>>
<1>1. ss = <<>>
  BY DEF Parts
<1> QED
  BY <1>1, FlattenEmpty, Zenon

LEMMA EntriesEmpty ==
  ASSUME NEW m, IsMap(m) PROVE Entries(<<>>, m) = <<>>
<1> DEFINE es == <<>>
           ss == [i \in 1..Len(es) |-> Str(es[i]) \o Str(m[es[i]])]
<1>1. es \in Seq(DOMAIN m) /\ Len(es) = 0
  OBVIOUS
<1> HIDE DEF es
<1>2. Parts(ss, Bytes) /\ Len(ss) = Len(es)
  BY <1>1, EntriesParts, Zenon
<1>3. Entries(es, m) = Joined(ss)
  BY Zenon DEF Entries
<1> HIDE DEF ss
<1>4. Joined(ss) = <<>>
  BY <1>1, <1>2, FlattenNone, Zenon
<1> QED
  BY <1>3, <1>4, Zenon DEF es

\* writeKV: the number of entries, and an entry for every key.
LEMMA KVType ==
  ASSUME NEW m, IsMap(m)
  PROVE  LET es == Ordered(DOMAIN m) IN
         /\ es \in Seq(DOMAIN m) /\ Len(es) \in Nat /\ Len(es) < Word
         /\ \A k \in DOMAIN m : \E i \in 1..Len(es) : es[i] = k
         /\ KV(m) = U32(Len(es)) \o Entries(es, m) /\ KV(m) \in Seq(Bytes)
         /\ U32(Len(es)) \in Seq(Bytes) /\ Len(U32(Len(es))) = WordLen
         /\ Number(U32(Len(es))) = Len(es) /\ Len(KV(m)) >= WordLen
<1> DEFINE D == DOMAIN m
           n == Cardinality(D)
           es == Ordered(D)
<1>1. n \in Nat /\ n < Word /\ ExistsBijection(1..n, D)
  BY Zenon DEF IsMap
<1>2. n \in Nat
  BY <1>1, Zenon
<1>3. es \in Bijection(1..n, D)
  BY <1>1, Zenon DEF ExistsBijection, Ordered
<1>5. es \in [1..n -> D]
  BY <1>3, Zenon DEF Bijection, Injection
<1> HIDE DEF es
<1>6. es \in Seq(D) /\ Len(es) = n
  BY <1>2, <1>5, FunSeq, Zenon
<1>7. es \in Surjection(1..n, D)
  BY <1>3, Zenon DEF Bijection
<1>8. \A k \in D : \E i \in 1..n : es[i] = k
  BY <1>7, Zenon DEF Surjection
<1>9. KV(m) = U32(n) \o Entries(es, m)
  <2>1. KV(m) = U32(n) \o Joined([i \in 1..n |-> Str(es[i]) \o Str(m[es[i]])])
    BY Zenon DEF KV, es
  <2> QED
    BY <1>6, <2>1, Zenon DEF Entries
<1>10. U32(n) \in Seq(Bytes) /\ Len(U32(n)) = WordLen /\ Number(U32(n)) = n
  BY <1>1, <1>2, NumberU32, Zenon DEF Bytes
<1>11. Entries(es, m) \in Seq(Bytes)
  BY <1>6, EntriesType, Zenon
<1>12. KV(m) \in Seq(Bytes) /\ Len(KV(m)) >= WordLen
  <2> DEFINE a == U32(n)
             b == Entries(es, m)
  <2>1. a \in Seq(Bytes) /\ b \in Seq(Bytes) /\ Len(a) = WordLen
    BY <1>10, <1>11
  <2> HIDE DEF a, b
  <2>2. a \o b \in Seq(Bytes) /\ Len(a \o b) = Len(a) + Len(b) /\ Len(b) \in Nat
    BY <2>1, SeqConcat, SeqLen, Zenon
  <2>3. Len(a \o b) >= WordLen
    BY <2>1, <2>2, WidthAssumption
  <2> QED
    BY <1>9, <2>2, <2>3, Zenon DEF a, b
<1> QED
  BY <1>1, <1>2, <1>6, <1>8, <1>9, <1>10, <1>12, Zenon DEF es

-----------------------------------------------------------------------------
(* Fields: what is still to be read, as kinds with their values.           *)

\* The kinds that give one value each, the values, and the bytes of a value.
Simple == {"i32", "i64", "u8", "str", "kv"}
Vals == Int \cup Seq(Bytes) \cup UNION {[D -> Seq(Bytes)] : D \in SUBSET Seq(Bytes)}
Holds(kind, v) ==
  CASE kind = "i32" -> IsInt(v, WordLen)
    [] kind = "i64" -> IsInt(v, 2 * WordLen)
    [] kind = "u8" -> v \in Bytes
    [] kind = "str" -> IsText(v)
    [] kind = "kv" -> IsMap(v)
Part(kind, v) ==
  CASE kind = "i32" -> U32(v % Word)
    [] kind = "i64" -> I64(v)
    [] kind = "u8" -> <<v>>
    [] kind = "str" -> Str(v)
    [] kind = "kv" -> KV(v)

Fits(ks, vs) ==
  /\ ks \in Seq(Simple) /\ vs \in Seq(Vals) /\ Len(ks) = Len(vs)
  /\ \A i \in 1..Len(vs) : Holds(ks[i], vs[i])
Plain(ks, vs) == Joined([i \in 1..Len(vs) |-> Part(ks[i], vs[i])])

LEMMA PartType ==
  ASSUME NEW kind \in Simple, NEW v, Holds(kind, v)
  PROVE  v \in Vals /\ Part(kind, v) \in Seq(Bytes)
<1>1. CASE kind = "i32"
  <2>1. IsInt(v, WordLen) /\ Part(kind, v) = U32(v % Word)
    BY <1>1, Zenon DEF Holds, Part
  <2> QED
    BY <2>1, I32Back, Zenon DEF IsInt, Vals, Bytes
<1>2. CASE kind = "i64"
  <2>1. IsInt(v, 2 * WordLen) /\ Part(kind, v) = I64(v)
    BY <1>2, Zenon DEF Holds, Part
  <2> QED
    BY <2>1, I64Back, Zenon DEF IsInt, Vals, Bytes
<1>3. CASE kind = "u8"
  <2>1. v \in Bytes /\ Part(kind, v) = <<v>>
    BY <1>3 DEF Holds, Part
  <2>2. v \in Int
    BY <2>1, WidthAssumption DEF Bytes
  <2>3. <<v>> \in Seq(Bytes)
    BY <2>1
  <2> QED
    BY <2>1, <2>2, <2>3, Zenon DEF Vals
<1>4. CASE kind = "str"
  <2>1. IsText(v) /\ Part(kind, v) = Str(v)
    BY <1>4 DEF Holds, Part
  <2> QED
    BY <2>1, StrType, Zenon DEF Vals
<1>5. CASE kind = "kv"
  <2>1. IsMap(v) /\ Part(kind, v) = KV(v)
    BY <1>5 DEF Holds, Part
  <2>2. KV(v) \in Seq(Bytes)
    BY <2>1, KVType, Zenon
  <2>3. \A k \in DOMAIN v : k \in Seq(Bytes) /\ v[k] \in Seq(Bytes)
    BY <2>1, Zenon DEF IsMap, IsText, Bytes
  <2>4. v = [k \in DOMAIN v |-> v[k]]
    BY <2>1, Zenon DEF IsMap
  <2>5. v \in [DOMAIN v -> Seq(Bytes)] /\ DOMAIN v \in SUBSET Seq(Bytes)
    BY <2>3, <2>4, Zenon
  <2>6. v \in UNION {[D -> Seq(Bytes)] : D \in SUBSET Seq(Bytes)}
    BY <2>5, Zenon
  <2> QED
    BY <2>1, <2>2, <2>6, Zenon DEF Vals
<1> QED
  BY <1>1, <1>2, <1>3, <1>4, <1>5, Zenon DEF Simple

\* n copies of the fields s are a sequence of n times as many.
LEMMA TimesType ==
  ASSUME NEW S, NEW s \in Seq(S), s # <<>>, NEW n \in Nat
  PROVE  Times(n, s) \in Seq(S) /\ Len(Times(n, s)) = n * Len(s)
<1>1. Len(s) \in Nat \ {0}
  OBVIOUS
<1>2. n * Len(s) \in Nat
  BY <1>1
<1>3. \A i \in Nat : i % Len(s) \in 0..Len(s) - 1
  BY <1>1
<1>4. ASSUME NEW i \in 1..n * Len(s) PROVE s[((i - 1) % Len(s)) + 1] \in S
  <2>1. i - 1 \in Nat
    BY <1>2
  <2>2. (i - 1) % Len(s) \in 0..Len(s) - 1
    BY <1>3, <2>1, Zenon
  <2>3. ((i - 1) % Len(s)) + 1 \in 1..Len(s)
    BY <1>1, <2>2
  <2> QED
    BY <2>3
<1> DEFINE k == n * Len(s)
           t == [i \in 1..k |-> s[((i - 1) % Len(s)) + 1]]
<1>5. t \in [1..k -> S]
  BY <1>4, Zenon
<1>6. Times(n, s) = t
  BY Zenon DEF Times
<1> HIDE DEF t
<1>7. k \in Nat
  BY <1>2, Zenon
<1> HIDE DEF k
<1>8. t \in Seq(S) /\ Len(t) = k
  BY <1>5, <1>7
<1> QED
  BY <1>6, <1>8 DEF k

LEMMA PlainParts ==
  ASSUME NEW ks, NEW vs, Fits(ks, vs)
  PROVE  LET ss == [i \in 1..Len(vs) |-> Part(ks[i], vs[i])] IN
         /\ Parts(ss, Bytes) /\ Len(ss) = Len(vs) /\ Plain(ks, vs) = Joined(ss)
         /\ \A i \in 1..Len(vs) : ss[i] = Part(ks[i], vs[i])
<1> DEFINE n == Len(vs)
           ss == [i \in 1..n |-> Part(ks[i], vs[i])]
<1>1. n \in Nat /\ \A i \in 1..n : ks[i] \in Simple /\ Holds(ks[i], vs[i])
  BY DEF Fits
<1>2. \A i \in 1..n : Part(ks[i], vs[i]) \in Seq(Bytes)
  BY <1>1, PartType, Zenon
<1>3. ss \in [1..n -> Seq(Bytes)] /\ \A i \in 1..n : ss[i] = Part(ks[i], vs[i])
  BY <1>2, Zenon
<1>4. Plain(ks, vs) = Joined(ss)
  BY Zenon DEF Plain
<1> HIDE DEF ss, n
<1>5. ss \in Seq(Seq(Bytes)) /\ Len(ss) = n
  BY <1>1, <1>3, FunSeq, Zenon
<1> QED
  BY <1>3, <1>4, <1>5, Zenon DEF Parts, ss, n

LEMMA PlainType ==
  ASSUME NEW ks, NEW vs, Fits(ks, vs)
  PROVE  Plain(ks, vs) \in Seq(Bytes) /\ (Len(vs) = 0 => Plain(ks, vs) = <<>>)
<1> DEFINE ss == [i \in 1..Len(vs) |-> Part(ks[i], vs[i])]
<1>1. Parts(ss, Bytes) /\ Len(ss) = Len(vs) /\ Plain(ks, vs) = Joined(ss)
  BY PlainParts, Zenon
<1> HIDE DEF ss
<1> QED
  BY <1>1, FlattenType, FlattenNone, Zenon

\* The first field, and then the others.
LEMMA PlainHead ==
  ASSUME NEW ks, NEW vs, Fits(ks, vs), Len(vs) > 0
  PROVE  /\ Head(ks) \in Simple /\ Holds(Head(ks), Head(vs)) /\ Fits(Tail(ks), Tail(vs))
         /\ Plain(ks, vs) = Part(Head(ks), Head(vs)) \o Plain(Tail(ks), Tail(vs))
<1> DEFINE n == Len(vs)
           ls == Tail(ks)
           us == Tail(vs)
           ss == [i \in 1..Len(vs) |-> Part(ks[i], vs[i])]
           tt == [i \in 1..Len(us) |-> Part(ls[i], us[i])]
<1>0. ks \in Seq(Simple) /\ vs \in Seq(Vals) /\ Len(ks) = n /\ n \in Nat \ {0}
      /\ ks # <<>> /\ vs # <<>> /\ \A i \in 1..n : Holds(ks[i], vs[i])
  BY DEF Fits
<1>1. /\ Head(ks) \in Simple /\ Head(ks) = ks[1] /\ ls \in Seq(Simple) /\ Len(ls) = n - 1
      /\ \A i \in 1..n - 1 : ls[i] = ks[i + 1]
  BY <1>0, SeqHeadTail
<1>2. /\ Head(vs) = vs[1] /\ us \in Seq(Vals) /\ Len(us) = n - 1
      /\ \A i \in 1..n - 1 : us[i] = vs[i + 1]
  BY <1>0, SeqHeadTail
<1>3. 1 \in 1..n /\ \A i \in 1..n - 1 : i + 1 \in 1..n
  BY <1>0
<1> HIDE DEF ls, us
<1>4. Fits(ls, us)
  <2>1. \A i \in 1..n - 1 : Holds(ls[i], us[i])
    BY <1>0, <1>1, <1>2, <1>3, Zenon
  <2> QED
    BY <1>1, <1>2, <2>1, Zenon DEF Fits
<1>5. Holds(Head(ks), Head(vs))
  BY <1>0, <1>1, <1>2, <1>3, Zenon
<1>6. /\ Parts(ss, Bytes) /\ Len(ss) = n /\ Plain(ks, vs) = Joined(ss)
      /\ \A i \in 1..n : ss[i] = Part(ks[i], vs[i])
  BY PlainParts, Zenon
<1>7. /\ Parts(tt, Bytes) /\ Len(tt) = Len(us) /\ Plain(ls, us) = Joined(tt)
      /\ \A i \in 1..Len(us) : tt[i] = Part(ls[i], us[i])
  BY <1>4, PlainParts, Zenon
<1> HIDE DEF ss, tt, n
<1>8. Joined(ss) = Head(ss) \o Joined(Tail(ss))
  <2>1. Len(ss) > 0
    BY <1>0, <1>6
  <2> QED
    BY <1>6, <2>1, FlattenHead, Zenon
<1>9. /\ tt \in Seq(Seq(Bytes)) /\ Head(ss) = ss[1]
      /\ Tail(ss) \in Seq(Seq(Bytes)) /\ Len(Tail(ss)) = n - 1
      /\ \A i \in 1..n - 1 : Tail(ss)[i] = ss[i + 1]
  <2>1. ss \in Seq(Seq(Bytes)) /\ tt \in Seq(Seq(Bytes))
    BY <1>6, <1>7, Zenon DEF Parts
  <2>2. ss # <<>> /\ Head(ss) = ss[1]
    BY <1>0, <1>6, <2>1
  <2> QED
    BY <1>6, <2>1, <2>2, SeqHeadTail
<1>10. Tail(ss) = tt
  <2>1. ASSUME NEW i \in 1..n - 1 PROVE Tail(ss)[i] = tt[i]
    <3>1. Tail(ss)[i] = ss[i + 1]
      BY <1>9, Zenon
    <3>2. ss[i + 1] = Part(ks[i + 1], vs[i + 1])
      BY <1>3, <1>6, Zenon
    <3>3. tt[i] = Part(ls[i], us[i])
      BY <1>2, <1>7, Zenon
    <3>4. ls[i] = ks[i + 1] /\ us[i] = vs[i + 1]
      BY <1>1, <1>2, Zenon
    <3> QED
      BY <3>1, <3>2, <3>3, <3>4, Zenon
  <2>2. Len(tt) = n - 1
    BY <1>2, <1>7, Zenon
  <2> QED
    BY <1>9, <2>1, <2>2, SeqEqual, Zenon
<1>11. ss[1] = Part(Head(ks), Head(vs))
  BY <1>1, <1>2, <1>3, <1>6, Zenon
<1> QED
  BY <1>1, <1>4, <1>5, <1>6, <1>7, <1>8, <1>9, <1>10, <1>11, Zenon DEF ls, us

LEMMA ConsAt ==
  ASSUME NEW S, NEW x \in S, NEW s \in Seq(S)
  PROVE  (<<x>> \o s)[1] = x /\ \A i \in 1..Len(s) : (<<x>> \o s)[i + 1] = s[i]
OBVIOUS

LEMMA ConsNext ==
  ASSUME NEW S, NEW x \in S, NEW s \in Seq(S), NEW i \in 1..Len(s)
  PROVE  (<<x>> \o s)[i + 1] = s[i]
BY ConsAt

\* A field in front of others.
LEMMA PlainCons ==
  ASSUME NEW ks, NEW vs, Fits(ks, vs), NEW kind \in Simple, NEW v, Holds(kind, v)
  PROVE  /\ Fits(<<kind>> \o ks, <<v>> \o vs)
         /\ Plain(<<kind>> \o ks, <<v>> \o vs) = Part(kind, v) \o Plain(ks, vs)
<1> DEFINE n == Len(vs)
           ls == <<kind>> \o ks
           us == <<v>> \o vs
<1>0. ks \in Seq(Simple) /\ vs \in Seq(Vals) /\ Len(ks) = n /\ n \in Nat
      /\ \A i \in 1..n : Holds(ks[i], vs[i])
  BY DEF Fits
<1>1. ls \in Seq(Simple) /\ Head(ls) = kind /\ Tail(ls) = ks /\ Len(ls) = n + 1 /\ ls # <<>>
  BY <1>0, ConsOne, Zenon
<1>2. v \in Vals
  BY PartType, Zenon
<1>3. us \in Seq(Vals) /\ Head(us) = v /\ Tail(us) = vs /\ Len(us) = n + 1 /\ us # <<>>
  BY <1>0, <1>2, ConsOne, Zenon
<1>3a. \A i \in 1..n : ls[i + 1] = ks[i] /\ us[i + 1] = vs[i]
  <2>1. \A i \in 1..Len(ks) : (<<kind>> \o ks)[i + 1] = ks[i]
    BY <1>0, ConsNext, Zenon
  <2>2. \A i \in 1..Len(vs) : (<<v>> \o vs)[i + 1] = vs[i]
    BY <1>0, <1>2, ConsNext, Zenon
  <2> QED
    BY <1>0, <2>1, <2>2, Zenon
<1> HIDE DEF ls, us, n
<1>4. ASSUME NEW i \in 1..n + 1 PROVE Holds(ls[i], us[i])
  <2>1. CASE i = 1
    <3>1. ls[1] = kind /\ us[1] = v
      BY <1>0, <1>2, ConsAt, Zenon DEF ls, us
    <3> QED
      BY <2>1, <3>1, Zenon
  <2>2. CASE i # 1
    <3> DEFINE j == i - 1
    <3>1. j \in 1..n /\ j + 1 = i
      BY <1>0, <2>2
    <3> HIDE DEF j
    <3> QED
      BY <1>0, <1>3a, <3>1, Zenon
  <2> QED
    BY <2>1, <2>2, Zenon
<1>5. Fits(ls, us)
  BY <1>1, <1>3, <1>4, Zenon DEF Fits
<1>6. Len(us) > 0
  BY <1>0, <1>3
<1>7. Plain(ls, us) = Part(kind, v) \o Plain(ks, vs)
  BY <1>1, <1>3, <1>5, <1>6, PlainHead, Zenon
<1> QED
  BY <1>5, <1>7, Zenon DEF ls, us

\* One more copy of the fields s is s in front of the others.
LEMMA TimesNext ==
  ASSUME NEW S, NEW s \in Seq(S), s # <<>>, NEW n \in Nat
  PROVE  Times(n + 1, s) = s \o Times(n, s)
<1> DEFINE k == Len(s)
           t == Times(n, s)
           u == Times(n + 1, s)
           w == s \o t
<1>0. k \in Nat \ {0}
  OBVIOUS
<1>1. /\ t \in Seq(S) /\ Len(t) = n * k /\ u \in Seq(S) /\ Len(u) = (n + 1) * k
      /\ n * k \in Nat /\ (n + 1) * k = k + n * k
  <2>1. n + 1 \in Nat
    OBVIOUS
  <2>2. t \in Seq(S) /\ Len(t) = n * k /\ u \in Seq(S) /\ Len(u) = (n + 1) * k
    BY <2>1, TimesType, Zenon
  <2> HIDE DEF t, u, k
  <2>3. n * k \in Nat /\ (n + 1) * k = k + n * k
    BY <1>0
  <2> QED
    BY <2>2, <2>3, Zenon
<1>2. /\ \A i \in 1..n * k : t[i] = s[((i - 1) % k) + 1]
      /\ \A i \in 1..(n + 1) * k : u[i] = s[((i - 1) % k) + 1]
  BY Zenon DEF Times
<1> DEFINE m == n * k
<1>3. m \in Nat /\ Len(t) = m /\ Len(u) = k + m
  BY <1>1, Zenon
<1>4. /\ \A i \in 1..m : t[i] = s[((i - 1) % k) + 1]
      /\ \A i \in 1..k + m : u[i] = s[((i - 1) % k) + 1]
  BY <1>1, <1>2, Zenon
<1> HIDE DEF t, u, m, k
<1>5. /\ w \in Seq(S) /\ Len(w) = k + m
      /\ \A i \in 1..k + m : w[i] = IF i <= k THEN s[i] ELSE t[i - k]
  BY <1>1, <1>3, SeqConcat, Zenon DEF k
<1> HIDE DEF w
<1>6. ASSUME NEW i \in 1..k + m PROVE u[i] = w[i]
  <2>1. CASE i <= k
    <3>1. i - 1 \in Int /\ i - 1 \in 0..k - 1 /\ 0 \in Int /\ i - 1 = k * 0 + (i - 1)
      BY <1>0, <1>3, <2>1
    <3>2. (i - 1) % k = i - 1
      BY <1>0, <3>1, QuotientIs, Zenon
    <3>3. (i - 1) + 1 = i
      BY <1>0, <1>3
    <3> QED
      BY <1>4, <1>5, <2>1, <3>2, <3>3, Zenon
  <2>2. CASE ~(i <= k)
    <3> DEFINE j == i - k
               q == (j - 1) \div k
               r == (j - 1) % k
    <3>1. j \in 1..m /\ j - 1 \in Int /\ (i - 1) = (j - 1) + k /\ i - 1 \in Int
      BY <1>0, <1>3, <2>2
    <3>2. q \in Int /\ r \in 0..k - 1 /\ j - 1 = k * q + r
      BY <1>0, <3>1, Quotient
    <3> HIDE DEF j, q, r
    <3>3. i - 1 = k * (q + 1) + r /\ q + 1 \in Int
      <4>1. k * (q + 1) = k * q + k
        BY <1>0, <3>2
      <4> DEFINE x == k * q
      <4>2. x \in Int /\ k * (q + 1) = x + k /\ j - 1 = x + r
        BY <1>0, <3>2, <4>1
      <4> HIDE DEF x
      <4>3. i - 1 = (x + k) + r
        BY <1>0, <3>1, <3>2, <4>2
      <4> QED
        BY <3>2, <4>2, <4>3
    <3>4. (i - 1) % k = r
      BY <1>0, <3>1, <3>2, <3>3, QuotientIs, Zenon
    <3>5. w[i] = t[j]
      BY <1>5, <2>2, Zenon DEF j
    <3>6. t[j] = s[r + 1]
      BY <1>4, <3>1, Zenon DEF r
    <3> QED
      BY <1>4, <3>4, <3>5, <3>6, Zenon
  <2> QED
    BY <2>1, <2>2
<1>7. u = w
  BY <1>1, <1>3, <1>5, <1>6, SeqEqual, Zenon
<1> QED
  BY <1>7, Zenon DEF u, w, t

-----------------------------------------------------------------------------
(* The results of ECHO_RESPONSE, as fields.                                *)

Row(r) == I64(r.idx) \o <<r.type>> \o KV(r.kv)
Rows(v) == Joined([i \in 1..Len(v) |-> Row(v[i])])
Tri(a, b, c) == <<a, b, c>>
Want(r) == Tri(r.idx, r.type, r.kv)
Wants(v) == Joined([i \in 1..Len(v) |-> Want(v[i])])
Triple == Tri("i64", "u8", "kv")

LEMMA FlattenFirst ==
  ASSUME NEW S, NEW n \in Nat, NEW f \in [1..n + 1 -> Seq(S)]
  PROVE  LET g == [i \in 1..n |-> f[i + 1]] IN
         Joined(f) = f[1] \o Joined(g) /\ Joined(f) \in Seq(S) /\ Joined(g) \in Seq(S)
<1> DEFINE g == [i \in 1..n |-> f[i + 1]]
<1>1. n + 1 \in Nat /\ 1 \in 1..n + 1 /\ \A i \in 1..n : i + 1 \in 1..n + 1
  OBVIOUS
<1>2. g \in [1..n -> Seq(S)] /\ \A i \in 1..n : g[i] = f[i + 1]
  BY <1>1, Zenon
<1> HIDE DEF g
<1>3. f \in Seq(Seq(S)) /\ Len(f) = n + 1 /\ g \in Seq(Seq(S)) /\ Len(g) = n
  BY <1>1, <1>2, FunSeq, Zenon
<1>4. f # <<>> /\ Len(f) > 0 /\ Head(f) = f[1]
  BY <1>3
<1>5. /\ Tail(f) \in Seq(Seq(S)) /\ Len(Tail(f)) = n
      /\ \A i \in 1..n : Tail(f)[i] = f[i + 1]
  BY <1>3, <1>4, SeqHeadTail
<1>6. Tail(f) = g
  BY <1>2, <1>3, <1>5, SeqEqual, Zenon
<1>7. Parts(f, S) /\ Parts(g, S)
  BY <1>3, Zenon DEF Parts
<1>8. Joined(f) = Head(f) \o Joined(Tail(f)) /\ Joined(f) \in Seq(S)
  BY <1>4, <1>7, FlattenHead, Zenon
<1> QED
  BY <1>4, <1>6, <1>7, <1>8, FlattenType, Zenon DEF g

LEMMA RowType ==
  ASSUME NEW r, IsResult(r)
  PROVE  /\ Holds("i64", r.idx) /\ Holds("u8", r.type) /\ Holds("kv", r.kv)
         /\ Row(r) \in Seq(Bytes) /\ Len(Row(r)) >= 3 * WordLen + 1
         /\ Row(r) = Part("i64", r.idx) \o (Part("u8", r.type) \o Part("kv", r.kv))
<1>1. IsInt(r.idx, 2 * WordLen) /\ r.type \in Bytes /\ IsMap(r.kv)
  BY Zenon DEF IsResult, Bytes
<1>2. Holds("i64", r.idx) /\ Holds("u8", r.type) /\ Holds("kv", r.kv)
  BY <1>1, Zenon DEF Holds
<1>3. /\ Part("i64", r.idx) = I64(r.idx) /\ Part("u8", r.type) = <<r.type>>
      /\ Part("kv", r.kv) = KV(r.kv)
  BY Zenon DEF Part
<1> DEFINE a == I64(r.idx)
           b == <<r.type>>
           c == KV(r.kv)
<1>4. a \in Seq(Bytes) /\ Len(a) = 2 * WordLen
  BY <1>1, I64Back, Zenon DEF Bytes
<1>5. b \in Seq(Bytes) /\ Len(b) = 1
  BY <1>1
<1>6. c \in Seq(Bytes) /\ Len(c) >= WordLen
  BY <1>1, KVType, Zenon
<1>7. Row(r) = (a \o b) \o c
  BY Zenon DEF Row
<1> HIDE DEF a, b, c
<1>8. /\ a \o b \in Seq(Bytes) /\ Len(a \o b) = Len(a) + Len(b)
  BY <1>4, <1>5, SeqConcat, Zenon
<1>9. (a \o b) \o c \in Seq(Bytes) /\ Len((a \o b) \o c) = Len(a \o b) + Len(c)
  BY <1>6, <1>8, SeqConcat
<1>10. Len((a \o b) \o c) >= 3 * WordLen + 1
  <2>1. Len(c) \in Nat
    BY <1>6
  <2> QED
    BY <1>4, <1>5, <1>6, <1>8, <1>9, <2>1, WidthAssumption
<1>11. (a \o b) \o c = a \o (b \o c)
  <2>1. Same((a \o b) \o c, a \o (b \o c))
    BY <1>4, <1>5, <1>6, Regrouped, Zenon
  <2> QED
    BY <2>1, Zenon DEF Same
<1> QED
  BY <1>2, <1>3, <1>7, <1>9, <1>10, <1>11, Zenon DEF a, b, c

LEMMA WantType ==
  ASSUME NEW r, IsResult(r)
  PROVE  /\ r.idx \in Vals /\ r.type \in Vals /\ r.kv \in Vals /\ Want(r) \in Seq(Vals)
<1>1. "i64" \in Simple /\ "u8" \in Simple /\ "kv" \in Simple
  BY DEF Simple
<1>2. r.idx \in Vals /\ r.type \in Vals /\ r.kv \in Vals
  BY <1>1, RowType, PartType, Zenon
<1> DEFINE V == Vals
<1>3. r.idx \in V /\ r.type \in V /\ r.kv \in V
  BY <1>2, Zenon
<1> HIDE DEF V
<1>4. Want(r) \in Seq(V)
  BY <1>3 DEF Want, Tri
<1> QED
  BY <1>2, <1>4, Zenon DEF V

LEMMA Three ==
  ASSUME NEW S, NEW a \in S, NEW b \in S, NEW c \in S, NEW s \in Seq(S)
  PROVE  Same(Tri(a, b, c) \o s, <<a>> \o (<<b>> \o (<<c>> \o s)))
<1> DEFINE n == Len(s)
           u == Tri(a, b, c) \o s
           x == <<c>> \o s
           y == <<b>> \o x
           z == <<a>> \o y
<1>1. n \in Nat /\ <<a, b, c>> \in Seq(S)
  OBVIOUS
<1>2. u \in Seq(S) /\ Len(u) = n + 3
      /\ u[1] = a /\ u[2] = b /\ u[3] = c /\ \A i \in 1..n : u[i + 3] = s[i]
  BY DEF Tri
<1> HIDE DEF u, n
<1>3. x \in Seq(S) /\ Len(x) = n + 1 /\ x[1] = c /\ \A i \in 1..n : x[i + 1] = s[i]
  BY ConsOne, ConsAt DEF n
<1> HIDE DEF x
<1>4. y \in Seq(S) /\ Len(y) = n + 2 /\ y[1] = b /\ \A i \in 1..n + 1 : y[i + 1] = x[i]
  BY <1>1, <1>3, ConsOne, ConsAt
<1> HIDE DEF y
<1>5. z \in Seq(S) /\ Len(z) = n + 3 /\ z[1] = a /\ \A i \in 1..n + 2 : z[i + 1] = y[i]
  BY <1>1, <1>4, ConsOne, ConsAt
<1> HIDE DEF z
<1>6. z[2] = b
  BY <1>1, <1>4, <1>5
<1>7. z[3] = c
  <2>1. z[3] = y[2] /\ y[2] = x[1]
    BY <1>1, <1>4, <1>5
  <2> QED
    BY <1>3, <2>1, Zenon
<1>8. ASSUME NEW i \in 1..n PROVE z[i + 3] = s[i]
  <2>1. z[i + 3] = y[i + 2] /\ y[i + 2] = x[i + 1]
    BY <1>1, <1>4, <1>5
  <2> QED
    BY <1>3, <2>1, Zenon
<1>9. ASSUME NEW i \in 1..n + 3 PROVE u[i] = z[i]
  <2>1. i = 1 \/ i = 2 \/ i = 3 \/ (i - 3 \in 1..n /\ (i - 3) + 3 = i)
    BY <1>1
  <2> QED
    BY <1>2, <1>5, <1>6, <1>7, <1>8, <2>1, Zenon
<1>10. u = z
  BY <1>2, <1>5, <1>9, SeqEqual, Zenon
<1> QED
  BY <1>10, Zenon DEF Same, u, x, y, z

\* The first result, and then the others.
LEMMA RowsHead ==
  ASSUME NEW R, \A r \in R : IsResult(r), NEW n \in Nat, NEW v \in Seq(R), Len(v) = n + 1
  PROVE  /\ Head(v) \in R /\ Tail(v) \in Seq(R) /\ Len(Tail(v)) = n
         /\ Rows(v) = Row(Head(v)) \o Rows(Tail(v)) /\ Rows(Tail(v)) \in Seq(Bytes)
         /\ Wants(v) = Want(Head(v)) \o Wants(Tail(v)) /\ Wants(Tail(v)) \in Seq(Vals)
<1> DEFINE w == Tail(v)
           f == [i \in 1..n + 1 |-> Row(v[i])]
           g == [i \in 1..n |-> f[i + 1]]
           h == [i \in 1..n + 1 |-> Want(v[i])]
           k == [i \in 1..n |-> h[i + 1]]
<1>1. /\ v # <<>> /\ Head(v) = v[1] /\ Head(v) \in R /\ w \in Seq(R) /\ Len(w) = n
      /\ \A i \in 1..n : w[i] = v[i + 1]
  <2>1. v # <<>> /\ Head(v) = v[1]
    OBVIOUS
  <2> QED
    BY <2>1, SeqHeadTail
<1>2. /\ 1 \in 1..n + 1 /\ \A i \in 1..n : i + 1 \in 1..n + 1
      /\ \A i \in 1..n + 1 : v[i] \in R
  OBVIOUS
<1>3. f \in [1..n + 1 -> Seq(Bytes)] /\ f[1] = Row(Head(v))
  BY <1>1, <1>2, RowType, Zenon
<1>4. h \in [1..n + 1 -> Seq(Vals)] /\ h[1] = Want(Head(v))
  BY <1>1, <1>2, WantType, Zenon
<1>5. g = [i \in 1..n |-> Row(w[i])] /\ k = [i \in 1..n |-> Want(w[i])]
  BY <1>1, <1>2, Zenon
<1>6. Joined(f) = f[1] \o Joined(g) /\ Joined(g) \in Seq(Bytes)
  BY <1>3, FlattenFirst, Zenon
<1>7. Joined(h) = h[1] \o Joined(k) /\ Joined(k) \in Seq(Vals)
  BY <1>4, FlattenFirst, Zenon
<1>8. Rows(v) = Joined(f) /\ Wants(v) = Joined(h)
  BY Zenon DEF Rows, Wants
<1>9. Rows(w) = Joined(g) /\ Wants(w) = Joined(k)
  BY <1>1, <1>5, Zenon DEF Rows, Wants
<1> HIDE DEF f, g, h, k, w
<1> QED
  BY <1>1, <1>3, <1>4, <1>6, <1>7, <1>8, <1>9, Zenon DEF w

\* A list of results is read as three fields for each, and is long enough to pass
\* the check of its count.
LEMMA RowsPlain ==
  ASSUME NEW R, \A r \in R : IsResult(r)
  PROVE  \A n \in Nat : \A v \in Seq(R) : Len(v) = n =>
           /\ Fits(Times(n, Triple), Wants(v))
           /\ Rows(v) = Plain(Times(n, Triple), Wants(v))
           /\ Len(Rows(v)) >= n * (3 * WordLen + 1)
<1> DEFINE m == 3 * WordLen + 1
           Ok(v, n) == /\ Fits(Times(n, Triple), Wants(v))
                       /\ Rows(v) = Plain(Times(n, Triple), Wants(v))
                       /\ Len(Rows(v)) >= n * m
           Good == {n \in Nat : \A v \in Seq(R) : Len(v) = n => Ok(v, n)}
<1>0. /\ m \in Nat /\ Triple \in Seq(Simple) /\ Triple # <<>>
      /\ "i64" \in Simple /\ "u8" \in Simple /\ "kv" \in Simple
  BY WidthAssumption DEF Triple, Tri, Simple
<1> HIDE DEF m
<1>1. 0 \in Good
  <2> SUFFICES ASSUME NEW v \in Seq(R), Len(v) = 0 PROVE Ok(v, 0)
    BY Zenon
  <2> DEFINE f == [i \in 1..Len(v) |-> Row(v[i])]
             h == [i \in 1..Len(v) |-> Want(v[i])]
             T == Times(0, Triple)
  <2>1. 1..Len(v) = {} /\ 0 \in Nat
    OBVIOUS
  <2>2. f \in Seq(Seq(Bytes)) /\ Len(f) = 0 /\ h \in Seq(Seq(Vals)) /\ Len(h) = 0
    <3>1. f \in [1..Len(v) -> Seq(Bytes)] /\ h \in [1..Len(v) -> Seq(Vals)]
      BY <2>1, Zenon
    <3> HIDE DEF f, h
    <3> QED
      BY <2>1, <3>1, FunSeq, Zenon
  <2>3. Rows(v) = Joined(f) /\ Wants(v) = Joined(h)
    BY Zenon DEF Rows, Wants
  <2> HIDE DEF f, h
  <2>4. Joined(f) = <<>> /\ Joined(h) = <<>>
    BY <2>2, FlattenNone, Zenon DEF Parts
  <2>5. T \in Seq(Simple) /\ Len(T) = 0
    <3>1. T \in Seq(Simple) /\ Len(T) = 0 * Len(Triple)
      BY <1>0, <2>1, TimesType, Zenon
    <3>2. Len(Triple) \in Nat
      BY <1>0
    <3> QED
      BY <3>1, <3>2
  <2> HIDE DEF T
  <2>6. Fits(T, <<>>)
    <3>1. <<>> \in Seq(Vals) /\ Len(<<>>) = 0 /\ 1..0 = {}
      BY DEF Vals
    <3> QED
      BY <2>5, <3>1, Zenon DEF Fits
  <2>7. Plain(T, <<>>) = <<>>
    <3>1. Len(<<>>) = 0
      OBVIOUS
    <3> QED
      BY <2>6, <3>1, PlainType, Zenon
  <2>8. Len(<<>>) >= 0 * m
    BY <1>0
  <2> QED
    BY <2>3, <2>4, <2>6, <2>7, <2>8, Zenon DEF T
<1>2. ASSUME NEW n \in Good PROVE n + 1 \in Good
  <2>0. n \in Nat /\ n + 1 \in Nat
    OBVIOUS
  <2> SUFFICES ASSUME NEW v \in Seq(R), Len(v) = n + 1 PROVE Ok(v, n + 1)
    BY <2>0, Zenon
  <2> DEFINE r == Head(v)
             w == Tail(v)
             T == Times(n, Triple)
             W == Wants(w)
             a == Part("i64", r.idx)
             b == Part("u8", r.type)
             c == Part("kv", r.kv)
  <2>1. /\ r \in R /\ w \in Seq(R) /\ Len(w) = n
        /\ Rows(v) = Row(r) \o Rows(w) /\ Rows(w) \in Seq(Bytes)
        /\ Wants(v) = Want(r) \o W /\ W \in Seq(Vals)
    BY <2>0, RowsHead, Zenon
  <2>2. Fits(T, W) /\ Rows(w) = Plain(T, W) /\ Len(Rows(w)) >= n * m
    BY <2>0, <2>1, Zenon
  <2>3. IsResult(r)
    BY <2>1, Zenon
  <2>4. /\ Holds("i64", r.idx) /\ Holds("u8", r.type) /\ Holds("kv", r.kv)
        /\ Row(r) \in Seq(Bytes) /\ Len(Row(r)) >= m
        /\ Row(r) = a \o (b \o c)
    BY <2>3, RowType, Zenon DEF m
  <2>5. a \in Seq(Bytes) /\ b \in Seq(Bytes) /\ c \in Seq(Bytes)
    BY <1>0, <2>4, PartType, Zenon
  <2>6. Times(n + 1, Triple) = Triple \o T
    BY <1>0, <2>0, TimesNext, Zenon
  <2> HIDE DEF T, W, a, b, c, r, w
  <2> DEFINE k1 == <<"kv">> \o T
             v1 == <<r.kv>> \o W
             k2 == <<"u8">> \o k1
             v2 == <<r.type>> \o v1
             k3 == <<"i64">> \o k2
             v3 == <<r.idx>> \o v2
  <2>7. Fits(k1, v1) /\ Plain(k1, v1) = c \o Plain(T, W)
    <3>1. "kv" \in Simple /\ Holds("kv", r.kv) /\ Fits(T, W)
      BY <1>0, <2>2, <2>4, Zenon
    <3> QED
      BY <3>1, PlainCons, Zenon DEF c
  <2> HIDE DEF k1, v1
  <2>8. Fits(k2, v2) /\ Plain(k2, v2) = b \o Plain(k1, v1)
    <3>1. "u8" \in Simple /\ Holds("u8", r.type) /\ Fits(k1, v1)
      BY <1>0, <2>4, <2>7, Zenon
    <3> QED
      BY <3>1, PlainCons, Zenon DEF b
  <2> HIDE DEF k2, v2
  <2>9. Fits(k3, v3) /\ Plain(k3, v3) = a \o Plain(k2, v2)
    <3>1. "i64" \in Simple /\ Holds("i64", r.idx) /\ Fits(k2, v2)
      BY <1>0, <2>4, <2>8, Zenon
    <3> QED
      BY <3>1, PlainCons, Zenon DEF a
  <2> HIDE DEF k3, v3
  <2>10. k3 = Times(n + 1, Triple)
    <3>1. T \in Seq(Simple)
      BY <2>2, Zenon DEF Fits
    <3> QED
      <4>1. Same(Tri("i64", "u8", "kv") \o T, <<"i64">> \o (<<"u8">> \o (<<"kv">> \o T)))
        BY <1>0, <3>1, Three, Zenon
      <4> QED
        BY <2>6, <4>1, Zenon DEF Same, k3, k2, k1, Triple
  <2>11. v3 = Wants(v)
    <3>1. r.idx \in Vals /\ r.type \in Vals /\ r.kv \in Vals
      BY <2>3, WantType, Zenon
    <3>2. Same(Tri(r.idx, r.type, r.kv) \o W, <<r.idx>> \o (<<r.type>> \o (<<r.kv>> \o W)))
      BY <2>1, <3>1, Three, Zenon
    <3> QED
      BY <2>1, <3>2, Zenon DEF Same, v3, v2, v1, Want
  <2>12. Rows(v) = Plain(k3, v3)
    <3> DEFINE p == Rows(w)
    <3>1. Rows(v) = (a \o (b \o c)) \o p /\ Plain(k3, v3) = a \o (b \o (c \o p)) /\ p \in Seq(Bytes)
      BY <2>1, <2>2, <2>4, <2>7, <2>8, <2>9, Zenon
    <3> HIDE DEF p
    <3>2. b \o c \in Seq(Bytes)
      BY <2>5, SeqConcat
    <3>3. (a \o (b \o c)) \o p = a \o ((b \o c) \o p) /\ (b \o c) \o p = b \o (c \o p)
      <4>1. Same((a \o (b \o c)) \o p, a \o ((b \o c) \o p))
        BY <2>5, <3>1, <3>2, Regrouped, Zenon
      <4>2. Same((b \o c) \o p, b \o (c \o p))
        BY <2>5, <3>1, Regrouped, Zenon
      <4> QED
        BY <4>1, <4>2, Zenon DEF Same
    <3> QED
      BY <3>1, <3>3, Zenon
  <2>13. Len(Rows(v)) >= (n + 1) * m
    <3> DEFINE x == Row(r)
               p == Rows(w)
               nm == n * m
    <3>1. /\ Rows(v) = x \o p /\ x \in Seq(Bytes) /\ p \in Seq(Bytes)
          /\ Len(x) >= m /\ Len(p) >= nm
      BY <2>1, <2>2, <2>4, Zenon
    <3>2. nm \in Nat /\ (n + 1) * m = nm + m
      BY <1>0, <2>0
    <3> HIDE DEF x, p, nm
    <3>3. Len(x \o p) = Len(x) + Len(p) /\ Len(x) \in Nat /\ Len(p) \in Nat
      BY <3>1, SeqConcat, SeqLen, Zenon
    <3>4. Len(x) + Len(p) >= nm + m
      BY <1>0, <3>1, <3>2, <3>3
    <3> QED
      BY <3>1, <3>2, <3>3, <3>4, Zenon
  <2> QED
    BY <2>9, <2>10, <2>11, <2>12, <2>13, Zenon
<1> HIDE DEF Good
<1>3. Good = Nat
  <2>1. Good \in SUBSET Nat
    BY Zenon DEF Good
  <2> QED
    BY <1>1, <1>2, <2>1, NatInd
<1> QED
  BY <1>3, Zenon DEF Good, m

-----------------------------------------------------------------------------
(* Messages, as fields.                                                    *)

LEMMA LayoutSimple ==
  ASSUME NEW t \in Types, t # "ECHO_RESPONSE" PROVE Layout[t] \in Seq({"i32", "i64", "str"})
<1> DEFINE S == {"i32", "i64", "str"}
           K == Seq(S)
<1>1. /\ <<"str">> \in K /\ <<"i64">> \in K /\ <<"i64", "i64">> \in K
      /\ <<"i64", "str">> \in K /\ <<"i32", "str">> \in K
  OBVIOUS
<1>2. /\ <<"i64", "str", "str">> \in K /\ <<"str", "str", "str">> \in K
      /\ <<"str", "str", "str", "str">> \in K
  OBVIOUS
<1>3. Types = {"HELLO", "BONJOUR", "ECHO_REQUEST", "ECHO_RESPONSE", "KISS_REQUEST",
               "KISS_RESPONSE", "PING", "PONG", "TIME_NOTIFICATION", "RANDOM_NUMBER",
               "HASH_RESPONSE", "DISCONNECT", "ERROR"}
  BY Zenon DEF Types, Layout
<1>4. /\ Layout["HELLO"] \in K /\ Layout["BONJOUR"] \in K /\ Layout["ECHO_REQUEST"] \in K
      /\ Layout["KISS_REQUEST"] \in K /\ Layout["KISS_RESPONSE"] \in K
      /\ Layout["PING"] \in K /\ Layout["PONG"] \in K
      /\ Layout["TIME_NOTIFICATION"] \in K /\ Layout["RANDOM_NUMBER"] \in K
      /\ Layout["HASH_RESPONSE"] \in K /\ Layout["DISCONNECT"] \in K
      /\ Layout["ERROR"] \in K
  BY <1>1, <1>2, Zenon DEF Layout
<1> QED
  BY <1>3, <1>4, Zenon

\* A message without a list is its fields.
LEMMA PlainMessage ==
  ASSUME NEW m, IsMessage(m), m.type # "ECHO_RESPONSE"
  PROVE  /\ Fits(Layout[m.type], m.fields) /\ Values(m) = m.fields
         /\ Payload(m) = Plain(Layout[m.type], m.fields)
<1> DEFINE S == {"i32", "i64", "str"}
           ks == Layout[m.type]
           vs == m.fields
           n == Len(vs)
<1>1. /\ m.type \in Types /\ n = Len(ks) /\ vs = [i \in 1..n |-> vs[i]]
      /\ \A i \in 1..n : IsValue(ks[i], vs[i])
  BY Zenon DEF IsMessage
<1>2. ks \in Seq(S)
  BY <1>1, LayoutSimple, Zenon
<1>3. Values(m) = vs
  BY Zenon DEF Values
<1>4. Payload(m) = Joined([i \in 1..n |-> Field(ks[i], vs[i])])
  BY Zenon DEF Payload
<1>5. Plain(ks, vs) = Joined([i \in 1..n |-> Part(ks[i], vs[i])])
  BY Zenon DEF Plain
<1> HIDE DEF ks, vs, n
<1>6. n \in Nat /\ \A i \in 1..n : ks[i] \in S
  BY <1>1, <1>2
<1>7. ks \in Seq(Simple)
  <2>1. S \subseteq Simple
    BY Zenon DEF Simple
  <2> HIDE DEF S
  <2> QED
    BY <1>2, <2>1
<1>8. ASSUME NEW k \in S, NEW v, IsValue(k, v)
      PROVE  Holds(k, v) /\ Field(k, v) = Part(k, v) /\ k \in Simple
  BY <1>8, Zenon DEF IsValue, Holds, Field, Part, Simple
<1>9. \A i \in 1..n : /\ Holds(ks[i], vs[i]) /\ Field(ks[i], vs[i]) = Part(ks[i], vs[i])
                      /\ ks[i] \in Simple
  BY <1>1, <1>6, <1>8, Zenon
<1>10. \A i \in 1..n : vs[i] \in Vals
  BY <1>9, PartType, Zenon
<1>11. vs \in [1..n -> Vals]
  BY <1>1, <1>10, Zenon
<1>12. vs \in Seq(Vals)
  BY <1>6, <1>11, FunSeq, Zenon
<1>13. Fits(ks, vs)
  BY <1>1, <1>7, <1>9, <1>12, Zenon DEF Fits, n
<1>14. [i \in 1..n |-> Field(ks[i], vs[i])] = [i \in 1..n |-> Part(ks[i], vs[i])]
  BY <1>9, Zenon
<1> QED
  BY <1>3, <1>4, <1>5, <1>13, <1>14, Zenon DEF ks, vs

\* ECHO_RESPONSE is its status, the number of results, and the results.
LEMMA ListMessage ==
  ASSUME NEW m, IsMessage(m), m.type = "ECHO_RESPONSE"
  PROVE  LET u == m.fields[1]
             v == m.fields[2] IN
         /\ IsInt(u, WordLen) /\ IsList(v) /\ Rows(v) \in Seq(Bytes)
         /\ Fits(Times(Len(v), Triple), Wants(v)) /\ Wants(v) \in Seq(Vals)
         /\ Rows(v) = Plain(Times(Len(v), Triple), Wants(v))
         /\ Len(Rows(v)) >= Len(v) * (3 * WordLen + 1)
         /\ U32(Len(v)) \in Seq(Bytes) /\ Len(U32(Len(v))) = WordLen
         /\ Number(U32(Len(v))) = Len(v)
         /\ Payload(m) = Part("i32", u) \o (U32(Len(v)) \o Rows(v))
         /\ Values(m) = <<u>> \o Wants(v)
<1> DEFINE u == m.fields[1]
           v == m.fields[2]
           k == Len(v)
<1>1. Layout[m.type] = <<"i32", "results">>
  BY DEF Layout
<1>2. Len(m.fields) = 2
  <2>1. Len(m.fields) = Len(<<"i32", "results">>)
    BY <1>1, Zenon DEF IsMessage
  <2> QED
    BY <2>1, Zenon
<1>3. IsInt(u, WordLen) /\ IsList(v)
  <2>1. 1 \in 1..Len(m.fields) /\ 2 \in 1..Len(m.fields)
    BY <1>2
  <2>2. IsValue(Layout[m.type][1], u) /\ IsValue(Layout[m.type][2], v)
    BY <2>1, Zenon DEF IsMessage
  <2>3. Layout[m.type][1] = "i32" /\ Layout[m.type][2] = "results"
    BY <1>1
  <2>4. IsValue("i32", u) /\ IsValue("results", v)
    BY <2>2, <2>3, Zenon
  <2> HIDE DEF u, v
  <2> QED
    BY <2>4, Zenon DEF IsValue
<1>4. Payload(m) = Joined([i \in 1..2 |-> Field(<<"i32", "results">>[i], m.fields[i])])
  BY <1>1, <1>2, Zenon DEF Payload
<1>5. Values(m) = <<u>> \o Wants(v)
  BY Zenon DEF Values, Wants, Want, Tri
<1> DEFINE F == [i \in 1..2 |-> Field(<<"i32", "results">>[i], m.fields[i])]
<1>6. F[1] = Field("i32", u) /\ F[2] = Field("results", v)
  <2>1. 1 \in 1..2 /\ 2 \in 1..2 /\ <<"i32", "results">>[1] = "i32" /\ <<"i32", "results">>[2] = "results"
    OBVIOUS
  <2> QED
    BY <2>1, Zenon
<1>7. F = [i \in 1..2 |-> F[i]]
  BY Zenon
<1> HIDE DEF F, u, v
<1>8. F[1] = Part("i32", u) /\ Part("i32", u) \in Seq(Bytes)
  <2>1. Field("i32", u) = Part("i32", u) /\ Holds("i32", u) /\ "i32" \in Simple
    BY <1>3 DEF Field, Part, Holds, Simple
  <2> QED
    BY <1>6, <2>1, PartType, Zenon
<1>9. F[2] = U32(k) \o Rows(v)
  <2>1. Field("results", v) =
          U32(Len(v)) \o Joined([i \in 1..Len(v) |->
                          I64(v[i].idx) \o <<v[i].type>> \o KV(v[i].kv)])
    BY Zenon DEF Field
  <2>2. Rows(v) = Joined([i \in 1..Len(v) |->
                          I64(v[i].idx) \o <<v[i].type>> \o KV(v[i].kv)])
    BY Zenon DEF Rows, Row
  <2> QED
    BY <1>6, <2>1, <2>2, Zenon
<1>10. k \in Nat /\ k < Word /\ v = [i \in 1..k |-> v[i]] /\ \A i \in 1..k : IsResult(v[i])
  BY <1>3, Zenon DEF IsList
<1>11. /\ Fits(Times(k, Triple), Wants(v))
       /\ Rows(v) = Plain(Times(k, Triple), Wants(v))
       /\ Len(Rows(v)) >= k * (3 * WordLen + 1)
  <2> DEFINE R == {v[i] : i \in 1..k}
  <2>1. \A r \in R : IsResult(r)
    BY <1>10, Zenon
  <2>2. v \in [1..k -> R]
    BY <1>10, Zenon
  <2> HIDE DEF R
  <2>3. v \in Seq(R)
    BY <1>10, <2>2, FunSeq, Zenon
  <2> QED
    BY <1>10, <2>1, <2>3, RowsPlain, Zenon
<1>12. Rows(v) \in Seq(Bytes) /\ Wants(v) \in Seq(Vals)
  BY <1>11, PlainType, Zenon DEF Fits
<1>13. U32(k) \in Seq(Bytes) /\ Len(U32(k)) = WordLen /\ Number(U32(k)) = k
  BY <1>10, NumberU32, Zenon DEF Bytes
<1>14. Joined(F) = F[1] \o F[2]
  <2>0. PICK n \in Nat, z \in Nat : n = 1 /\ z = 0 /\ n + 1 = 2 /\ z + 1 = 1
    <3>1. 1 \in Nat /\ 0 \in Nat /\ 1 + 1 = 2 /\ 0 + 1 = 1
      OBVIOUS
    <3> QED
      BY <3>1, Zenon
  <2> DEFINE a == F[1]
             b == F[2]
             G == [i \in 1..n |-> F[i + 1]]
             H == [i \in 1..z |-> G[i + 1]]
  <2>1. a \in Seq(Bytes) /\ b \in Seq(Bytes)
    <3>1. U32(k) \o Rows(v) \in Seq(Bytes)
      BY <1>12, <1>13, SeqConcat, Zenon
    <3> QED
      BY <1>8, <1>9, <3>1, Zenon
  <2>2. 1 \in 1..n /\ \A i \in 1..2 : i = 1 \/ i = 2
    BY <2>0
  <2>3. F \in [1..2 -> Seq(Bytes)]
    BY <1>7, <2>1, <2>2, Zenon
  <2>4. G \in [1..n -> Seq(Bytes)] /\ G[1] = b
    <3>1. 1 + 1 = 2 /\ \A i \in 1..n : i + 1 = 2
      BY <2>0
    <3> QED
      BY <2>1, <2>2, <3>1, Zenon
  <2>5. Joined(F) = a \o Joined(G)
    <3>1. F \in [1..n + 1 -> Seq(Bytes)]
      BY <2>0, <2>3, Zenon
    <3> QED
      BY <2>0, <3>1, FlattenFirst, Zenon
  <2> HIDE DEF G
  <2>6. Joined(G) = b \o Joined(H)
    <3>1. G \in [1..z + 1 -> Seq(Bytes)]
      BY <2>0, <2>4, Zenon
    <3> QED
      BY <2>0, <2>4, <3>1, FlattenFirst, Zenon
  <2>7. Joined(H) = <<>>
    <3>1. 1..z = {}
      BY <2>0
    <3>2. H \in [1..z -> Seq(Bytes)]
      BY <3>1, Zenon
    <3> HIDE DEF H
    <3>3. H \in Seq(Seq(Bytes)) /\ Len(H) = 0
      BY <2>0, <3>2, FunSeq, Zenon
    <3> QED
      BY <3>3, FlattenNone, Zenon DEF Parts
  <2> HIDE DEF a, b, H
  <2>8. b \o <<>> = b
    BY <2>1
  <2> QED
    BY <2>5, <2>6, <2>7, <2>8, Zenon DEF a, b
<1>15. Payload(m) = Part("i32", u) \o (U32(k) \o Rows(v))
  BY <1>4, <1>8, <1>9, <1>14, Zenon DEF F
<1> QED
  BY <1>3, <1>5, <1>11, <1>12, <1>13, <1>15, Zenon DEF u, v

-----------------------------------------------------------------------------
(* Types and bounds.                                                       *)

\* What InputAssumption says of the frame, which no step changes.
Framed ==
  /\ Len(input.bytes) \in Nat
  /\ input.bytes = [i \in 1..Len(input.bytes) |-> input.bytes[i]]
  /\ \A i \in 5..Len(input.bytes) : input.bytes[i] \in Bytes

\* The inductive invariant: the reader is within the payload as soon as there is
\* one, and has done nothing before the header was judged.
IInv ==
  /\ TypeOK
  /\ Framed
  /\ InBounds
  /\ verdict = "start" => pos = 0 /\ todo = <<>>

LEMMA PayloadType ==
  ASSUME Framed, len \in Nat
  PROVE  /\ payload \in Seq(Bytes)
         /\ Len(payload) = len
         /\ \A i \in 1..len : payload[i] = input.bytes[HEADER_LEN + i]
<1> DEFINE b == input.bytes
           m == HEADER_LEN + 1
           n == Len(input.bytes)
<1>1. m \in Int /\ n \in Int /\ m >= 5 /\ n - m + 1 = len
  BY WidthAssumption DEF HEADER_LEN, Framed, len
<1>2. \A i \in m..n : b[i] \in Bytes
  BY <1>1 DEF Framed
<1>3. payload = SubSeq(b, m, n)
  BY Zenon DEF payload
<1> HIDE DEF b, m, n
<1>4. /\ SubSeq(b, m, n) \in Seq(Bytes)
      /\ Len(SubSeq(b, m, n)) = IF m <= n THEN n - m + 1 ELSE 0
      /\ \A i \in 1..n - m + 1 : SubSeq(b, m, n)[i] = b[m + i - 1]
  <2>1. IsCut(SubSeq(b, m, n), Bytes, b, m, n)
    BY <1>1, <1>2, SeqSubSeq, Zenon
  <2> QED
    BY <2>1, Zenon DEF IsCut
<1>5. Len(SubSeq(b, m, n)) = len
  BY <1>1, <1>4
<1>6. \A i \in 1..len : m + i - 1 = HEADER_LEN + i
  BY WidthAssumption DEF m, HEADER_LEN
<1> QED
  BY <1>1, <1>3, <1>4, <1>5, <1>6 DEF b

\* n bytes of the payload stand for a natural number.
LEMMA ValueType ==
  ASSUME Framed, len \in Nat, NEW p \in Nat, NEW n \in Nat, p + n <= len
  PROVE  Value(p, n) \in Nat
<1> DEFINE s == SubSeq(payload, p + 1, p + n)
<1>1. payload \in Seq(Bytes) /\ Len(payload) = len
  BY PayloadType
<1>2. \A i \in p + 1..p + n : payload[i] \in Bytes
  BY <1>1
<1>3. s \in Seq(Bytes)
  <2>1. p + 1 \in Int /\ p + n \in Int
    OBVIOUS
  <2>2. IsCut(s, Bytes, payload, p + 1, p + n)
    BY <1>2, <2>1, SeqSubSeq, Zenon
  <2> QED
    BY <2>2, Zenon DEF IsCut
<1> QED
  BY <1>3, NumberType, Zenon DEF Value, Bytes

LEMMA LayoutType == \A t \in Types : Layout[t] \in Seq(Kinds)
<1>1. /\ <<"str">> \in Seq(Kinds)
      /\ <<"i64">> \in Seq(Kinds)
      /\ <<"i64", "i64">> \in Seq(Kinds)
      /\ <<"i64", "str">> \in Seq(Kinds)
      /\ <<"i32", "str">> \in Seq(Kinds)
      /\ <<"i32", "results">> \in Seq(Kinds)
  BY DEF Kinds
<1>2. /\ <<"i64", "str", "str">> \in Seq(Kinds)
      /\ <<"str", "str", "str">> \in Seq(Kinds)
      /\ <<"str", "str", "str", "str">> \in Seq(Kinds)
  BY DEF Kinds
<1>3. Types = {"HELLO", "BONJOUR", "ECHO_REQUEST", "ECHO_RESPONSE", "KISS_REQUEST",
               "KISS_RESPONSE", "PING", "PONG", "TIME_NOTIFICATION", "RANDOM_NUMBER",
               "HASH_RESPONSE", "DISCONNECT", "ERROR"}
  BY Zenon DEF Types, Layout
<1> DEFINE K == Seq(Kinds)
<1>4. /\ Layout["HELLO"] \in K /\ Layout["BONJOUR"] \in K
      /\ Layout["ECHO_REQUEST"] \in K /\ Layout["ECHO_RESPONSE"] \in K
      /\ Layout["KISS_REQUEST"] \in K /\ Layout["KISS_RESPONSE"] \in K
      /\ Layout["PING"] \in K /\ Layout["PONG"] \in K
      /\ Layout["TIME_NOTIFICATION"] \in K /\ Layout["RANDOM_NUMBER"] \in K
      /\ Layout["HASH_RESPONSE"] \in K /\ Layout["DISCONNECT"] \in K
      /\ Layout["ERROR"] \in K
  BY <1>1, <1>2, Zenon DEF Layout
<1> QED
  BY <1>3, <1>4, Zenon

LEMMA InvInit == Init => IInv
<1> SUFFICES ASSUME Init PROVE IInv
  BY Zenon
<1>1. Framed
  BY InputAssumption DEF Init, Framed, Bytes
<1>2. todo \in Seq(Kinds)
  BY DEF Init
<1> QED
  BY <1>1, <1>2 DEF Init, IInv, TypeOK, InBounds

\* A step of the reader that throws changes only the verdict.
LEMMA Throws ==
  ASSUME IInv, verdict = "reading", NEW e \in Errors \ {"short"}, Throw(e), UNCHANGED input
  PROVE  IInv'
<1>1. /\ verdict' = e /\ pos' = pos /\ todo' = todo /\ input' = input
      /\ e \notin {"start", "short"}
  BY DEF Throw, Errors
<1>2. TypeOK'
  BY <1>1, Zenon DEF IInv, TypeOK
<1>3. Framed'
  BY <1>1, Zenon DEF IInv, Framed
<1>4. InBounds'
  BY <1>1 DEF IInv, InBounds, len
<1> QED
  BY <1>1, <1>2, <1>3, <1>4, Zenon DEF IInv

\* Where the reader is.
LEMMA Reading ==
  ASSUME IInv, verdict = "reading"
  PROVE  Framed /\ len \in Nat /\ pos \in Nat /\ remaining \in Nat /\ pos + remaining = len
BY WidthAssumption DEF IInv, TypeOK, Framed, InBounds, remaining, len, HEADER_LEN

\* A length or a count is a number.
LEMMA CountType ==
  ASSUME IInv, verdict = "reading", remaining >= WordLen
  PROVE  Value(pos, WordLen) \in Nat
<1>1. Framed /\ len \in Nat /\ pos \in Nat /\ remaining \in Nat /\ pos + remaining = len
  BY Reading, Zenon
<1>2. WordLen \in Nat
  BY WidthAssumption
<1>3. pos + WordLen <= len
  BY <1>1, <1>2
<1> QED
  BY <1>1, <1>2, <1>3, ValueType, Zenon

\* A step of the reader that consumes n bytes which have arrived.
LEMMA Advances ==
  ASSUME IInv, verdict = "reading", NEW n \in Nat, n <= remaining,
         pos' = pos + n, todo' \in Seq(Kinds), UNCHANGED <<input, verdict>>
  PROVE  IInv'
<1>1. pos' \in Nat /\ pos' \in 0..len /\ len \in Int
  BY Reading
<1>2. TypeOK'
  BY <1>1, Zenon DEF IInv, TypeOK
<1>3. Framed'
  BY Zenon DEF IInv, Framed
<1>4. InBounds'
  BY <1>1 DEF IInv, InBounds, len
<1> QED
  BY <1>2, <1>3, <1>4, Zenon DEF IInv

LEMMA TailType ==
  ASSUME IInv, todo # <<>> PROVE Head(todo) \in Kinds /\ Tail(todo) \in Seq(Kinds)
BY DEF IInv, TypeOK

LEMMA InvStep == IInv /\ [Next]_vars => IInv'
<1> SUFFICES ASSUME IInv, [Next]_vars PROVE IInv'
  OBVIOUS
<1>1. CASE decodeFrame
  <2>0. verdict = "start" /\ input' = input /\ pos = 0 /\ todo = <<>> /\ Framed
    BY <1>1 DEF decodeFrame, IInv
  <2>1. Framed'
    BY <2>0, Zenon DEF Framed
  <2>2. HeaderError \notin {"none", "short"} \/ HeaderError = "none" => len \in Nat
    BY <2>0, WidthAssumption DEF HeaderError, len, Framed, HEADER_LEN
  <2>3. HeaderError \in {"none"} \cup Errors
    BY Zenon DEF HeaderError, Errors
  <2>4. len' = len
    BY <2>0 DEF len
  <2>5. CASE HeaderError # "none" /\ Throw(HeaderError)
    <3>1. verdict' = HeaderError /\ pos' = 0 /\ todo' = <<>> /\ verdict' \in Errors
      BY <2>0, <2>3, <2>5 DEF Throw
    <3>2. TypeOK'
      BY <3>1 DEF TypeOK
    <3>3. InBounds'
      BY <2>2, <2>4, <2>5, <3>1 DEF InBounds
    <3> QED
      BY <2>1, <3>1, <3>2, <3>3, Zenon DEF IInv
  <2>6. CASE HeaderError = "none" /\ todo' = Layout[input.bytes[3]] /\ verdict' = "reading"
             /\ UNCHANGED <<pos, out, key>>
    <3>1. input.bytes[3] \in Types
      BY <2>6 DEF HeaderError
    <3>2. todo' \in Seq(Kinds)
      BY <2>6, <3>1, LayoutType, Zenon
    <3>3. TypeOK'
      BY <2>0, <2>6, <3>2 DEF TypeOK
    <3>4. InBounds'
      BY <2>0, <2>2, <2>4, <2>6 DEF InBounds
    <3> QED
      BY <2>1, <2>6, <3>3, <3>4 DEF IInv
  <2> QED
    BY <1>1, <2>5, <2>6, Zenon DEF decodeFrame
<1>2. CASE readInt
  <2> DEFINE n == Width(Head(todo))
  <2>0. verdict = "reading" /\ todo # <<>> /\ input' = input
    BY <1>2 DEF readInt, At
  <2>1. n \in Nat
    BY WidthAssumption DEF Width
  <2>2. remaining < n /\ Throw("end") => IInv'
    BY <2>0, Throws, Zenon DEF Errors
  <2>3. ASSUME remaining >= n, NEW v, Got(n, v) PROVE IInv'
    <3>1. pos' = pos + n /\ todo' = Tail(todo) /\ verdict' = verdict
      BY <2>3, Zenon DEF Got
    <3>2. n <= remaining
      BY <2>0, <2>1, <2>3, Reading, Zenon
    <3> QED
      BY <2>0, <2>1, <3>1, <3>2, TailType, Advances
  <2> QED
    BY <1>2, <2>2, <2>3, Zenon DEF readInt
<1>3. CASE readString
  <2> DEFINE n == Value(pos, WordLen)
             s == SubSeq(payload, pos + WordLen + 1, pos + WordLen + n)
  <2>0. verdict = "reading" /\ todo # <<>> /\ input' = input
    BY <1>3 DEF readString, At
  <2>1. \A e \in {"end", "string", "utf8"} : Throw(e) => IInv'
    BY <2>0, Throws, Zenon DEF Errors
  <2>2. ASSUME remaining >= WordLen, n <= remaining - WordLen, Use(WordLen + n, s)
        PROVE  IInv'
    <3>1. n \in Nat
      BY <2>0, <2>2, CountType, Zenon
    <3> HIDE DEF n, s
    <3>2. pos' = pos + (WordLen + n) /\ todo' = Tail(todo) /\ verdict' = verdict
      BY <2>2, Zenon DEF Use, Got
    <3>3. WordLen + n \in Nat /\ WordLen + n <= remaining
      BY <2>0, <2>2, <3>1, Reading, WidthAssumption
    <3> QED
      BY <2>0, <3>2, <3>3, TailType, Advances
  <2> QED
    BY <1>3, <2>1, <2>2, Zenon DEF readString
<1>4. CASE readKV
  <2> DEFINE n == Value(pos, WordLen)
  <2>0. verdict = "reading" /\ todo # <<>> /\ input' = input
    BY <1>4 DEF readKV, At
  <2>1. \A e \in {"end", "count"} : Throw(e) => IInv'
    BY <2>0, Throws, Zenon DEF Errors
  <2>2. ASSUME remaining >= WordLen, pos' = pos + WordLen, UNCHANGED verdict,
               todo' = Times(n, <<"key", "val">>) \o Tail(todo)
        PROVE  IInv'
    <3>1. n \in Nat
      BY <2>0, <2>2, CountType, Zenon
    <3> HIDE DEF n
    <3>2. <<"key", "val">> \in Seq(Kinds) /\ <<"key", "val">> # <<>>
      BY DEF Kinds
    <3>3. Times(n, <<"key", "val">>) \in Seq(Kinds)
      BY <3>1, <3>2, TimesType, Zenon
    <3>4. todo' \in Seq(Kinds)
      BY <2>0, <2>2, <3>3, TailType
    <3>5. WordLen \in Nat /\ WordLen <= remaining
      BY <2>0, <2>2, Reading, WidthAssumption
    <3> QED
      BY <2>0, <2>2, <3>4, <3>5, Advances
  <2> QED
    BY <1>4, <2>1, <2>2, Zenon DEF readKV
<1>5. CASE readResults
  <2> DEFINE n == Value(pos, WordLen)
  <2>0. verdict = "reading" /\ todo # <<>> /\ input' = input
    BY <1>5 DEF readResults, At
  <2>1. \A e \in {"end", "count"} : Throw(e) => IInv'
    BY <2>0, Throws, Zenon DEF Errors
  <2>2. ASSUME remaining >= WordLen, pos' = pos + WordLen, UNCHANGED verdict,
               todo' = Times(n, <<"i64", "u8", "kv">>) \o Tail(todo)
        PROVE  IInv'
    <3>1. n \in Nat
      BY <2>0, <2>2, CountType, Zenon
    <3> HIDE DEF n
    <3>2. <<"i64", "u8", "kv">> \in Seq(Kinds) /\ <<"i64", "u8", "kv">> # <<>>
      BY DEF Kinds
    <3>3. Times(n, <<"i64", "u8", "kv">>) \in Seq(Kinds)
      BY <3>1, <3>2, TimesType, Zenon
    <3>4. todo' \in Seq(Kinds)
      BY <2>0, <2>2, <3>3, TailType
    <3>5. WordLen \in Nat /\ WordLen <= remaining
      BY <2>0, <2>2, Reading, WidthAssumption
    <3> QED
      BY <2>0, <2>2, <3>4, <3>5, Advances
  <2> QED
    BY <1>5, <2>1, <2>2, Zenon DEF readResults
<1>6. CASE Return
  BY <1>6 DEF Return, IInv, TypeOK, Framed, InBounds, len
<1>7. CASE UNCHANGED vars
  BY <1>7, Zenon DEF vars, IInv, TypeOK, Framed, InBounds, len
<1> QED
  BY <1>1, <1>2, <1>3, <1>4, <1>5, <1>6, <1>7, Zenon DEF Next

LEMMA Invariance == Spec => []IInv
BY InvInit, InvStep, PTL DEF Spec

\* The position and the fields that are left are of their types on every frame.
THEOREM TypeCorrect == Spec => []TypeOK
BY Invariance, PTL DEF IInv

\* ByteReader never looks beyond the payload that decodeFrame found, on any bytes.
THEOREM Bounds == Spec => []InBounds
BY Invariance, PTL DEF IInv

-----------------------------------------------------------------------------
(* Counts.                                                                 *)

\* A count n that passes the check announces at most as many elements as bytes.
LEMMA CountBound ==
  ASSUME NEW n \in Nat, NEW r \in Nat, NEW w \in Nat \ {0}, NEW k \in Nat, k <= w,
         n <= r \div w
  PROVE  n * k <= r
<1> DEFINE q == r \div w
<1>1. q \in Nat /\ q * w <= r
  OBVIOUS
<1> HIDE DEF q
<1>2. n <= q
  BY Zenon DEF q
<1>3. n * k <= q * k
  BY <1>1, <1>2
<1>4. q * k <= q * w
  BY <1>1
<1>5. n * k \in Nat /\ q * k \in Nat /\ q * w \in Nat
  BY <1>1
<1> QED
  BY <1>1, <1>3, <1>4, <1>5

\* readKV and the results of ECHO_RESPONSE: what a count adds to the fields that
\* are to be read is less than the bytes that are left, so that a frame cannot
\* make the reader do more than it carries.
THEOREM Counts == Spec => CountsFit
<1> DEFINE Fit == Len(todo') > Len(todo) /\ verdict = "reading"
                    => Len(todo') - Len(todo) < remaining'
<1>1. ASSUME IInv, [Next]_vars PROVE [Fit]_vars
  <2> SUFFICES ASSUME Next, verdict = "reading", Len(todo') > Len(todo)
               PROVE  Len(todo') - Len(todo) < remaining'
    BY <1>1
  <2>0. IInv' /\ todo \in Seq(Kinds) /\ todo' \in Seq(Kinds)
    BY <1>1, InvStep, Zenon DEF IInv, TypeOK
  <2>1. CASE decodeFrame
    BY <2>1 DEF decodeFrame
  <2>2. CASE readInt \/ readString \/ Return
    <3>1. todo' = todo \/ (todo # <<>> /\ todo' = Tail(todo))
      BY <2>2, Zenon DEF readInt, readString, Return, At, Throw, Got, Use
    <3> QED
      BY <2>0, <3>1
  <2>3. ASSUME NEW s \in Seq(Kinds), s # <<>>, todo # <<>>, NEW w \in Nat, Len(s) <= w,
               remaining >= WordLen,
               Value(pos, WordLen) <= (remaining - WordLen) \div w,
               pos' = pos + WordLen, input' = input,
               todo' = Times(Value(pos, WordLen), s) \o Tail(todo)
        PROVE  Len(todo') - Len(todo) < remaining'
    <3> DEFINE n == Value(pos, WordLen)
    <3>1. n \in Nat
      BY <1>1, <2>3, CountType, Zenon
    <3>2. remaining - WordLen \in Nat /\ remaining' = remaining - WordLen
      <4>1. remaining \in Nat /\ pos \in Nat /\ len \in Nat /\ pos + remaining = len
        BY <1>1, Reading, Zenon
      <4>2. len' = len
        BY <2>3 DEF len
      <4>3. remaining' = len' - pos'
        BY Zenon DEF remaining
      <4> QED
        BY <2>3, <4>1, <4>2, <4>3, WidthAssumption
    <3>3. Len(s) \in Nat \ {0} /\ w \in Nat \ {0}
      BY <2>3
    <3>4. n * Len(s) <= remaining - WordLen
      BY <2>3, <3>1, <3>2, <3>3, CountBound, Zenon
    <3>5. Times(n, s) \in Seq(Kinds) /\ Len(Times(n, s)) = n * Len(s)
      BY <2>3, <3>1, TimesType, Zenon
    <3>6. Tail(todo) \in Seq(Kinds) /\ Len(Tail(todo)) = Len(todo) - 1 /\ Len(todo) \in Nat
      BY <2>0, <2>3
    <3> HIDE DEF n
    <3>7. Len(todo') = n * Len(s) + (Len(todo) - 1)
      <4> DEFINE T == Times(n, s)
                 N == n * Len(s)
      <4>1. T \in Seq(Kinds) /\ Len(T) = N /\ todo' = T \o Tail(todo)
        BY <2>3, <3>5 DEF n
      <4> HIDE DEF T, N
      <4>2. Len(T \o Tail(todo)) = Len(T) + Len(Tail(todo))
        BY <3>6, <4>1, SeqConcat, Zenon
      <4>3. Len(todo') = N + (Len(todo) - 1)
        BY <3>6, <4>1, <4>2, Zenon
      <4> QED
        BY <4>3, Zenon DEF N
    <3>8. n * Len(s) \in Nat
      BY <3>1, <3>3
    <3> QED
      BY <3>2, <3>4, <3>6, <3>7, <3>8
  <2>4. CASE readKV
    <3>1. <<"key", "val">> \in Seq(Kinds) /\ Len(<<"key", "val">>) <= 2 * WordLen
          /\ <<"key", "val">> # <<>> /\ 2 * WordLen \in Nat
      BY WidthAssumption DEF Kinds
    <3>2. todo' # todo /\ todo # <<>>
      BY <2>0, <2>4 DEF readKV, At
    <3>3. /\ remaining >= WordLen
          /\ Value(pos, WordLen) <= (remaining - WordLen) \div (2 * WordLen)
          /\ pos' = pos + WordLen /\ input' = input
          /\ todo' = Times(Value(pos, WordLen), <<"key", "val">>) \o Tail(todo)
      BY <2>4, <3>2, Zenon DEF readKV, Throw
    <3> QED
      BY <2>3, <3>1, <3>2, <3>3, Zenon
  <2>5. CASE readResults
    <3>1. <<"i64", "u8", "kv">> \in Seq(Kinds) /\ Len(<<"i64", "u8", "kv">>) <= 3 * WordLen + 1
          /\ <<"i64", "u8", "kv">> # <<>> /\ 3 * WordLen + 1 \in Nat
      BY WidthAssumption DEF Kinds
    <3>2. todo' # todo /\ todo # <<>>
      BY <2>0, <2>5 DEF readResults, At
    <3>3. /\ remaining >= WordLen
          /\ Value(pos, WordLen) <= (remaining - WordLen) \div (3 * WordLen + 1)
          /\ pos' = pos + WordLen /\ input' = input
          /\ todo' = Times(Value(pos, WordLen), <<"i64", "u8", "kv">>) \o Tail(todo)
      BY <2>5, <3>2, Zenon DEF readResults, Throw
    <3> QED
      BY <2>3, <3>1, <3>2, <3>3, Zenon
  <2> QED
    BY <2>1, <2>2, <2>4, <2>5, Zenon DEF Next
<1>2. Spec => [][Fit]_vars
  BY <1>1, Invariance, PTL DEF Spec
<1> QED
  BY <1>2, Zenon DEF CountsFit
-----------------------------------------------------------------------------
(* What is left of a message.                                              *)

\* The bytes of the message, and whether some of them have not arrived.
Whole == Len(Payload(input.msg))
Short == len < Whole

\* rest is what of the message is still to be read, as far as it has arrived.
Left(rest) ==
  /\ rest \in Seq(Bytes)
  /\ pos + Len(rest) = Whole
  /\ \A i \in 1..Len(rest) : pos + i <= len => payload[pos + i] = rest[i]

\* The middle of what is left is found at its place.
LEMMA LeftPart ==
  ASSUME IInv, verdict = "reading", NEW a \in Seq(Bytes), NEW b \in Seq(Bytes),
         NEW c \in Seq(Bytes), Left(a \o (b \o c)), Len(a) + Len(b) <= remaining
  PROVE  SubSeq(payload, pos + Len(a) + 1, pos + Len(a) + Len(b)) = b
<1> DEFINE s == a \o (b \o c)
           m == Len(a)
           n == Len(b)
           k == Len(c)
           p == pos
           l == len
           y == payload
<1>0. /\ p \in Nat /\ l \in Nat /\ p + (m + n) <= l
      /\ \A i \in 1..Len(s) : p + i <= l => y[p + i] = s[i]
  <2>1. m \in Nat /\ n \in Nat
    OBVIOUS
  <2>2. \A i \in 1..Len(s) : p + i <= l => y[p + i] = s[i]
    BY Zenon DEF Left
  <2>3. p \in Nat /\ l \in Nat /\ remaining \in Nat /\ p + remaining = l
    BY Reading, Zenon
  <2>4. p + (m + n) <= l
    BY <2>1, <2>3
  <2> QED
    BY <2>2, <2>3, <2>4, Zenon
<1>1. y \in Seq(Bytes) /\ Len(y) = l
  BY <1>0, Reading, PayloadType, Zenon
<1>2. m \in Nat /\ n \in Nat /\ k \in Nat
  OBVIOUS
<1> HIDE DEF p, l, y, m, n, k
<1>3. /\ b \o c \in Seq(Bytes) /\ Len(b \o c) = n + k
      /\ \A i \in 1..n : (b \o c)[i] = b[i]
  BY DEF n, k
<1>4. /\ Len(s) = m + (n + k)
      /\ \A i \in 1..n : s[m + i] = (b \o c)[i]
  <2> DEFINE d == b \o c
  <2>1. d \in Seq(Bytes) /\ Len(d) = n + k
    BY <1>3
  <2> HIDE DEF d
  <2>2. Len(a \o d) = m + (n + k) /\ \A i \in 1..n + k : (a \o d)[m + i] = d[i]
    <3>1. Len(a \o d) = m + (n + k)
      <4>1. Len(a \o d) = Len(a) + Len(d)
        BY <2>1, SeqConcat, Zenon
      <4> QED
        BY <2>1, <4>1, Zenon DEF m
    <3>2. ASSUME NEW i \in 1..n + k PROVE (a \o d)[m + i] = d[i]
      <4>1. m + i \in 1..m + Len(d) /\ m + i > m /\ (m + i) - m = i
        BY <1>2, <2>1
      <4>2. \A j \in 1..m + Len(d) : (a \o d)[j] = IF j <= m THEN a[j] ELSE d[j - m]
        BY <2>1, SeqConcat, Zenon DEF m
      <4>3. ~(m + i <= m)
        BY <1>2, <4>1
      <4> QED
        BY <4>1, <4>2, <4>3, Zenon
    <3> QED
      BY <3>1, <3>2, Zenon
  <2>3. \A i \in 1..n : i \in 1..n + k
    BY <1>2
  <2> QED
    BY <2>2, <2>3, Zenon DEF d
<1> HIDE DEF s
<1>5. ASSUME NEW i \in 1..n PROVE y[p + m + i] = b[i]
  <2>1. m + i \in 1..Len(s) /\ p + (m + i) <= l /\ p + m + i = p + (m + i)
    BY <1>0, <1>2, <1>4
  <2>2. y[p + (m + i)] = s[m + i]
    BY <1>0, <2>1, Zenon
  <2> QED
    BY <1>3, <1>4, <2>1, <2>2, Zenon
<1> DEFINE f == p + m + 1
           g == p + m + n
           t == SubSeq(y, f, g)
<1>6. /\ f \in Int /\ g \in Int /\ \A i \in f..g : y[i] \in Bytes
      /\ g - f + 1 = n /\ (f <= g \/ n = 0)
      /\ \A i \in 1..n : f + i - 1 = p + m + i
  BY <1>0, <1>1, <1>2
<1> HIDE DEF f, g
<1>7. /\ t \in Seq(Bytes) /\ Len(t) = IF f <= g THEN g - f + 1 ELSE 0
      /\ \A i \in 1..g - f + 1 : t[i] = y[f + i - 1]
  <2>1. f \in Int /\ g \in Int /\ \A i \in f..g : y[i] \in Bytes
    BY <1>6, Zenon
  <2>2. IsCut(t, Bytes, y, f, g)
    BY <2>1, SeqSubSeq, Zenon
  <2> QED
    BY <2>2, Zenon DEF IsCut
<1> HIDE DEF t
<1>8. Len(t) = n
  BY <1>2, <1>6, <1>7, Zenon
<1>9. \A i \in 1..n : t[i] = b[i]
  BY <1>5, <1>6, <1>7, Zenon
<1>10. t = b
  BY <1>7, <1>8, <1>9, SeqEqual, Zenon DEF n
<1> QED
  BY <1>10, Zenon DEF t, f, g, m, n, p, y

\* The front of what is left is found where the reader is.
LEMMA LeftRead ==
  ASSUME IInv, verdict = "reading", NEW a \in Seq(Bytes), NEW b \in Seq(Bytes),
         Left(a \o b), Len(a) <= remaining
  PROVE  Value(pos, Len(a)) = Number(a)
<1> DEFINE e == <<>>
<1>1. e \in Seq(Bytes) /\ Len(e) = 0 /\ Len(a) \in Nat /\ pos \in Nat
  BY Reading
<1>2. a \o b \in Seq(Bytes)
  OBVIOUS
<1>3. e \o (a \o b) = a \o b
  BY <1>2
<1> HIDE DEF e
<1>4. /\ Left(e \o (a \o b)) /\ Len(e) + Len(a) <= remaining
      /\ pos + Len(e) + 1 = pos + 1 /\ pos + Len(e) + Len(a) = pos + Len(a)
  BY <1>1, <1>3
<1>5. SubSeq(payload, pos + Len(e) + 1, pos + Len(e) + Len(a)) = a
  BY <1>1, <1>4, LeftPart, Zenon
<1>6. SubSeq(payload, pos + 1, pos + Len(a)) = a
  BY <1>4, <1>5, Zenon
<1> QED
  BY <1>6, Zenon DEF Value

\* Once the front has been read, the others are left.
LEMMA LeftStep ==
  ASSUME IInv, verdict = "reading", NEW a \in Seq(Bytes), NEW b \in Seq(Bytes),
         Left(a \o b), pos' = pos + Len(a), input' = input
  PROVE  Left(b)'
<1> DEFINE s == a \o b
           m == Len(a)
           n == Len(b)
           p == pos
           l == len
           w == Whole
           y == payload
<1>1. /\ p + Len(s) = w /\ \A i \in 1..Len(s) : p + i <= l => y[p + i] = s[i]
  BY Zenon DEF Left
<1>2. p \in Nat /\ l \in Nat
  BY Reading
<1>3. l' = l /\ w' = w /\ y' = y
  BY Zenon DEF len, Whole, payload
<1>4. m \in Nat /\ n \in Nat /\ Len(s) = m + n /\ \A i \in 1..n : s[m + i] = b[i]
  OBVIOUS
<1> HIDE DEF s, m, n, p, l, w, y
<1>5. (p + m) + n = w
  BY <1>1, <1>2, <1>4
<1>6. ASSUME NEW i \in 1..n, (p + m) + i <= l PROVE y[(p + m) + i] = b[i]
  <2>1. m + i \in 1..Len(s) /\ p + (m + i) <= l /\ (p + m) + i = p + (m + i)
    BY <1>2, <1>4, <1>6
  <2> QED
    BY <1>1, <1>4, <2>1, Zenon
<1>7. p' = p + m
  BY DEF p, m
<1>8. /\ p' + n = w' /\ \A i \in 1..n : p' + i <= l' => y'[p' + i] = b[i]
  BY <1>3, <1>5, <1>6, <1>7, Zenon
<1> QED
  BY <1>8 DEF Left, p, l, w, y, n

\* What is left has not all arrived if its front has not.
LEMMA LeftShort ==
  ASSUME IInv, verdict = "reading", NEW a \in Seq(Bytes), NEW b \in Seq(Bytes),
         Left(a \o b), ~(Len(a) <= remaining)
  PROVE  Short
<1>1. pos \in Nat /\ len \in Nat /\ remaining \in Nat /\ pos + remaining = len
  BY Reading
<1>2. pos + Len(a \o b) = Whole
  BY Zenon DEF Left
<1>3. Len(a) \in Nat /\ Len(b) \in Nat /\ Len(a \o b) = Len(a) + Len(b)
  OBVIOUS
<1>4. len < pos + (Len(a) + Len(b))
  BY <1>1, <1>3
<1> QED
  BY <1>2, <1>3, <1>4, Zenon DEF Short

LEMMA CountRefused ==
  ASSUME NEW n \in Nat, NEW r \in Nat, NEW w \in Nat \ {0}, ~(n <= r \div w)
  PROVE  n * w > r
<1> DEFINE q == r \div w
           d == r % w
<1>1. q \in Int /\ d \in 0..w - 1 /\ r = w * q + d
  BY Quotient
<1> HIDE DEF q, d
<1>2. n >= q + 1
  BY <1>1 DEF q
<1>3. n * w >= (q + 1) * w
  BY <1>1, <1>2
<1>4. (q + 1) * w = w * q + w
  BY <1>1
<1> DEFINE x == w * q
           z == n * w
<1>5. x \in Int /\ z \in Int /\ z >= x + w /\ r = x + d
  BY <1>1, <1>3, <1>4
<1> HIDE DEF x, z
<1>6. z > r
  BY <1>1, <1>5
<1> QED
  BY <1>6 DEF z

\* The count of n elements, of at least w bytes each.
LEMMA CountStep ==
  ASSUME IInv, verdict = "reading", NEW n \in Nat, n < Word, NEW b \in Seq(Bytes),
         NEW w \in Nat \ {0}, Len(b) >= n * w, Left(U32(n) \o b)
  PROVE  /\ remaining < WordLen => Short
         /\ remaining >= WordLen =>
              /\ Value(pos, WordLen) = n
              /\ ~(n <= (remaining - WordLen) \div w) => Short
<1> DEFINE a == U32(n)
<1>0. a \in Seq(Bytes) /\ Len(a) = WordLen /\ Number(a) = n
  BY NumberU32 DEF Bytes
<1> HIDE DEF a
<1>1. Left(a \o b)
  BY Zenon DEF a
<1>2. remaining \in Nat /\ WordLen \in Nat
  BY Reading, WidthAssumption
<1>3. ASSUME remaining < WordLen PROVE Short
  <2>1. ~(Len(a) <= remaining)
    BY <1>0, <1>2, <1>3
  <2> QED
    BY <1>0, <1>1, <2>1, LeftShort, Zenon
<1>4. ASSUME remaining >= WordLen PROVE Value(pos, WordLen) = n
  <2>1. Len(a) <= remaining
    BY <1>0, <1>2, <1>4, Zenon
  <2>2. Value(pos, Len(a)) = Number(a)
    BY <1>0, <1>1, <2>1, LeftRead, Zenon
  <2> QED
    BY <1>0, <2>2, Zenon
<1>5. ASSUME remaining >= WordLen, ~(n <= (remaining - WordLen) \div w) PROVE Short
  <2> DEFINE r == remaining - WordLen
  <2>1. r \in Nat /\ r + WordLen = remaining
    BY <1>2, <1>5
  <2>2. ~(n <= r \div w)
    BY <1>5, Zenon
  <2> HIDE DEF r
  <2>3. n * w > r
    BY <2>1, <2>2, CountRefused
  <2> DEFINE x == n * w
  <2>4. x \in Nat /\ x > r /\ Len(b) >= x /\ Len(b) \in Nat
    BY <2>3
  <2> HIDE DEF x
  <2>5. /\ a \o b \in Seq(Bytes) /\ Len(a \o b) = WordLen + Len(b)
        /\ (a \o b) \o <<>> = a \o b /\ <<>> \in Seq(Bytes)
    BY <1>0
  <2>6. ~(Len(a \o b) <= remaining)
    BY <1>2, <2>1, <2>4, <2>5
  <2>7. Left((a \o b) \o <<>>)
    BY <1>1, <2>5, Zenon
  <2> QED
    BY <2>5, <2>6, <2>7, LeftShort, Zenon
<1> QED
  BY <1>3, <1>4, <1>5, Zenon

-----------------------------------------------------------------------------
(* Reading a field that was written.                                       *)

LEMMA NumberOne == ASSUME NEW x \in Bytes PROVE Number(<<x>>) = x
<1> DEFINE s == <<x>>
<1>1. Len(s) = 1 /\ s[1] = x /\ x \in Int /\ Len(s) \in Nat
  BY WidthAssumption DEF Bytes
<1> HIDE DEF s
<1>2. PICK v : Reads(s, v, Len(s)) /\ Number(s) = v[Len(s)]
  BY <1>1, NumberReads, Zenon
<1>3. v[0] = 0 /\ v[1] = v[0] * Base + s[1]
  BY <1>1, <1>2 DEF Reads
<1>4. v[1] = x
  BY <1>1, <1>3, WidthAssumption
<1> QED
  BY <1>1, <1>2, <1>4, Zenon DEF s

\* What the reader makes of the bytes of a number is that number.
LEMMA NumberBack ==
  ASSUME NEW kind \in {"u8", "i32", "i64"}, NEW v, Holds(kind, v)
  PROVE  /\ Part(kind, v) \in Seq(Bytes) /\ Len(Part(kind, v)) = Width(kind)
         /\ v = LET u == Number(Part(kind, v)) IN
                IF kind = "u8" THEN u ELSE Signed(u, Power(Width(kind)))
<1>1. CASE kind = "u8"
  <2>1. v \in Bytes /\ Part(kind, v) = <<v>> /\ Width(kind) = 1
    BY <1>1 DEF Holds, Part, Width
  <2>2. <<v>> \in Seq(Bytes) /\ Len(<<v>>) = 1
    BY <2>1
  <2> QED
    BY <1>1, <2>1, <2>2, NumberOne, Zenon
<1>2. CASE kind = "i32"
  <2>1. IsInt(v, WordLen) /\ Part(kind, v) = U32(v % Word) /\ Width(kind) = WordLen /\ kind # "u8"
    BY <1>2 DEF Holds, Part, Width
  <2> QED
    BY <2>1, I32Back, Zenon DEF Bytes
<1>3. CASE kind = "i64"
  <2>1. IsInt(v, 2 * WordLen) /\ Part(kind, v) = I64(v) /\ Width(kind) = 2 * WordLen /\ kind # "u8"
    BY <1>3 DEF Holds, Part, Width
  <2> QED
    BY <2>1, I64Back, Zenon DEF Bytes
<1> QED
  BY <1>1, <1>2, <1>3, Zenon

\* readU8, readI32 and readI64 return the number that was written, unless bytes of it
\* have not arrived.
LEMMA IntStep ==
  ASSUME IInv, readInt, NEW kind \in {"u8", "i32", "i64"}, Head(todo) = kind,
         NEW v, Holds(kind, v), NEW b \in Seq(Bytes), Left(Part(kind, v) \o b)
  PROVE  \/ Short /\ verdict' \in Errors
         \/ Left(b)' /\ verdict' = "reading" /\ todo' = Tail(todo) /\ out' = Append(out, v)
<1> DEFINE a == Part(kind, v)
           n == Width(kind)
           u == Value(pos, n)
           x == IF kind = "u8" THEN u ELSE Signed(u, Power(n))
<1>0. verdict = "reading" /\ input' = input
  BY Zenon DEF readInt, At
<1>1. /\ a \in Seq(Bytes) /\ Len(a) = n
      /\ v = IF kind = "u8" THEN Number(a) ELSE Signed(Number(a), Power(n))
  BY NumberBack, Zenon
<1>2. (remaining < n /\ Throw("end")) \/ (remaining >= n /\ Got(n, x))
  <2> DEFINE k == Head(todo)
             m == Width(k)
             y == IF k = "u8" THEN Value(pos, m) ELSE Signed(Value(pos, m), Power(m))
  <2>1. (remaining < m /\ Throw("end")) \/ (remaining >= m /\ Got(m, y))
    BY Zenon DEF readInt
  <2>2. m = n
    BY Zenon
  <2>3. y = x
    BY <2>2, Zenon
  <2> HIDE DEF m, n, x, y
  <2> QED
    BY <2>1, <2>2, <2>3, Zenon
<1>3. remaining \in Nat /\ n \in Nat
  <2>1. Len(a) \in Nat
    BY <1>1
  <2> QED
    BY <1>0, <1>1, <2>1, Reading, Zenon
<1> HIDE DEF a, n
<1>4. Left(a \o b)
  BY Zenon DEF a
<1>5. CASE remaining < n /\ Throw("end")
  <2>1. ~(Len(a) <= remaining)
    BY <1>1, <1>3, <1>5
  <2>2. Short
    BY <1>0, <1>1, <1>4, <2>1, LeftShort, Zenon
  <2>3. verdict' \in Errors
    BY <1>5 DEF Throw, Errors
  <2> QED
    BY <2>2, <2>3, Zenon
<1>6. CASE remaining >= n /\ Got(n, x)
  <2>1. Len(a) <= remaining
    BY <1>1, <1>3, <1>6
  <2>2. u = Number(a)
    BY <1>0, <1>1, <1>4, <2>1, LeftRead, Zenon
  <2>3. x = v
    BY <1>1, <2>2, Zenon
  <2> HIDE DEF x
  <2>4. /\ pos' = pos + Len(a) /\ out' = Append(out, v) /\ todo' = Tail(todo)
        /\ verdict' = "reading"
    BY <1>0, <1>1, <1>6, <2>3, Zenon DEF Got
  <2>5. Left(b)'
    BY <1>0, <1>1, <1>4, <2>4, LeftStep, Zenon
  <2> QED
    BY <2>4, <2>5, Zenon
<1> QED
  BY <1>2, <1>5, <1>6, Zenon

\* readString returns the text that was written, unless bytes of it have not arrived;
\* it is never refused for its encoding.
LEMMA StringStep ==
  ASSUME IInv, readString, NEW s, IsText(s), NEW b \in Seq(Bytes), Left(Str(s) \o b)
  PROVE  \/ Short /\ verdict' \in Errors
         \/ Left(b)' /\ Use(WordLen + Len(s), s)
<1> DEFINE a == U32(Len(s))
           w == WordLen
           n == Value(pos, w)
           t == SubSeq(payload, pos + w + 1, pos + w + n)
<1>0. verdict = "reading" /\ input' = input
  BY Zenon DEF readString, At
<1>1. /\ s \in Seq(Bytes) /\ Len(s) \in Nat /\ Str(s) \in Seq(Bytes) /\ ValidText(s)
      /\ a \in Seq(Bytes) /\ Len(a) = w /\ Number(a) = Len(s)
      /\ Str(s) = a \o s /\ Len(Str(s)) = w + Len(s)
  BY StrType, Zenon DEF IsText
<1>2. \/ remaining < w /\ Throw("end")
      \/ remaining >= w /\ n > remaining - w /\ Throw("string")
      \/ remaining >= w /\ n <= remaining - w /\ ~ValidText(t) /\ Throw("utf8")
      \/ remaining >= w /\ n <= remaining - w /\ ValidText(t) /\ Use(w + n, t)
  BY Zenon DEF readString
<1>3. remaining \in Nat /\ w \in Nat
  BY <1>0, Reading, WidthAssumption, Zenon
<1>4. \A e \in {"end", "string"} : Throw(e) => verdict' \in Errors
  BY DEF Throw, Errors
<1> HIDE DEF a, w
<1>5. Left(Str(s) \o b) /\ Left(a \o (s \o b)) /\ s \o b \in Seq(Bytes)
  <2>1. s \o b \in Seq(Bytes)
    BY <1>1, SeqConcat, Zenon
  <2>2. Same((a \o s) \o b, a \o (s \o b))
    BY <1>1, Regrouped, Zenon
  <2> QED
    BY <1>1, <2>1, <2>2, Zenon DEF Same
<1>6. ASSUME ~(w + Len(s) <= remaining) PROVE Short
  BY <1>0, <1>1, <1>5, <1>6, LeftShort, Zenon
<1>7. CASE remaining < w /\ Throw("end")
  <2>1. ~(w + Len(s) <= remaining)
    BY <1>1, <1>3, <1>7
  <2> QED
    BY <1>4, <1>6, <1>7, <2>1, Zenon
<1>8. CASE remaining >= w
  <2>1. Len(a) <= remaining
    BY <1>1, <1>3, <1>8
  <2>2. n = Len(s)
    BY <1>0, <1>1, <1>5, <2>1, LeftRead, Zenon
  <2> HIDE DEF n
  <2>3. CASE n > remaining - w /\ Throw("string")
    <3>1. ~(w + Len(s) <= remaining)
      BY <1>1, <1>3, <2>2, <2>3
    <3> QED
      BY <1>4, <1>6, <2>3, <3>1, Zenon
  <2>4. CASE n <= remaining - w
    <3>1. Len(a) + Len(s) <= remaining
      BY <1>1, <1>3, <2>2, <2>4
    <3>2. SubSeq(payload, pos + Len(a) + 1, pos + Len(a) + Len(s)) = s
      BY <1>0, <1>1, <1>5, <3>1, LeftPart, Zenon
    <3>3. t = s
      BY <1>1, <2>2, <3>2, Zenon
    <3> HIDE DEF t
    <3>4. Use(w + Len(s), s)
      <4>1. ~(n > remaining - w) /\ ~(remaining < w)
        BY <1>1, <1>3, <1>8, <2>2, <2>4
      <4> QED
        BY <1>1, <1>2, <2>2, <3>3, <4>1, Zenon
    <3>5. pos' = pos + Len(Str(s))
      BY <1>1, <3>4, Zenon DEF Use, Got
    <3>6. Left(b)'
      BY <1>0, <1>1, <1>5, <3>5, LeftStep, Zenon
    <3> QED
      BY <3>4, <3>6, Zenon DEF w
  <2> QED
    BY <1>2, <1>3, <1>7, <1>8, <2>3, <2>4, Zenon
<1> QED
  BY <1>2, <1>7, <1>8, Zenon
=============================================================================
