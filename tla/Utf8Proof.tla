------------------------------ MODULE Utf8Proof ------------------------------
(***************************************************************************)
(* isValidUtf8 stays inside its text and accepts exactly the well-formed   *)
(* ones, for every text of any length.                                     *)
(***************************************************************************)
EXTENDS Utf8, TLAPS

\* The next byte and the bytes read so far are inside the text.
Inside == i <= len /\ high <= len

LEMMA LeadType == ASSUME NEW b \in 0..255 PROVE Lead(b).extra \in 0..3
BY DEF Lead, NoLead

LEMMA Step == TypeOK /\ Inside /\ [Next]_vars => TypeOK' /\ Inside'
<1> SUFFICES ASSUME TypeOK, Inside, [Next]_vars PROVE TypeOK' /\ Inside'
  OBVIOUS
<1> USE DEF TypeOK, Inside, len
<1>1. CASE Return
  BY <1>1 DEF Return
<1>2. CASE Ascii
  BY <1>2 DEF Ascii
<1>3. CASE BadLead
  BY <1>3 DEF BadLead
<1>4. ASSUME i < len PROVE Lead(At(i)).extra \in 0..3
  <2>1. i + 1 \in 1..Len(data)
    BY <1>4
  <2>2. \A k \in 1..Len(data) : data[k] \in Byte
    OBVIOUS
  <2>3. data[i + 1] \in Byte
    BY <2>1, <2>2, Zenon
  <2>4. At(i) \in 0..255
    BY <1>4, <2>3 DEF At, Byte
  <2> QED
    BY <2>4, LeadType
<1>5. CASE BadContinuation
  <2>1. PICK k \in 1..Lead(At(i)).extra : high' = i + k + 1
    BY <1>5 DEF BadContinuation
  <2>2. /\ i < len /\ ~(i + Lead(At(i)).extra >= len)
        /\ verdict' = "false" /\ UNCHANGED <<data, i>>
    BY <1>5 DEF BadContinuation, CutOff
  <2> QED
    BY <1>4, <2>1, <2>2
<1>6. CASE Sequence
  <2>1. /\ i < len /\ ~(i + Lead(At(i)).extra >= len)
        /\ high' = i + Lead(At(i)).extra + 1 /\ data' = data
        /\ \/ verdict' = "false" /\ i' = i
           \/ i' = i + Lead(At(i)).extra + 1 /\ verdict' = verdict
    BY <1>6 DEF Sequence, CutOff
  <2> QED
    BY <1>4, <2>1
<1>7. CASE UNCHANGED vars
  BY <1>7 DEF vars
<1> QED
  BY <1>1, <1>2, <1>3, <1>5, <1>6, <1>7 DEF Next

LEMMA InsideInv == Spec => [](TypeOK /\ Inside)
<1>1. Init => TypeOK /\ Inside
  <2> SUFFICES ASSUME Init PROVE TypeOK /\ Inside
    OBVIOUS
  <2>1. PICK n \in 0..MaxLen : data \in [1..n -> Bytes]
    BY DEF Init
  <2>2. n \in Nat
    BY <2>1, ByteAssumption
  <2>3. data \in Seq(Bytes)
    BY <2>1, <2>2
  <2>4. data \in Seq(Byte)
    BY <2>3, ByteAssumption
  <2> QED
    BY <2>4 DEF Init, TypeOK, Inside, len
<1> QED
  BY <1>1, Step, PTL DEF Spec

\* isValidUtf8 reads no byte beyond the end of its text.
THEOREM InBounds == Spec => []NoOverread
<1>1. TypeOK /\ Inside => NoOverread
  BY DEF Inside, NoOverread
<1> QED
  BY <1>1, InsideInv, PTL

-----------------------------------------------------------------------------
(* Masks and code points, as arithmetic on bytes.                          *)

\* The leading bytes: 110xxxxx, 1110xxxx and 11110xxx.
LEMMA LeadByte ==
  ASSUME NEW b \in Byte, b > 127
  PROVE  /\ b \in 192..223 => Lead(b) = [extra |-> 1, bits |-> b - 192, min |-> 128]
         /\ b \in 224..239 => Lead(b) = [extra |-> 2, bits |-> b - 224, min |-> 2048]
         /\ b \in 240..247 => Lead(b) = [extra |-> 3, bits |-> b - 240, min |-> 65536]
         /\ b \in 128..191 \cup 248..255 => Lead(b) = NoLead
<1>1. /\ b \div 32 = 6 <=> b \in 192..223
      /\ b \div 16 = 14 <=> b \in 224..239
      /\ b \div 8 = 30 <=> b \in 240..247
  BY DEF Byte
<1>2. /\ b \in 192..223 => b % 32 = b - 192
      /\ b \in 224..239 => b % 16 = b - 224
      /\ b \in 240..247 => b % 8 = b - 240
  BY DEF Byte
<1> QED
  BY <1>1, <1>2, SMT DEF Lead, Byte

\* A continuation byte is 10xxxxxx.
LEMMA TailByte ==
  ASSUME TypeOK, NEW k \in Nat, k < len
  PROVE  /\ At(k) = data[k + 1] /\ data[k + 1] \in Byte
         /\ Continues(k) <=> data[k + 1] \in Tail1
         /\ data[k + 1] \in Tail1 => At(k) % 64 = data[k + 1] - 128
<1>1. At(k) = data[k + 1] /\ data[k + 1] \in Byte
  BY DEF At, TypeOK, len
<1>2. ASSUME NEW b \in Byte
      PROVE  (b \div 64 = 2 <=> b \in Tail1) /\ (b \in Tail1 => b % 64 = b - 128)
  BY DEF Byte, Tail1
<1> QED
  BY <1>1, <1>2 DEF Continues

\* The code points of the bytes of a sequence, and the smallest ones.
Code2(b, x) == (b - 192) * 64 + (x - 128)
Code3(b, x, y) == ((b - 224) * 64 + (x - 128)) * 64 + (y - 128)
Code4(b, x, y, z) == (((b - 240) * 64 + (x - 128)) * 64 + (y - 128)) * 64 + (z - 128)
Min2 == 128
Min3 == 2048
Min4 == 65536

\* The first two bytes of the rows of the table.
First2(b) == b \in 194..223
First3(b, x) ==
  \/ b = 224 /\ x \in 160..191
  \/ b \in 225..236 \cup 238..239 /\ x \in Tail1
  \/ b = 237 /\ x \in 128..159
First4(b, x) ==
  \/ b = 240 /\ x \in 144..191
  \/ b \in 241..243 /\ x \in Tail1
  \/ b = 244 /\ x \in 128..143

\* What the code checks of a sequence is what the table says of it: the shortest
\* form, no surrogate, at most U+10FFFF.
LEMMA TwoBytes ==
  ASSUME NEW b \in 192..223, NEW x \in Tail1, NEW l, l.min = Min2
  PROVE  ~Rejected(l, Code2(b, x)) <=> First2(b)
<1> DEFINE c == Code2(b, x)
<1> USE DEF Tail1, Code2
<1>1. c \in Int /\ c < 2048
  BY SMT
<1>2. c < 128 <=> b < 194
  BY SMT
<1> HIDE DEF c, Code2
<1>3. Rejected(l, c) <=> c < 128
  BY <1>1, SMT DEF Rejected, Min2
<1>4. First2(b) <=> ~(b < 194)
  BY SMT DEF First2
<1> QED
  BY <1>2, <1>3, <1>4, SMT DEF c

LEMMA ThreeBytes ==
  ASSUME NEW b \in 224..239, NEW x \in Tail1, NEW y \in Tail1, NEW l, l.min = Min3
  PROVE  ~Rejected(l, Code3(b, x, y)) <=> First3(b, x)
<1> DEFINE c == Code3(b, x, y)
<1> USE DEF Tail1, Code3
<1>1. c \in Int /\ c < 65536
  BY SMT
<1>2. c < 2048 <=> b = 224 /\ x < 160
  BY SMT
<1>3. c \in 55296..57343 <=> b = 237 /\ x > 159
  BY SMT
<1> HIDE DEF c, Code3
<1>4. Rejected(l, c) <=> c < 2048 \/ c \in 55296..57343
  BY <1>1, SMT DEF Rejected, Min3
<1>5. First3(b, x) <=> ~(b = 224 /\ x < 160) /\ ~(b = 237 /\ x > 159)
  BY SMT DEF First3
<1>6. Rejected(l, c) <=> (b = 224 /\ x < 160) \/ (b = 237 /\ x > 159)
  BY <1>2, <1>3, <1>4, SMT
<1> QED
  BY <1>5, <1>6, SMT DEF c

LEMMA FourBytes ==
  ASSUME NEW b \in 240..247, NEW x \in Tail1, NEW y \in Tail1, NEW z \in Tail1,
         NEW l, l.min = Min4
  PROVE  ~Rejected(l, Code4(b, x, y, z)) <=> First4(b, x)
<1> DEFINE c == Code4(b, x, y, z)
<1> USE DEF Tail1, Code4
<1>1. c \in Int
  BY SMT
<1>2. c < 65536 <=> b = 240 /\ x < 144
  BY SMT
<1>3. c > 1114111 <=> b > 244 \/ (b = 244 /\ x > 143)
  BY SMT
<1> HIDE DEF c, Code4
<1>4. Rejected(l, c) <=> c < 65536 \/ c > 1114111
  <2>1. c \in 55296..57343 => c < 65536
    BY <1>1, SMT
  <2> QED
    BY <2>1, SMT DEF Rejected, Min4
<1>5. First4(b, x) <=> ~(b = 240 /\ x < 144) /\ ~(b > 244 \/ (b = 244 /\ x > 143))
  BY SMT DEF First4
<1> QED
  BY <1>2, <1>3, <1>4, <1>5, SMT DEF c

-----------------------------------------------------------------------------
(* One sequence.                                                           *)

\* The row that starts at the index i, if any, is the sequence the loop reads.
Fits(n) == i + n <= len /\ Row(i, n)

LEMMA RowFirst ==
  ASSUME NEW k, NEW n, Row(k, n)
  PROVE  data[k + 1] \in 0..127 \cup 194..244
<1> DEFINE b == data[k + 1]
<1>1. \/ b \in 0..127 \/ b \in 194..223 \/ b = 224 \/ b \in 225..236 \cup 238..239
      \/ b = 237 \/ b = 240 \/ b \in 241..243 \/ b = 244
  BY SMT DEF Row
<1> HIDE DEF b
<1>2. b \in 0..127 \cup 194..244
  BY <1>1, SMT
<1> QED
  BY <1>2 DEF b

LEMMA AsciiRow ==
  ASSUME TypeOK, i < len, At(i) <= 127
  PROVE  Fits(1) /\ \A n \in 1..4 : Fits(n) => n = 1
<1>1. At(i) = data[i + 1] /\ data[i + 1] \in Byte
  BY TailByte DEF TypeOK
<1>2. Fits(1)
  <2>1. data[i + 1] \in 0..127
    BY <1>1 DEF Byte
  <2>2. i + 1 <= len
    BY DEF TypeOK, len
  <2> QED
    BY <2>1, <2>2, Zenon DEF Fits, Row
<1>3. ASSUME NEW n \in 1..4, Fits(n) PROVE n = 1
  BY <1>1, <1>3 DEF Fits, Row, Byte
<1> QED
  BY <1>2, <1>3

\* The sequence that the leading byte announces is complete and continued.
Complete == ~CutOff(Lead(At(i))) /\ \A k \in 1..Lead(At(i)).extra : Continues(i + k)

LEMMA SequenceRow ==
  ASSUME TypeOK, i < len, At(i) > 127, NEW n \in 1..4
  PROVE  Fits(n) <=> /\ Lead(At(i)) # NoLead /\ n = Lead(At(i)).extra + 1
                     /\ Complete
                     /\ ~Rejected(Lead(At(i)), CodePoint(Lead(At(i))))
<1> DEFINE l == Lead(At(i))
           b == data[i + 1]
<1>1. At(i) = b /\ b \in Byte /\ i \in Nat /\ len \in Nat /\ b > 127
  BY TailByte DEF TypeOK, len
<1>2. CASE b \in 128..191 \cup 248..255
  <2>1. l = NoLead
    BY <1>1, <1>2, LeadByte
  <2>2. ~Row(i, n)
    BY <1>1, <1>2, RowFirst, SMT
  <2> QED
    BY <2>1, <2>2, Zenon DEF Fits
<1>3. CASE b \in 192..223
  <2>1. l = [extra |-> 1, bits |-> b - 192, min |-> 128]
    BY <1>1, <1>3, LeadByte, SMT
  <2>2. l # NoLead /\ l.extra = 1 /\ l.bits = b - 192 /\ l.min = Min2
    BY <2>1, SMT DEF NoLead, Min2
  <2> HIDE DEF l
  <2> DEFINE x == data[i + 2]
             c == Code2(b, x)
  <2>3. Row(i, n) <=> n = 2 /\ First2(b) /\ x \in Tail1
    BY <1>1, <1>3 DEF Row, First2
  <2>4. ~CutOff(l) <=> i + 1 < len
    BY <1>1, <2>2, SMT DEF CutOff
  <2>5. ASSUME i + 1 < len
        PROVE  /\ Complete <=> x \in Tail1
               /\ x \in Tail1 => CodePoint(l) = c
    <3>1. /\ Continues(i + 1) <=> x \in Tail1
          /\ x \in Tail1 => At(i + 1) % 64 = x - 128
      BY <1>1, <2>5, TailByte
    <3>2. Complete <=> Continues(i + 1)
      BY <2>2, <2>4, <2>5, SMT DEF Complete, l
    <3> QED
      BY <2>2, <3>1, <3>2, SMT DEF CodePoint, Code2
  <2>6. ASSUME x \in Tail1 PROVE ~Rejected(l, c) <=> First2(b)
    <3> HIDE DEF b, x
    <3> QED
      BY <1>3, <2>2, <2>6, TwoBytes, Zenon
  <2>7. i + 2 <= len <=> i + 1 < len
    BY <1>1
  <2> HIDE DEF x, c
  <2> QED
    BY <2>2, <2>3, <2>4, <2>5, <2>6, <2>7, SMT DEF Fits, Complete, l
<1>4. CASE b \in 224..239
  <2>1. l = [extra |-> 2, bits |-> b - 224, min |-> 2048]
    BY <1>1, <1>4, LeadByte, SMT
  <2>2. l # NoLead /\ l.extra = 2 /\ l.bits = b - 224 /\ l.min = Min3
    BY <2>1, SMT DEF NoLead, Min3
  <2> HIDE DEF l
  <2> DEFINE x == data[i + 2]
             y == data[i + 3]
             c == Code3(b, x, y)
  <2>3. Row(i, n) <=> n = 3 /\ First3(b, x) /\ y \in Tail1
    BY <1>1, <1>4 DEF Row, First3
  <2>4. ~CutOff(l) <=> i + 2 < len
    BY <1>1, <2>2, SMT DEF CutOff
  <2>5. ASSUME i + 2 < len
        PROVE  /\ Complete <=> x \in Tail1 /\ y \in Tail1
               /\ x \in Tail1 /\ y \in Tail1 => CodePoint(l) = c
    <3>1. /\ Continues(i + 1) <=> x \in Tail1
          /\ x \in Tail1 => At(i + 1) % 64 = x - 128
      BY <1>1, <2>5, TailByte
    <3>2. /\ Continues(i + 2) <=> y \in Tail1
          /\ y \in Tail1 => At(i + 2) % 64 = y - 128
      BY <1>1, <2>5, TailByte
    <3>3. Complete <=> Continues(i + 1) /\ Continues(i + 2)
      <4>1. 1..2 = {1, 2}
        OBVIOUS
      <4> QED
        BY <2>2, <2>4, <2>5, <4>1, SMT DEF Complete, l
    <3> QED
      BY <2>2, <3>1, <3>2, <3>3, SMT DEF CodePoint, Code3
  <2>6. ASSUME x \in Tail1, y \in Tail1 PROVE ~Rejected(l, c) <=> First3(b, x)
    <3> HIDE DEF b, x, y
    <3> QED
      BY <1>4, <2>2, <2>6, ThreeBytes, Zenon
  <2>7. First3(b, x) => x \in Tail1
    BY DEF First3, Tail1
  <2>8. i + 3 <= len <=> i + 2 < len
    BY <1>1
  <2> HIDE DEF x, y, c
  <2> QED
    BY <2>2, <2>3, <2>4, <2>5, <2>6, <2>7, <2>8, SMT DEF Fits, Complete, l
<1>5. CASE b \in 240..247
  <2>1. l = [extra |-> 3, bits |-> b - 240, min |-> 65536]
    BY <1>1, <1>5, LeadByte, SMT
  <2>2. l # NoLead /\ l.extra = 3 /\ l.bits = b - 240 /\ l.min = Min4
    BY <2>1, SMT DEF NoLead, Min4
  <2> HIDE DEF l
  <2> DEFINE x == data[i + 2]
             y == data[i + 3]
             z == data[i + 4]
             c == Code4(b, x, y, z)
  <2>3. Row(i, n) <=> n = 4 /\ First4(b, x) /\ y \in Tail1 /\ z \in Tail1
    BY <1>1, <1>5 DEF Row, First4
  <2>4. ~CutOff(l) <=> i + 3 < len
    BY <1>1, <2>2, SMT DEF CutOff
  <2>5. ASSUME i + 3 < len
        PROVE  /\ Complete <=> x \in Tail1 /\ y \in Tail1 /\ z \in Tail1
               /\ x \in Tail1 /\ y \in Tail1 /\ z \in Tail1 => CodePoint(l) = c
    <3>1. /\ Continues(i + 1) <=> x \in Tail1
          /\ x \in Tail1 => At(i + 1) % 64 = x - 128
      BY <1>1, <2>5, TailByte
    <3>2. /\ Continues(i + 2) <=> y \in Tail1
          /\ y \in Tail1 => At(i + 2) % 64 = y - 128
      BY <1>1, <2>5, TailByte
    <3>3. /\ Continues(i + 3) <=> z \in Tail1
          /\ z \in Tail1 => At(i + 3) % 64 = z - 128
      BY <1>1, <2>5, TailByte
    <3>4. Complete <=> Continues(i + 1) /\ Continues(i + 2) /\ Continues(i + 3)
      <4>1. 1..3 = {1, 2, 3}
        OBVIOUS
      <4> QED
        BY <2>2, <2>4, <2>5, <4>1, SMT DEF Complete, l
    <3> QED
      BY <2>2, <3>1, <3>2, <3>3, <3>4, SMT DEF CodePoint, Code4
  <2>6. ASSUME x \in Tail1, y \in Tail1, z \in Tail1 PROVE ~Rejected(l, c) <=> First4(b, x)
    <3> HIDE DEF b, x, y, z
    <3> QED
      BY <1>5, <2>2, <2>6, FourBytes, Zenon
  <2>7. First4(b, x) => x \in Tail1
    BY DEF First4, Tail1
  <2>8. i + 4 <= len <=> i + 3 < len
    BY <1>1
  <2> HIDE DEF x, y, z, c
  <2> QED
    BY <2>2, <2>3, <2>4, <2>5, <2>6, <2>7, <2>8, SMT DEF Fits, Complete, l
<1> QED
  BY <1>1, <1>2, <1>3, <1>4, <1>5 DEF Byte

-----------------------------------------------------------------------------
(* The whole text.                                                         *)

\* The indices the loop has visited are cuts so far.
CutsTo(C, k) ==
  /\ 0 \in C /\ k \in C
  /\ \A j \in C : j = k \/ \E n \in 1..4 : j + n \in C /\ Row(j, n)

\* The text is cut into rows up to the index i, and there is no other way to
\* cut it.
Visited == \E C \in SUBSET (0..i) : CutsTo(C, i)
Forced == \A C \in SUBSET (0..len) : Cuts(C) => i \in C

Verdict ==
  /\ verdict = "running" => Visited /\ Forced
  /\ AcceptsWellFormed

\* The loop passes over one row, the only one that starts at i.
LEMMA Passes ==
  ASSUME TypeOK, Visited, Forced, i < len, NEW m \in 1..4, Fits(m),
         \A n \in 1..4 : Fits(n) => n = m, i' = i + m, data' = data
  PROVE  Visited' /\ Forced'
<1> USE DEF TypeOK
<1>1. len' = len /\ \A k, n : Row(k, n)' <=> Row(k, n)
  BY DEF len, Row
<1>2. Visited'
  <2>1. PICK C \in SUBSET (0..i) : CutsTo(C, i)
    BY DEF Visited
  <2> DEFINE D == C \cup {i + m}
  <2>2. D \in SUBSET (0..i + m) /\ 0 \in D /\ i + m \in D
    BY <2>1 DEF CutsTo
  <2>3. ASSUME NEW j \in D PROVE j = i + m \/ \E n \in 1..4 : j + n \in D /\ Row(j, n)
    <3>1. CASE j = i + m
      BY <3>1
    <3>2. CASE j = i
      BY <3>2 DEF Fits
    <3>3. CASE j \in C /\ j # i
      BY <2>1, <3>3 DEF CutsTo
    <3> QED
      BY <3>1, <3>2, <3>3
  <2>4. \A j \in D : j = i' \/ \E n \in 1..4 : j + n \in D /\ Row(j, n)'
    BY <1>1, <2>3
  <2> HIDE DEF D
  <2>5. D \in SUBSET (0..i') /\ 0 \in D /\ i' \in D
    BY <2>2
  <2> QED
    BY <2>4, <2>5, Zenon DEF Visited, CutsTo
<1>3. Forced'
  <2> SUFFICES ASSUME NEW C \in SUBSET (0..len), Cuts(C) PROVE i + m \in C
    BY <1>1 DEF Forced, Cuts
  <2>1. i \in C /\ i # len
    BY DEF Forced, len
  <2>2. PICK n \in 1..4 : i + n \in C /\ Row(i, n)
    BY <2>1, Zenon DEF Cuts
  <2>3. i + n <= len
    BY <2>2 DEF len
  <2>4. n = m
    BY <2>2, <2>3 DEF Fits
  <2> QED
    BY <2>2, <2>4
<1> QED
  BY <1>2, <1>3

\* No row starts at i: the text is not well-formed.
LEMMA Fails ==
  ASSUME TypeOK, Forced, i < len, \A n \in 1..4 : ~Fits(n)
  PROVE  ~WellFormed
<1> SUFFICES ASSUME NEW C \in SUBSET (0..len), Cuts(C) PROVE FALSE
  BY DEF WellFormed
<1>1. i \in C /\ i # len
  BY DEF Forced, len, TypeOK
<1>2. PICK n \in 1..4 : i + n \in C /\ Row(i, n)
  BY <1>1, Zenon DEF Cuts
<1>3. i + n <= len
  BY <1>2 DEF len, TypeOK
<1> QED
  BY <1>2, <1>3 DEF Fits

LEMMA VerdictStep == TypeOK /\ Inside /\ Verdict /\ [Next]_vars => Verdict'
<1> SUFFICES ASSUME TypeOK, Inside, Verdict, [Next]_vars PROVE Verdict'
  OBVIOUS
<1> DEFINE l == Lead(At(i))
<1>1. ASSUME data' = data PROVE WellFormed' <=> WellFormed
  BY <1>1 DEF WellFormed, Cuts, Row, len
<1>2. ASSUME verdict = "running", data' = data, verdict' = "false", i < len,
             \A n \in 1..4 : ~Fits(n)
      PROVE  Verdict'
  <2>1. ~WellFormed
    BY <1>2, Fails DEF Verdict
  <2> QED
    BY <1>1, <1>2, <2>1 DEF Verdict, AcceptsWellFormed
<1>3. ASSUME verdict = "running", data' = data, verdict' = verdict, i < len,
             NEW m \in 1..4, i' = i + m, Fits(m), \A n \in 1..4 : Fits(n) => n = m
      PROVE  Verdict'
  <2>1. Visited' /\ Forced'
    BY <1>3, Passes DEF Verdict
  <2> QED
    BY <1>3, <2>1 DEF Verdict, AcceptsWellFormed
<1>4. i < len /\ At(i) > 127 =>
        \A n \in 1..4 : Fits(n) <=> /\ l # NoLead /\ n = l.extra + 1
                                    /\ Complete /\ ~Rejected(l, CodePoint(l))
  BY SequenceRow
<1>5. CASE Return
  <2>1. verdict = "running" /\ i = len /\ verdict' = "true" /\ data' = data
    BY <1>5 DEF Return, Inside, TypeOK, len
  <2>2. PICK C \in SUBSET (0..i) : CutsTo(C, i)
    BY <2>1 DEF Verdict, Visited
  <2>3. WellFormed
    BY <2>1, <2>2 DEF WellFormed, Cuts, CutsTo
  <2> QED
    BY <1>1, <2>1, <2>3 DEF Verdict, AcceptsWellFormed
<1>6. CASE Ascii
  <2>1. /\ verdict = "running" /\ i < len /\ At(i) <= 127 /\ i' = i + 1
        /\ data' = data /\ verdict' = verdict
    BY <1>6 DEF Ascii
  <2>2. Fits(1) /\ \A n \in 1..4 : Fits(n) => n = 1
    BY <2>1, AsciiRow
  <2>3. 1 \in 1..4
    OBVIOUS
  <2> QED
    BY <1>3, <2>1, <2>2, <2>3, Zenon
<1>7. CASE BadLead
  <2>1. /\ verdict = "running" /\ i < len /\ At(i) > 127 /\ data' = data
        /\ verdict' = "false" /\ (l = NoLead \/ CutOff(l))
    BY <1>7, Zenon DEF BadLead
  <2>2. \A n \in 1..4 : ~Fits(n)
    BY <1>4, <2>1, Zenon DEF Complete
  <2> QED
    BY <1>2, <2>1, <2>2, Zenon
<1>8. CASE BadContinuation
  <2>1. /\ verdict = "running" /\ i < len /\ At(i) > 127 /\ data' = data
        /\ verdict' = "false" /\ \E k \in 1..l.extra : ~Continues(i + k)
    BY <1>8, Zenon DEF BadContinuation
  <2>2. \A n \in 1..4 : ~Fits(n)
    BY <1>4, <2>1, Zenon DEF Complete
  <2> QED
    BY <1>2, <2>1, <2>2, Zenon
<1>9. CASE Sequence
  <2>1. /\ verdict = "running" /\ i < len /\ At(i) > 127 /\ data' = data
        /\ l # NoLead /\ Complete
        /\ \/ Rejected(l, CodePoint(l)) /\ verdict' = "false"
           \/ /\ ~Rejected(l, CodePoint(l)) /\ verdict' = verdict
              /\ i' = i + l.extra + 1
    BY <1>9, Zenon DEF Sequence, Complete
  <2>2. CASE Rejected(l, CodePoint(l))
    <3>1. \A n \in 1..4 : ~Fits(n)
      BY <1>4, <2>1, <2>2, Zenon
    <3>2. verdict' = "false"
      BY <2>1, <2>2, Zenon
    <3> QED
      BY <1>2, <2>1, <3>1, <3>2, Zenon
  <2>3. CASE ~Rejected(l, CodePoint(l))
    <3> DEFINE m == l.extra + 1
    <3>1. At(i) \in 0..255
      <4>1. i \in Nat /\ At(i) = data[i + 1] /\ data[i + 1] \in Byte
        BY <2>1, TailByte DEF TypeOK
      <4> QED
        BY <4>1 DEF Byte
    <3>2. m \in 1..4 /\ i + l.extra + 1 = i + m
      <4>1. l.extra \in 0..3
        BY <3>1, LeadType
      <4> HIDE DEF l
      <4> QED
        BY <4>1 DEF TypeOK
    <3>3. Fits(m) /\ \A n \in 1..4 : Fits(n) => n = m
      BY <1>4, <2>1, <2>3, <3>2, Zenon
    <3>4. verdict' = verdict /\ i' = i + m
      BY <2>1, <2>3, <3>2, Zenon
    <3> HIDE DEF m
    <3> QED
      BY <1>3, <2>1, <3>2, <3>3, <3>4, Zenon
  <2> QED
    BY <2>2, <2>3
<1>10. CASE UNCHANGED vars
  <2>1. Visited' <=> Visited
    BY <1>10 DEF vars, Visited, CutsTo, Row
  <2>2. Forced' <=> Forced
    BY <1>10 DEF vars, Forced, Cuts, Row, len
  <2> QED
    BY <1>1, <1>10, <2>1, <2>2 DEF vars, Verdict, AcceptsWellFormed
<1> QED
  BY <1>5, <1>6, <1>7, <1>8, <1>9, <1>10, Zenon DEF Next

\* isValidUtf8 accepts exactly the texts that can be cut into rows of the
\* Unicode table, for every text of any length.
THEOREM Validates == Spec => []AcceptsWellFormed
<1>1. Init => Verdict
  <2> SUFFICES ASSUME Init PROVE Verdict
    OBVIOUS
  <2>1. i = 0 /\ verdict = "running"
    BY DEF Init
  <2>2. CutsTo({0}, 0)
    BY DEF CutsTo
  <2>3. Visited
    BY <2>1, <2>2 DEF Visited
  <2>4. Forced
    BY <2>1 DEF Forced, Cuts
  <2> QED
    BY <2>1, <2>3, <2>4 DEF Verdict, AcceptsWellFormed
<1>2. Verdict => AcceptsWellFormed
  BY DEF Verdict
<1> QED
  BY <1>1, <1>2, VerdictStep, InsideInv, PTL DEF Spec
=============================================================================
