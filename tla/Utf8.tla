-------------------------------- MODULE Utf8 ---------------------------------
(***************************************************************************)
(* isValidUtf8 of codec.hpp, one iteration of its outer loop at a time.    *)
(* The masks of the code are written with \div and %, which is the same    *)
(* for a byte: (b & 0xE0) == 0xC0 is b \div 32 = 6, b & 0x3F is b % 64.    *)
(***************************************************************************)
EXTENDS Integers, Sequences

CONSTANTS
  Bytes,    \* the bytes that texts are made of
  MaxLen    \* bound: how long a text is

Byte == 0..255

ASSUME ByteAssumption == Bytes \subseteq Byte /\ MaxLen \in Nat

VARIABLES
  data,     \* the text
  i,        \* the index of the next byte, from 0 as in the code
  high,     \* one more than the highest index that was read
  verdict   \* "running", "true" or "false"

vars == <<data, i, high, verdict>>

len == Len(data)

TypeOK ==
  /\ data \in Seq(Byte)
  /\ i \in Nat /\ high \in Nat
  /\ verdict \in {"running", "true", "false"}

Init ==
  /\ \E n \in 0..MaxLen : data \in [1..n -> Bytes]
  /\ i = 0 /\ high = 0 /\ verdict = "running"

\* data[k] of the code; what lies beyond the text could be anything, and is taken
\* to be a byte that continues a sequence.
At(k) == IF k < len THEN data[k + 1] ELSE 128

\* What the leading byte b announces: how many bytes follow, its own bits, and
\* the smallest code point that needs so many bytes.
NoLead == [extra |-> 0, bits |-> 0, min |-> 0]
Lead(b) ==
  CASE b \div 32 = 6  -> [extra |-> 1, bits |-> b % 32, min |-> 128]
    [] b \div 16 = 14 -> [extra |-> 2, bits |-> b % 16, min |-> 2048]
    [] b \div 8 = 30  -> [extra |-> 3, bits |-> b % 8,  min |-> 65536]
    [] OTHER          -> NoLead

Continues(k) == At(k) \div 64 = 2

\* The code point of a sequence of 1 + extra bytes.
CodePoint(l) ==
  LET c1 == l.bits * 64 + (At(i + 1) % 64)
      c2 == c1 * 64 + (At(i + 2) % 64)
      c3 == c2 * 64 + (At(i + 3) % 64)
  IN  CASE l.extra = 1 -> c1 [] l.extra = 2 -> c2 [] l.extra = 3 -> c3

\* Mutation: overlong forms are accepted.
RejectedNotShort(l, c) == c > 1114111 \/ c \in 55296..57343

\* Overlong, beyond U+10FFFF, or a surrogate.
Rejected(l, c) == c < l.min \/ c > 1114111 \/ c \in 55296..57343

\* The end of the loop.
Return ==
  /\ verdict = "running" /\ i >= len
  /\ verdict' = "true"
  /\ UNCHANGED <<data, i, high>>

Ascii ==
  /\ verdict = "running" /\ i < len /\ At(i) <= 127
  /\ i' = i + 1
  /\ high' = i + 1
  /\ UNCHANGED <<data, verdict>>

\* Mutation: a sequence that is one byte short counts as complete.
CutOffLate(l) == i + l.extra > len

\* The sequence is cut off by the end of the text.
CutOff(l) == i + l.extra >= len

\* A byte that leads nothing, or a sequence that is cut off.
BadLead ==
  /\ verdict = "running" /\ i < len /\ At(i) > 127
  /\ Lead(At(i)) = NoLead \/ CutOff(Lead(At(i)))
  /\ verdict' = "false"
  /\ high' = i + 1
  /\ UNCHANGED <<data, i>>

\* The bytes that follow: the first one that is no continuation ends the loop.
BadContinuation ==
  /\ verdict = "running" /\ i < len /\ At(i) > 127
  /\ LET l == Lead(At(i)) IN
     /\ l # NoLead /\ ~CutOff(l)
     /\ \E k \in 1..l.extra :
          /\ \A m \in 1..k - 1 : Continues(i + m)
          /\ ~Continues(i + k)
          /\ high' = i + k + 1
  /\ verdict' = "false"
  /\ UNCHANGED <<data, i>>

\* A complete sequence.
Sequence ==
  /\ verdict = "running" /\ i < len /\ At(i) > 127
  /\ LET l == Lead(At(i)) IN
     /\ l # NoLead /\ ~CutOff(l)
     /\ \A k \in 1..l.extra : Continues(i + k)
     /\ high' = i + l.extra + 1
     /\ \/ Rejected(l, CodePoint(l)) /\ verdict' = "false" /\ UNCHANGED i
        \/ ~Rejected(l, CodePoint(l)) /\ i' = i + l.extra + 1 /\ UNCHANGED verdict
  /\ UNCHANGED data

Next == Return \/ Ascii \/ BadLead \/ BadContinuation \/ Sequence

Spec == Init /\ [][Next]_vars

-----------------------------------------------------------------------------
(* Properties.                                                             *)

\* isValidUtf8 reads no byte beyond the text, wherever a sequence is cut off.
NoOverread == high <= len

\* The n bytes from index k on are a row of the table of well-formed byte
\* sequences of the Unicode standard (table 3-7).
Tail1 == 128..191
Row(k, n) ==
  LET b(j) == data[k + j] IN
  \/ n = 1 /\ b(1) \in 0..127
  \/ n = 2 /\ b(1) \in 194..223 /\ b(2) \in Tail1
  \/ n = 3 /\ \/ b(1) = 224 /\ b(2) \in 160..191
              \/ b(1) \in 225..236 \cup 238..239 /\ b(2) \in Tail1
              \/ b(1) = 237 /\ b(2) \in 128..159
           /\ b(3) \in Tail1
  \/ n = 4 /\ \/ b(1) = 240 /\ b(2) \in 144..191
              \/ b(1) \in 241..243 /\ b(2) \in Tail1
              \/ b(1) = 244 /\ b(2) \in 128..143
           /\ b(3) \in Tail1 /\ b(4) \in Tail1

\* The indices C cut the text into rows: from each of them a row leads to
\* another one, up to the end.
Cuts(C) ==
  0 \in C /\ \A k \in C : k = len \/ \E n \in 1..4 : k + n \in C /\ Row(k, n)

WellFormed == \E C \in SUBSET (0..len) : Cuts(C)

\* isValidUtf8 accepts exactly the well-formed texts: no overlong form, no
\* surrogate, nothing above U+10FFFF, nothing cut off.
AcceptsWellFormed == verdict # "running" => (verdict = "true" <=> WellFormed)
=============================================================================
