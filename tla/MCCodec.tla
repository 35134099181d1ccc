------------------------------- MODULE MCCodec -------------------------------
(* Instances of Codec for TLC.                                             *)
EXTENDS Codec

\* The largest digit stands for a byte that no text contains.
PlainText(s) == \A i \in 1..Len(s) : s[i] # Base - 1

-----------------------------------------------------------------------------
(* Messages, encoded, then cut or extended.                                *)

Texts == {<<>>, <<0>>, <<1, 0>>}
Int64s == {-((Word * Word) \div 2), -1, 0, 1, (Word * Word) \div 2 - 1}
Int32s == {-(Word \div 2), -1, 0, Word \div 2 - 1}
Maps == {<<>>, [k \in {<<>>} |-> <<1, 0>>],
         [k \in {<<0>>, <<1, 0>>} |-> IF k = <<0>> THEN <<>> ELSE k]}
Result == [idx: {-1, 1}, type: {0, 1}, kv: Maps]
ResultLists == {<<>>} \cup {<<r>> : r \in Result}
                      \cup {<<r, s>> : r, s \in [idx: {1}, type: {1}, kv: Maps]}

FieldValues(kind) ==
  CASE kind = "i32" -> Int32s [] kind = "i64" -> Int64s
    [] kind = "str" -> Texts [] kind = "results" -> ResultLists
ListsOf(l) ==
  CASE Len(l) = 1 -> {<<a>> : a \in FieldValues(l[1])}
    [] Len(l) = 2 -> {<<a, b>> : a \in FieldValues(l[1]), b \in FieldValues(l[2])}
    [] Len(l) = 3 -> {<<a, b, c>> : a \in FieldValues(l[1]), b \in FieldValues(l[2]),
                                    c \in FieldValues(l[3])}
    [] Len(l) = 4 -> {<<a, b, c, d>> : a, b, c, d \in Texts}
AllMessages == UNION {{[type |-> t, fields |-> f] : f \in ListsOf(Layout[t])} : t \in Types}

Encoded(m) ==
  LET p == Payload(m) IN
  {[bytes |-> encode(m), msg |-> m, done |-> "none"]} \cup
  {[bytes |-> encodeFrame(m.type, SubSeq(p, 1, k)), msg |-> m, done |-> "cut"] :
     k \in 0..Len(p) - 1} \cup
  {[bytes |-> encodeFrame(m.type, p \o <<b>>), msg |-> m, done |-> "extended"] :
     b \in {0, Base - 1}}

-----------------------------------------------------------------------------
(* Arbitrary frames.                                                       *)

Bytes == {0, 1, Base - 1}
Payloads(t) ==
  IF t = "ECHO_RESPONSE" THEN UNION {{<<0, 0>> \o p : p \in [1..n -> Bytes]} : n \in 0..9}
  ELSE UNION {[1..n -> Bytes] : n \in 0..6}
Raw(c, b) == [bytes |-> b, msg |-> c, done |-> "raw"]
WellFramed(c) == {Raw(c, encodeFrame(c.type, p)) : p \in Payloads(c.type)}
Misframed(c) ==
  {Raw(c, SubSeq(encodeFrame(c.type, <<>>), 1, n)) : n \in 0..HEADER_LEN - 1} \cup
  {Raw(c, <<g, v, u, f>> \o U32(n) \o <<0, 0>>) :
     g \in {MAGIC, "?"}, v \in {0, VERSION}, u \in {c.type, "unregistered"},
     f \in {0, 1}, n \in 1..3}

\* A case is a message, or a type without values for its arbitrary frames.
AllCases == AllMessages \cup {[type |-> t, fields |-> <<>>] : t \in Types}
AllInputs(c) ==
  IF c.fields = <<>> THEN WellFramed(c) \cup Misframed(c) ELSE Encoded(c)
=============================================================================
