-------------------------------- MODULE Codec --------------------------------
(***************************************************************************)
(* codec.hpp: Message::encode with ByteWriter and encodeFrame, and         *)
(* decodeMessage with decodeFrame and ByteReader, read field by field.     *)
(*                                                                         *)
(* A byte is a digit to the base Base and a uint32 is WordLen of them, so  *)
(* that a small instance has every boundary; in the code they are 256 and  *)
(* 4.  The four header bytes before the length keep their meaning as       *)
(* values: magic, version, type and flags.                                 *)
(***************************************************************************)
EXTENDS Integers, Sequences, FiniteSets, Functions

CONSTANTS
  Base,           \* the values a byte can have
  WordLen,        \* bytes of a uint32
  ValidText(_),   \* isValidUtf8
  Cases,          \* the cases to decode, and
  InputsOf(_)     \* the frames of each: their bytes, the message they were made
                  \* from and what was done to it

ASSUME WidthAssumption == Base \in Nat \ {0, 1} /\ WordLen \in Nat \ {0}

\* An input is a sequence, and from the length on its elements are bytes.
ASSUME InputAssumption ==
  \A c \in Cases : \A f \in InputsOf(c) :
    /\ Len(f.bytes) \in Nat
    /\ f.bytes = [i \in 1..Len(f.bytes) |-> f.bytes[i]]
    /\ \A i \in 5..Len(f.bytes) : f.bytes[i] \in 0..Base - 1

MAGIC == "H"
VERSION == 1
HEADER_LEN == 4 + WordLen

\* The numbers that n bytes can hold; Word is 2^32.
Power(n) == LET p[i \in 0..n] == IF i = 0 THEN 1 ELSE p[i - 1] * Base IN p[n]
Word == Power(WordLen)

\* The fields of each kind of message, in the order they are written and read.
Layout ==
  [HELLO             |-> <<"str">>,
   BONJOUR           |-> <<"str">>,
   ECHO_REQUEST      |-> <<"i64", "str", "str">>,
   ECHO_RESPONSE     |-> <<"i32", "results">>,
   KISS_REQUEST      |-> <<"str", "str", "str", "str">>,
   KISS_RESPONSE     |-> <<"str", "str", "str">>,
   PING              |-> <<"i64">>,
   PONG              |-> <<"i64">>,
   TIME_NOTIFICATION |-> <<"i64", "str">>,
   RANDOM_NUMBER     |-> <<"i64", "i64">>,
   HASH_RESPONSE     |-> <<"i64", "str">>,
   DISCONNECT        |-> <<"str">>,
   ERROR             |-> <<"i32", "str">>]
Types == DOMAIN Layout

-----------------------------------------------------------------------------
(* Writing.                                                                *)

\* One writer after the other: the sequences ss in one.
Joined(ss) ==
  IF ss = <<>> THEN <<>>
  ELSE LET upTo[i \in 1..Len(ss)] == IF i = 1 THEN ss[i] ELSE upTo[i - 1] \o ss[i]
       IN  upTo[Len(ss)]

\* The members of a finite set in some order.
Ordered(S) == CHOOSE f \in Bijection(1..Cardinality(S), S) : TRUE

\* writeU32: big-endian.
U32(v) == [i \in 1..WordLen |-> (v \div Power(WordLen - i)) % Base]

\* writeI64, by its two halves; v may be negative.
I64(v) == U32((v \div Word) % Word) \o U32(v % Word)

Str(s) == U32(Len(s)) \o s

\* writeKV.  The order of the entries, here any, makes no difference to a reader.
KV(m) ==
  U32(Cardinality(DOMAIN m)) \o
  Joined([i \in 1..Cardinality(DOMAIN m) |->
    LET k == Ordered(DOMAIN m)[i] IN Str(k) \o Str(m[k])])

Field(kind, v) ==
  CASE kind = "i32" -> U32(v % Word)
    [] kind = "i64" -> I64(v)
    [] kind = "str" -> Str(v)
    [] kind = "results" ->
         U32(Len(v)) \o Joined([i \in 1..Len(v) |->
                          I64(v[i].idx) \o <<v[i].type>> \o KV(v[i].kv)])

encodeFrame(type, payload) ==
  <<MAGIC, VERSION, type, 0>> \o U32(Len(payload)) \o payload

\* A message is its type and the values of its fields.
Payload(m) ==
  Joined([i \in 1..Len(m.fields) |-> Field(Layout[m.type][i], m.fields[i])])
encode(m) == encodeFrame(m.type, Payload(m))

-----------------------------------------------------------------------------
(* What is written: values of the fields' types, in lengths and counts     *)
(* that fit a uint32.                                                      *)

IsText(s) == s \in Seq(0..Base - 1) /\ Len(s) < Word /\ ValidText(s)
IsMap(m) ==
  /\ m = [k \in DOMAIN m |-> m[k]]
  /\ Cardinality(DOMAIN m) \in Nat /\ Cardinality(DOMAIN m) < Word
  /\ ExistsBijection(1..Cardinality(DOMAIN m), DOMAIN m)
  /\ \A k \in DOMAIN m : IsText(k) /\ IsText(m[k])
IsInt(v, n) == v \in Int /\ -Power(n) <= 2 * v /\ 2 * v < Power(n)
IsResult(r) == IsInt(r.idx, 2 * WordLen) /\ r.type \in 0..Base - 1 /\ IsMap(r.kv)
IsList(v) ==
  /\ Len(v) \in Nat /\ v = [i \in 1..Len(v) |-> v[i]]
  /\ Len(v) < Word
  /\ \A i \in 1..Len(v) : IsResult(v[i])
IsValue(kind, v) ==
  CASE kind = "i32" -> IsInt(v, WordLen)
    [] kind = "i64" -> IsInt(v, 2 * WordLen)
    [] kind = "str" -> IsText(v)
    [] kind = "results" -> IsList(v)
IsMessage(m) ==
  /\ m.type \in Types
  /\ Len(m.fields) = Len(Layout[m.type])
  /\ m.fields = [i \in 1..Len(m.fields) |-> m.fields[i]]
  /\ \A i \in 1..Len(m.fields) : IsValue(Layout[m.type][i], m.fields[i])

\* A frame that is not raw is that of a message, complete ("none"), with bytes
\* missing at its end ("cut") or with more bytes after it ("extended").
Made(f) ==
  LET p == SubSeq(f.bytes, HEADER_LEN + 1, Len(f.bytes))
      q == Payload(f.msg)
  IN  \/ f.done = "raw"
      \/ /\ IsMessage(f.msg)
         /\ f.bytes = encodeFrame(f.msg.type, p) /\ Len(p) < Word
         /\ \/ f.done = "cut" /\ Len(p) < Len(q) /\ p = SubSeq(q, 1, Len(p))
            \/ /\ f.done \in {"none", "extended"}
               /\ Len(p) >= Len(q) /\ q = SubSeq(p, 1, Len(q))
ASSUME MadeAssumption == \A c \in Cases : \A f \in InputsOf(c) : Made(f)

-----------------------------------------------------------------------------
(* Reading.                                                                *)

VARIABLES
  input,    \* the frame
  pos,      \* pos_ of the ByteReader
  todo,     \* the fields that are still to be read
  out,      \* the values read so far
  key,      \* the key of the map entry that is being read
  verdict   \* "start", "reading", "ok", or the exception that was thrown

vars == <<input, pos, todo, out, key, verdict>>

Errors == {"short", "magic", "version", "length", "unknown",
           "end", "string", "utf8", "count"}
Kinds == {"i32", "i64", "u8", "str", "kv", "key", "val", "results"}

payload == SubSeq(input.bytes, HEADER_LEN + 1, Len(input.bytes))
len == Len(input.bytes) - HEADER_LEN
remaining == len - pos

TypeOK ==
  /\ pos \in Nat
  /\ todo \in Seq(Kinds)
  /\ verdict \in {"start", "reading", "ok"} \cup Errors

\* The number that bytes stand for, and the one of the n bytes from p on.
Number(s) ==
  LET v[i \in 0..Len(s)] == IF i = 0 THEN 0 ELSE v[i - 1] * Base + s[i]
  IN v[Len(s)]
Value(p, n) == Number(SubSeq(payload, p + 1, p + n))
payloadLen == Number(SubSeq(input.bytes, 5, HEADER_LEN))

\* A conversion to a signed type of m values.
Signed(u, m) == IF 2 * u >= m THEN u - m ELSE u

Init ==
  /\ \E c \in Cases : input \in InputsOf(c)
  /\ pos = 0 /\ todo = <<>> /\ out = <<>> /\ key = <<>>
  /\ verdict = "start"

Throw(e) == verdict' = e /\ UNCHANGED <<pos, todo, out, key>>

\* decodeFrame, and the choice of the message type by decodeMessage.
HeaderError ==
  LET b == input.bytes IN
  IF Len(b) < HEADER_LEN THEN "short"
  ELSE IF b[1] # MAGIC THEN "magic"
  ELSE IF b[2] # VERSION THEN "version"
  ELSE IF payloadLen # len THEN "length"
  ELSE IF b[3] \notin Types THEN "unknown"
  ELSE "none"

decodeFrame ==
  /\ verdict = "start"
  /\ \/ HeaderError # "none" /\ Throw(HeaderError)
     \/ /\ HeaderError = "none"
        /\ todo' = Layout[input.bytes[3]]
        /\ verdict' = "reading"
        /\ UNCHANGED <<pos, out, key>>
  /\ UNCHANGED input

\* The reader is at a field of one of these kinds.
At(kinds) == verdict = "reading" /\ todo # <<>> /\ Head(todo) \in kinds

\* n bytes are consumed for the field, which gives the value v.
Got(n, v) ==
  /\ pos' = pos + n
  /\ out' = Append(out, v)
  /\ todo' = Tail(todo)
  /\ UNCHANGED <<key, verdict>>

Width(kind) ==
  CASE kind = "u8" -> 1 [] kind = "i64" -> 2 * WordLen [] OTHER -> WordLen

\* Mutation: an int64 is read as if it were unsigned.
readIntUnsigned ==
  /\ At({"u8", "i32", "i64"})
  /\ LET n == Width(Head(todo)) IN
     \/ remaining < n /\ Throw("end")
     \/ remaining >= n /\ Got(n, Value(pos, n))
  /\ UNCHANGED input

\* Mutation: readI64 checks its first half only; the second may be anything.
readIntHalf ==
  /\ At({"u8", "i32", "i64"})
  /\ LET n == Width(Head(todo))
         checked == IF n = 1 THEN 1 ELSE WordLen IN
     \/ remaining < checked /\ Throw("end")
     \/ remaining >= checked /\ Got(n, IF remaining < n THEN 0 ELSE Value(pos, n))
  /\ UNCHANGED input

\* readU8, readI32 and readI64.
readInt ==
  /\ At({"u8", "i32", "i64"})
  /\ LET n == Width(Head(todo))
         u == Value(pos, n) IN
     \/ remaining < n /\ Throw("end")
     \/ /\ remaining >= n
        /\ Got(n, IF Head(todo) = "u8" THEN u ELSE Signed(u, Power(n)))
  /\ UNCHANGED input

\* The value s of a string is used: a field, the key of a map entry, or its
\* value, which replaces an earlier one of the same key.
Use(n, s) ==
  \/ Head(todo) = "str" /\ Got(n, s)
  \/ /\ Head(todo) = "key"
     /\ key' = s
     /\ pos' = pos + n /\ todo' = Tail(todo)
     /\ UNCHANGED <<out, verdict>>
  \/ /\ Head(todo) = "val"
     /\ out' = [out EXCEPT ![Len(out)] =
                  [k \in DOMAIN @ \cup {key} |-> IF k = key THEN s ELSE @[k]]]
     /\ pos' = pos + n /\ todo' = Tail(todo)
     /\ UNCHANGED <<key, verdict>>

readString ==
  /\ At({"str", "key", "val"})
  /\ \/ remaining < WordLen /\ Throw("end")
     \/ /\ remaining >= WordLen
        /\ LET n == Value(pos, WordLen)
               s == SubSeq(payload, pos + WordLen + 1, pos + WordLen + n) IN
           \/ n > remaining - WordLen /\ Throw("string")
           \/ n <= remaining - WordLen /\ ~ValidText(s) /\ Throw("utf8")
           \/ n <= remaining - WordLen /\ ValidText(s) /\ Use(WordLen + n, s)
  /\ UNCHANGED input

\* n copies of the fields s.
Times(n, s) == [i \in 1..n * Len(s) |-> s[((i - 1) % Len(s)) + 1]]

\* Mutation: the count of a map is not checked.
readKVUnchecked ==
  /\ At({"kv"})
  /\ \/ remaining < WordLen /\ Throw("end")
     \/ /\ remaining >= WordLen
        /\ pos' = pos + WordLen
        /\ out' = Append(out, <<>>)
        /\ todo' = Times(Value(pos, WordLen), <<"key", "val">>) \o Tail(todo)
        /\ UNCHANGED <<key, verdict>>
  /\ UNCHANGED input

\* readKV: the count is held against what remains after it.
readKV ==
  /\ At({"kv"})
  /\ \/ remaining < WordLen /\ Throw("end")
     \/ /\ remaining >= WordLen
        /\ LET n == Value(pos, WordLen)
               fits == n <= (remaining - WordLen) \div (2 * WordLen) IN
           \/ ~fits /\ Throw("count")
           \/ /\ fits
              /\ pos' = pos + WordLen
              /\ out' = Append(out, <<>>)
              /\ todo' = Times(n, <<"key", "val">>) \o Tail(todo)
              /\ UNCHANGED <<key, verdict>>
  /\ UNCHANGED input

\* Mutation: the type of a result is read with two bytes.
readResultsU16 ==
  /\ At({"results"})
  /\ \/ remaining < WordLen /\ Throw("end")
     \/ /\ remaining >= WordLen
        /\ LET n == Value(pos, WordLen)
               fits == n <= (remaining - WordLen) \div (3 * WordLen + 1) IN
           \/ ~fits /\ Throw("count")
           \/ /\ fits
              /\ pos' = pos + WordLen
              /\ todo' = Times(n, <<"i64", "u16", "kv">>) \o Tail(todo)
              /\ UNCHANGED <<out, key, verdict>>
  /\ UNCHANGED input

\* The results of ECHO_RESPONSE.
readResults ==
  /\ At({"results"})
  /\ \/ remaining < WordLen /\ Throw("end")
     \/ /\ remaining >= WordLen
        /\ LET n == Value(pos, WordLen)
               fits == n <= (remaining - WordLen) \div (3 * WordLen + 1) IN
           \/ ~fits /\ Throw("count")
           \/ /\ fits
              /\ pos' = pos + WordLen
              /\ todo' = Times(n, <<"i64", "u8", "kv">>) \o Tail(todo)
              /\ UNCHANGED <<out, key, verdict>>
  /\ UNCHANGED input

\* decodeMessage returns; what follows the last field is not looked at.
Return ==
  /\ verdict = "reading" /\ todo = <<>>
  /\ verdict' = "ok"
  /\ UNCHANGED <<input, pos, todo, out, key>>

Next == decodeFrame \/ readInt \/ readString \/ readKV \/ readResults \/ Return

Spec == Init /\ [][Next]_vars

-----------------------------------------------------------------------------
(* Properties.                                                             *)

Done == verdict \notin {"start", "reading"}

\* The reader never goes beyond the payload, on whatever bytes arrive.
InBounds == verdict \notin {"start", "short"} => pos \in 0..len

\* A count is accepted only if its elements may still follow, so that the work it
\* announces is never more than what has arrived.
CountsFit == [][Len(todo') > Len(todo) /\ verdict = "reading"
                  => Len(todo') - Len(todo) < remaining']_vars

\* The values the reader should find in the message m.
Values(m) ==
  IF m.type # "ECHO_RESPONSE" THEN m.fields
  ELSE <<m.fields[1]>> \o Joined([i \in 1..Len(m.fields[2]) |->
         LET r == m.fields[2][i] IN <<r.idx, r.type, r.kv>>])

\* What decodeMessage returns for an encoded message is that message, with its
\* negative numbers, empty strings, maps and lists. Bytes behind its last field
\* that the header counts as payload are ignored ("extended"): decodeMessage refuses
\* only bytes behind the frame. A message from which bytes are missing at the
\* end is refused, even when its header was made to agree.
RoundTrip ==
  Done => CASE input.done = "raw" -> TRUE
            [] input.done = "cut" -> verdict \in Errors
            [] OTHER -> verdict = "ok" /\ out = Values(input.msg)
=============================================================================
