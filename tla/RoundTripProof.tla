-------------------------- MODULE RoundTripProof --------------------------
(***************************************************************************)
(* What encodeMessage wrote decodeMessage reads back: the message itself   *)
(* when the frame is complete, nothing when it was cut; for every message, *)
(* every width of a byte and of a word.                                    *)
(***************************************************************************)
EXTENDS CodecProof

-----------------------------------------------------------------------------
(* Where the reader of a message is.                                       *)

\* The fields ks with the values vs are still to be read.
FieldsAt(ks, vs) ==
  /\ Fits(ks, vs) /\ todo = ks /\ Left(Plain(ks, vs))
  /\ out \in Seq(Vals) /\ out \o vs = Values(input.msg)

\* The entries of the map m are known for the keys D and still to be read for es.
MapRest(D, es, m) ==
  /\ IsMap(m) /\ D \subseteq DOMAIN m /\ es \in Seq(DOMAIN m)
  /\ \A k \in DOMAIN m : k \in D \/ \E i \in 1..Len(es) : es[i] = k
MapOf(D, m) == [k \in D |-> m[k]]
Pair == <<"key", "val">>

\* The reader is in the map m, at a key: after the values front, before the fields ks.
MapAt(D, es, m, front, ks, vs) ==
  /\ MapRest(D, es, m) /\ Fits(ks, vs) /\ front \in Seq(Vals)
  /\ front \o (<<m>> \o vs) = Values(input.msg)
  /\ todo = Times(Len(es), Pair) \o ks /\ out = Append(front, MapOf(D, m))
  /\ Left(Entries(es, m) \o Plain(ks, vs))

\* The same, at the value of the key e.
ValAt(D, e, es, m, front, ks, vs) ==
  /\ MapRest(D \cup {e}, es, m) /\ Fits(ks, vs) /\ front \in Seq(Vals)
  /\ front \o (<<m>> \o vs) = Values(input.msg)
  /\ todo = <<"val">> \o (Times(Len(es), Pair) \o ks) /\ out = Append(front, MapOf(D, m))
  /\ key = e
  /\ Left(Str(m[e]) \o (Entries(es, m) \o Plain(ks, vs)))

\* The reader is at the status u of an ECHO_RESPONSE, or at its list v.
HeadAt(u, v) ==
  /\ input.msg.type = "ECHO_RESPONSE" /\ input.msg.fields[1] = u /\ input.msg.fields[2] = v
  /\ todo = <<"i32", "results">> /\ out = <<>>
  /\ Left(Part("i32", u) \o (U32(Len(v)) \o Rows(v)))
ListAt(u, v) ==
  /\ input.msg.type = "ECHO_RESPONSE" /\ input.msg.fields[1] = u /\ input.msg.fields[2] = v
  /\ todo = <<"results">> /\ out = <<u>>
  /\ Left(U32(Len(v)) \o Rows(v))

Stage ==
  \/ \E ks, vs : FieldsAt(ks, vs)
  \/ \E D, es, m, front, ks, vs : MapAt(D, es, m, front, ks, vs)
  \/ \E D, e, es, m, front, ks, vs : ValAt(D, e, es, m, front, ks, vs)
  \/ \E u, v : HeadAt(u, v)
  \/ \E u, v : ListAt(u, v)

\* What one step of the reader leads to.
Result ==
  \/ verdict' = "reading" /\ Stage'
  \/ verdict' \in Errors /\ Short
  \/ verdict' = "ok" /\ ~Short /\ out' = Values(input.msg)

LEMMA AppendCons ==
  ASSUME NEW S, NEW a \in Seq(S), NEW x \in S, NEW b \in Seq(S)
  PROVE  Append(a, x) \in Seq(S) /\ Same(Append(a, x) \o b, a \o (<<x>> \o b))
<1> DEFINE c == <<x>> \o b
<1>1. c \in Seq(S) /\ c # <<>> /\ Head(c) = x /\ Tail(c) = b
  BY ConsOne, Zenon
<1> HIDE DEF c
<1>2. Append(a, Head(c)) \in Seq(S) /\ Same(Append(a, Head(c)) \o Tail(c), a \o c)
  BY <1>1, MoveOne, Zenon
<1> QED
  BY <1>1, <1>2, Zenon DEF c, Same

LEMMA ReplaceLast ==
  ASSUME NEW S, NEW a \in Seq(S), NEW x \in S, NEW y \in S
  PROVE  /\ Same(Append(a, x)[Len(Append(a, x))], x)
         /\ Same([Append(a, x) EXCEPT ![Len(Append(a, x))] = y], Append(a, y))
<1> DEFINE n == Len(a)
           s == Append(a, x)
           t == Append(a, y)
           r == [s EXCEPT ![n + 1] = y]
<1>1. /\ n \in Nat /\ s \in Seq(S) /\ Len(s) = n + 1 /\ s[n + 1] = x
      /\ \A i \in 1..n : s[i] = a[i]
  OBVIOUS
<1>2. /\ t \in Seq(S) /\ Len(t) = n + 1 /\ t[n + 1] = y /\ \A i \in 1..n : t[i] = a[i]
  OBVIOUS
<1> HIDE DEF s, t, n
<1>3. /\ r \in Seq(S) /\ Len(r) = n + 1 /\ r[n + 1] = y
      /\ \A i \in 1..n : r[i] = s[i]
  BY <1>1
<1> HIDE DEF r
<1>4. ASSUME NEW i \in 1..n + 1 PROVE r[i] = t[i]
  <2>1. i = n + 1 \/ i \in 1..n
    BY <1>1
  <2> QED
    BY <1>1, <1>2, <1>3, <2>1, Zenon
<1>5. r = t
  BY <1>2, <1>3, <1>4, SeqEqual, Zenon
<1>6. [s EXCEPT ![Len(s)] = y] = t
  BY <1>1, <1>5, Zenon DEF r
<1> QED
  BY <1>1, <1>6, Zenon DEF s, t, Same

LEMMA MapOfType ==
  ASSUME NEW m, IsMap(m), NEW D \in SUBSET DOMAIN m
  PROVE  MapOf(D, m) \in Vals /\ (D = DOMAIN m => MapOf(D, m) = m)
<1>1. \A k \in DOMAIN m : k \in Seq(Bytes) /\ m[k] \in Seq(Bytes)
  BY Zenon DEF IsMap, IsText, Bytes
<1>2. MapOf(D, m) \in [D -> Seq(Bytes)] /\ D \in SUBSET Seq(Bytes)
  BY <1>1, Zenon DEF MapOf
<1>3. MapOf(D, m) \in UNION {[E -> Seq(Bytes)] : E \in SUBSET Seq(Bytes)}
  BY <1>2, Zenon
<1>4. D = DOMAIN m => MapOf(D, m) = m
  BY Zenon DEF MapOf, IsMap
<1> QED
  BY <1>3, <1>4, Zenon DEF Vals

LEMMA MapOfNone == ASSUME NEW m PROVE MapOf({}, m) = <<>>
BY DEF MapOf

LEMMA MapOfNext ==
  ASSUME NEW m, NEW D, NEW e
  PROVE  LET g == MapOf(D, m) IN
         [k \in DOMAIN g \cup {e} |-> IF k = e THEN m[e] ELSE g[k]] = MapOf(D \cup {e}, m)
<1> DEFINE g == MapOf(D, m)
<1>1. DOMAIN g = D /\ \A k \in D : g[k] = m[k]
  BY Zenon DEF MapOf
<1> HIDE DEF g
<1>2. \A k \in D \cup {e} : (IF k = e THEN m[e] ELSE g[k]) = m[k]
  BY <1>1, Zenon
<1>3. [k \in DOMAIN g \cup {e} |-> IF k = e THEN m[e] ELSE g[k]] = [k \in D \cup {e} |-> m[k]]
  BY <1>1, <1>2, Zenon
<1> QED
  BY <1>3, Zenon DEF MapOf, g

LEMMA MapRestNext ==
  ASSUME NEW D, NEW es, NEW m, MapRest(D, es, m), Len(es) > 0
  PROVE  Head(es) \in DOMAIN m /\ MapRest(D \cup {Head(es)}, Tail(es), m)
<1> DEFINE n == Len(es)
           e == Head(es)
           fs == Tail(es)
<1>0. IsMap(m) /\ D \subseteq DOMAIN m /\ es \in Seq(DOMAIN m)
      /\ \A k \in DOMAIN m : k \in D \/ \E i \in 1..n : es[i] = k
  BY Zenon DEF MapRest
<1>1. n \in Nat \ {0} /\ es # <<>> /\ e = es[1]
  BY <1>0
<1>2. e \in DOMAIN m /\ fs \in Seq(DOMAIN m) /\ Len(fs) = n - 1
      /\ \A i \in 1..n - 1 : fs[i] = es[i + 1]
  BY <1>0, <1>1, SeqHeadTail, Zenon
<1> HIDE DEF e, fs, n
<1>3. ASSUME NEW k \in DOMAIN m, k \notin D, k # e PROVE \E i \in 1..Len(fs) : fs[i] = k
  <2>1. PICK i \in 1..n : es[i] = k
    BY <1>0, <1>3, Zenon
  <2>2. i # 1
    BY <1>1, <1>3, <2>1, Zenon
  <2> DEFINE j == i - 1
  <2>3. j \in 1..n - 1 /\ j + 1 = i
    BY <1>1, <2>2
  <2> HIDE DEF j
  <2>4. fs[j] = k /\ j \in 1..Len(fs)
    BY <1>2, <2>1, <2>3, Zenon
  <2> QED
    BY <2>4, Zenon
<1>4. \A k \in DOMAIN m : k \in D \cup {e} \/ \E i \in 1..Len(fs) : fs[i] = k
  BY <1>3, Zenon
<1>5. D \cup {e} \subseteq DOMAIN m
  BY <1>0, <1>2, Zenon
<1> QED
  BY <1>0, <1>2, <1>4, <1>5, Zenon DEF MapRest, e, fs

\* The action of the reader is the one for the field it is at.
LEMMA Which ==
  ASSUME verdict = "reading", Next
  PROVE  /\ input' = input
         /\ \/ readInt /\ todo # <<>> /\ Head(todo) \in {"u8", "i32", "i64"}
            \/ readString /\ todo # <<>> /\ Head(todo) \in {"str", "key", "val"}
            \/ readKV /\ todo # <<>> /\ Head(todo) \in {"kv"}
            \/ readResults /\ todo # <<>> /\ Head(todo) \in {"results"}
            \/ Return /\ todo = <<>>
<1>1. ~decodeFrame
  BY Zenon DEF decodeFrame
<1> QED
  BY <1>1, Zenon DEF Next, readInt, readString, readKV, readResults, Return, At

LEMMA FitsKinds ==
  ASSUME NEW ks, NEW vs, Fits(ks, vs) PROVE ks \in Seq(Kinds) /\ vs \in Seq(Vals)
<1>1. Simple \subseteq Kinds /\ ks \in Seq(Simple) /\ vs \in Seq(Vals)
  BY DEF Simple, Kinds, Fits
<1>2. ks \in Seq(Kinds)
  BY <1>1
<1> QED
  BY <1>1, <1>2, Zenon

\* One field has been read.
LEMMA FieldsNext ==
  ASSUME NEW ks, NEW vs, FieldsAt(ks, vs), Len(vs) > 0, input' = input,
         todo' = Tail(todo), out' = Append(out, Head(vs)),
         Left(Plain(Tail(ks), Tail(vs)))'
  PROVE  Stage'
<1> DEFINE ls == Tail(ks)
           us == Tail(vs)
<1>1. Fits(ls, us)
  BY PlainHead, Zenon DEF FieldsAt
<1>2. out \in Seq(Vals) /\ vs \in Seq(Vals) /\ out \o vs = Values(input.msg) /\ todo = ks
  BY Zenon DEF FieldsAt, Fits
<1>3. vs # <<>>
  BY <1>2
<1>4. Append(out, Head(vs)) \in Seq(Vals) /\ Same(Append(out, Head(vs)) \o us, out \o vs)
  BY <1>2, <1>3, MoveOne, Zenon
<1>5. Values(input.msg)' = Values(input.msg)
  BY Zenon
<1>6. out' \in Seq(Vals) /\ out' \o us = Values(input.msg)' /\ todo' = ls
  BY <1>2, <1>4, <1>5, Zenon DEF Same
<1> HIDE DEF ls, us
<1>7. Left(Plain(ls, us))'
  BY Zenon DEF ls, us
<1>8. FieldsAt(ls, us)'
  BY <1>1, <1>6, <1>7, Zenon DEF FieldsAt
<1> QED
  BY <1>8, Zenon DEF Stage

\* The last field has been read: all of the message has arrived.
LEMMA FieldsEnd ==
  ASSUME IInv, verdict = "reading", NEW ks, NEW vs, FieldsAt(ks, vs), Len(vs) = 0
  PROVE  todo = <<>> /\ ~Short /\ out = Values(input.msg)
<1>1. Fits(ks, vs) /\ todo = ks /\ Left(Plain(ks, vs)) /\ out \in Seq(Vals)
      /\ out \o vs = Values(input.msg)
  BY Zenon DEF FieldsAt
<1>2. Plain(ks, vs) = <<>>
  BY <1>1, PlainType, Zenon
<1>3. pos + Len(<<>>) = Whole
  BY <1>1, <1>2, Zenon DEF Left
<1>4. pos \in Nat /\ len \in Nat /\ pos <= len
  BY Reading
<1>5. ~Short
  BY <1>3, <1>4 DEF Short
<1>6. ks \in Seq(Kinds) /\ Len(ks) = 0 /\ vs \in Seq(Vals)
  BY <1>1, FitsKinds, Zenon DEF Fits
<1>7. ks = <<>> /\ vs = <<>>
  BY <1>6
<1>8. out \o <<>> = out
  <2> DEFINE V == Vals
  <2>1. out \in Seq(V)
    BY <1>1, Zenon
  <2> HIDE DEF V
  <2> QED
    BY <2>1
<1> QED
  BY <1>1, <1>5, <1>7, <1>8, Zenon

\* readKV: the reader has the number of entries, which is not refused if they have
\* all arrived.
LEMMA FieldsMap ==
  ASSUME IInv, verdict = "reading", readKV, input' = input,
         NEW ks, NEW vs, FieldsAt(ks, vs), Len(vs) > 0, Head(ks) = "kv"
  PROVE  Result
<1> DEFINE m == Head(vs)
           ls == Tail(ks)
           us == Tail(vs)
           es == Ordered(DOMAIN m)
           n == Len(es)
           a == U32(n)
           c == Entries(es, m)
           d == Plain(ls, us)
           w == 2 * WordLen
<1>1. Fits(ks, vs) /\ todo = ks /\ Left(Plain(ks, vs)) /\ out \in Seq(Vals)
      /\ out \o vs = Values(input.msg)
  BY Zenon DEF FieldsAt
<1>2. /\ Holds("kv", m) /\ Fits(ls, us) /\ Plain(ks, vs) = Part("kv", m) \o d
  BY <1>1, PlainHead, Zenon
<1>3. IsMap(m) /\ Part("kv", m) = KV(m)
  BY <1>2 DEF Holds, Part
<1>4. /\ es \in Seq(DOMAIN m) /\ n \in Nat /\ n < Word
      /\ \A k \in DOMAIN m : \E i \in 1..n : es[i] = k
      /\ KV(m) = a \o c /\ a \in Seq(Bytes) /\ Len(a) = WordLen
  BY <1>3, KVType, Zenon
<1>5. c \in Seq(Bytes) /\ Len(c) >= n * w
  BY <1>3, <1>4, EntriesType, Zenon
<1>6. d \in Seq(Bytes)
  BY <1>2, PlainType, Zenon
<1>7. w \in Nat \ {0}
  BY WidthAssumption
<1>8. vs \in Seq(Vals) /\ vs # <<>> /\ m \in Vals /\ us \in Seq(Vals)
  <2>1. vs \in Seq(Vals)
    BY <1>1, FitsKinds, Zenon
  <2>2. vs # <<>>
    BY <2>1
  <2> QED
    BY <2>1, <2>2, SeqHeadTail, Zenon
<1>9. <<m>> \o us = vs
  <2> DEFINE V == Vals
  <2>1. vs \in Seq(V) /\ vs # <<>>
    BY <1>8, Zenon
  <2> HIDE DEF V
  <2> QED
    BY <2>1
<1> HIDE DEF m, ls, us, es, n, a, c, d, w
<1> DEFINE b == c \o d
<1>10. b \in Seq(Bytes) /\ Len(b) >= n * w
  <2> DEFINE x == n * w
  <2>1. x \in Nat /\ Len(c) >= x
    BY <1>4, <1>5, <1>7
  <2> HIDE DEF x
  <2>2. c \o d \in Seq(Bytes) /\ Len(c \o d) = Len(c) + Len(d) /\ Len(c) \in Nat /\ Len(d) \in Nat
    BY <1>5, <1>6, SeqConcat, SeqLen, Zenon
  <2>3. Len(c \o d) >= x
    BY <2>1, <2>2
  <2> QED
    BY <2>2, <2>3 DEF x
<1>11. Left(a \o b)
  <2>1. Same((a \o c) \o d, a \o (c \o d))
    BY <1>4, <1>5, <1>6, Regrouped, Zenon
  <2> QED
    BY <1>1, <1>2, <1>3, <1>4, <2>1, Zenon DEF Same
<1> HIDE DEF b
<1>12. /\ remaining < WordLen => Short
       /\ remaining >= WordLen =>
              /\ Value(pos, WordLen) = n
              /\ ~(n <= (remaining - WordLen) \div w) => Short
  BY <1>4, <1>7, <1>10, <1>11, CountStep, Zenon DEF a
<1> DEFINE k == Value(pos, WordLen)
           fits == k <= (remaining - WordLen) \div w
<1>13. \/ remaining < WordLen /\ Throw("end")
       \/ remaining >= WordLen /\ ~fits /\ Throw("count")
       \/ /\ remaining >= WordLen /\ fits /\ pos' = pos + WordLen /\ out' = Append(out, <<>>)
          /\ todo' = Times(k, Pair) \o Tail(todo) /\ UNCHANGED <<key, verdict>>
  BY Zenon DEF readKV, Pair, w
<1>14. \A e \in {"end", "count"} : Throw(e) => verdict' \in Errors
  BY Zenon DEF Throw, Errors
<1>15. CASE remaining < WordLen /\ Throw("end")
  BY <1>12, <1>14, <1>15, Zenon DEF Result
<1>16. CASE remaining >= WordLen /\ ~fits /\ Throw("count")
  BY <1>12, <1>14, <1>16, Zenon DEF Result
<1>17. CASE /\ remaining >= WordLen /\ pos' = pos + WordLen /\ out' = Append(out, <<>>)
            /\ todo' = Times(k, Pair) \o Tail(todo) /\ UNCHANGED <<key, verdict>>
  <2>1. PICK front : front = out
    BY Zenon
  <2>2. MapRest({}, es, m)
    BY <1>3, <1>4, Zenon DEF MapRest, n
  <2>3. front \in Seq(Vals) /\ front \o (<<m>> \o us) = Values(input.msg)'
    BY <1>1, <1>9, <2>1, Zenon
  <2>4. todo' = Times(Len(es), Pair) \o ls
    BY <1>1, <1>12, <1>17, Zenon DEF n, ls
  <2>5. out' = Append(front, MapOf({}, m))
    BY <1>17, <2>1, MapOfNone, Zenon
  <2>6. Left(b)'
    <3>1. pos' = pos + Len(a)
      BY <1>4, <1>17, Zenon
    <3> QED
      BY <1>4, <1>10, <1>11, <3>1, LeftStep, Zenon
  <2>7. Left(Entries(es, m) \o Plain(ls, us))'
    BY <2>6, Zenon DEF b, c, d
  <2>8. MapAt({}, es, m, front, ls, us)'
    BY <1>2, <2>2, <2>3, <2>4, <2>5, <2>7, Zenon DEF MapAt
  <2>9. Stage' /\ verdict' = "reading"
    BY <1>17, <2>8, Zenon DEF Stage
  <2> QED
    BY <2>9, Zenon DEF Result
<1> QED
  BY <1>13, <1>15, <1>16, <1>17, Zenon

\* A step of the reader at a field.
LEMMA FieldsStep ==
  ASSUME IInv, verdict = "reading", Next, NEW ks, NEW vs, FieldsAt(ks, vs)
  PROVE  Result
<1>1. Fits(ks, vs) /\ todo = ks /\ Left(Plain(ks, vs))
  BY Zenon DEF FieldsAt
<1>2. CASE Len(vs) = 0
  <2>1. todo = <<>> /\ ~Short /\ out = Values(input.msg)
    BY <1>2, FieldsEnd, Zenon
  <2>2. Return
    BY <2>1, Which, Zenon
  <2>3. verdict' = "ok" /\ out' = out
    BY <2>2, Zenon DEF Return
  <2> QED
    BY <2>1, <2>3, Zenon DEF Result
<1>3. CASE Len(vs) > 0
  <2> DEFINE kind == Head(ks)
             v == Head(vs)
             b == Plain(Tail(ks), Tail(vs))
  <2>1. /\ kind \in Simple /\ Holds(kind, v) /\ Fits(Tail(ks), Tail(vs))
        /\ Plain(ks, vs) = Part(kind, v) \o b
    BY <1>1, <1>3, PlainHead, Zenon
  <2>2. b \in Seq(Bytes) /\ Left(Part(kind, v) \o b)
    BY <1>1, <2>1, PlainType, Zenon
  <2>3. ks # <<>> /\ input' = input /\ Head(todo) = kind
    <3>1. ks \in Seq(Kinds) /\ Len(ks) > 0
      BY <1>1, <1>3, FitsKinds, Zenon DEF Fits
    <3>2. ks # <<>>
      BY <3>1
    <3> QED
      BY <1>1, <3>2, Which, Zenon
  <2> HIDE DEF kind, v, b
  <2>4. ASSUME Left(b)', todo' = Tail(todo), out' = Append(out, v), verdict' = "reading"
        PROVE  Result
    <3>1. Stage'
      BY <1>3, <2>3, <2>4, FieldsNext, Zenon DEF v, b
    <3> QED
      BY <2>4, <3>1, Zenon DEF Result
  <2>5. CASE readInt /\ kind \in {"u8", "i32", "i64"}
    <3>1. \/ Short /\ verdict' \in Errors
          \/ Left(b)' /\ verdict' = "reading" /\ todo' = Tail(todo) /\ out' = Append(out, v)
      BY <2>1, <2>2, <2>3, <2>5, IntStep, Zenon
    <3> QED
      BY <2>4, <3>1, Zenon DEF Result
  <2>6. CASE readString /\ kind = "str"
    <3>1. IsText(v) /\ Part(kind, v) = Str(v)
      BY <2>1, <2>6 DEF Holds, Part
    <3>2. \/ Short /\ verdict' \in Errors
          \/ Left(b)' /\ Use(WordLen + Len(v), v)
      BY <2>2, <2>6, <3>1, StringStep, Zenon
    <3>3. Head(todo) \notin {"key", "val"}
      BY <2>3, <2>6
    <3>4. ASSUME Use(WordLen + Len(v), v)
          PROVE  todo' = Tail(todo) /\ out' = Append(out, v) /\ verdict' = "reading"
      BY <3>3, <3>4, Zenon DEF Use, Got
    <3> QED
      BY <2>4, <3>2, <3>4, Zenon DEF Result
  <2>7. CASE readKV /\ kind = "kv"
    BY <1>3, <2>3, <2>7, FieldsMap, Zenon DEF kind
  <2>8. \/ readInt /\ kind \in {"u8", "i32", "i64"}
        \/ readString /\ kind = "str"
        \/ readKV /\ kind = "kv"
    <3>1. kind \notin {"key", "val", "results"}
      BY <2>1 DEF Simple
    <3> QED
      BY <1>1, <2>3, <3>1, Which, Zenon
  <2> QED
    BY <2>5, <2>6, <2>7, <2>8, Zenon
<1>4. Len(vs) = 0 \/ Len(vs) > 0
  <2>1. vs \in Seq(Vals)
    BY <1>1, FitsKinds, Zenon
  <2>2. Len(vs) \in Nat
    BY <2>1, SeqLen, Zenon
  <2> QED
    BY <2>2
<1> QED
  BY <1>2, <1>3, <1>4, Zenon

\* The fields of one more entry.
KeyFirst(t, r) == t # <<>> /\ Head(t) = "key" /\ Tail(t) = <<"val">> \o r
ValFirst(t, r) == t # <<>> /\ Head(t) = "val" /\ Tail(t) = r

LEMMA PairNext ==
  ASSUME NEW n \in Nat, NEW ks \in Seq(Kinds)
  PROVE  /\ KeyFirst(Times(n + 1, Pair) \o ks, Times(n, Pair) \o ks)
         /\ ValFirst(<<"val">> \o (Times(n, Pair) \o ks), Times(n, Pair) \o ks)
<1> DEFINE A == Times(n, Pair)
           r == A \o ks
           x == <<"key">>
           y == <<"val">>
           q == y \o r
<1>1. /\ Pair \in Seq(Kinds) /\ Pair # <<>> /\ x \in Seq(Kinds) /\ y \in Seq(Kinds)
      /\ Pair = x \o y
  BY DEF Pair, Kinds
<1>2. A \in Seq(Kinds)
  BY <1>1, TimesType, Zenon
<1>3. Times(n + 1, Pair) = Pair \o A
  BY <1>1, TimesNext, Zenon
<1>4. r \in Seq(Kinds)
  BY <1>2, SeqConcat, Zenon
<1> HIDE DEF A, r
<1>5. q \in Seq(Kinds) /\ q # <<>> /\ Head(q) = "val" /\ Tail(q) = r
  BY <1>4, ConsOne DEF Kinds
<1> HIDE DEF y, q
<1>6. x \o q # <<>> /\ Head(x \o q) = "key" /\ Tail(x \o q) = q
  BY <1>5, ConsOne DEF Kinds
<1> HIDE DEF x
<1>7. Pair \in Seq(Kinds) /\ x \in Seq(Kinds) /\ y \in Seq(Kinds)
  BY <1>1, Zenon
<1>8. Same((Pair \o A) \o ks, Pair \o (A \o ks))
  BY <1>2, <1>7, Regrouped, Zenon
<1>9. Same((x \o y) \o r, x \o (y \o r))
  BY <1>4, <1>7, Regrouped, Zenon
<1>10. Times(n + 1, Pair) \o ks = x \o q
  <2>1. Times(n + 1, Pair) \o ks = Pair \o r
    BY <1>3, <1>8, Zenon DEF Same, r
  <2>2. Pair \o r = x \o q
    BY <1>1, <1>9, Zenon DEF Same, q
  <2> QED
    BY <2>1, <2>2, Zenon
<1>11. KeyFirst(Times(n + 1, Pair) \o ks, r)
  BY <1>6, <1>10, Zenon DEF KeyFirst, q, y
<1>12. ValFirst(q, r)
  BY <1>5, Zenon DEF ValFirst
<1> QED
  BY <1>11, <1>12, Zenon DEF q, y, r, A

\* The last entry of a map has been read: the map is the one that was written.
LEMMA MapEnd ==
  ASSUME NEW D, NEW es, NEW m, NEW front, NEW ks, NEW vs,
         MapAt(D, es, m, front, ks, vs), Len(es) = 0
  PROVE  FieldsAt(ks, vs)
<1>1. /\ MapRest(D, es, m) /\ Fits(ks, vs) /\ front \in Seq(Vals)
      /\ front \o (<<m>> \o vs) = Values(input.msg)
      /\ todo = Times(Len(es), Pair) \o ks /\ out = Append(front, MapOf(D, m))
      /\ Left(Entries(es, m) \o Plain(ks, vs))
  BY Zenon DEF MapAt
<1>2. /\ IsMap(m) /\ D \subseteq DOMAIN m /\ es \in Seq(DOMAIN m)
      /\ \A k \in DOMAIN m : k \in D \/ \E i \in 1..Len(es) : es[i] = k
  BY <1>1, Zenon DEF MapRest
<1>3. es = <<>> /\ 1..Len(es) = {}
  BY <1>2
<1>4. D = DOMAIN m
  BY <1>2, <1>3, Zenon
<1>5. MapOf(D, m) = m /\ m \in Vals
  BY <1>2, <1>4, MapOfType, Zenon
<1>6. ks \in Seq(Kinds) /\ vs \in Seq(Vals) /\ Plain(ks, vs) \in Seq(Bytes)
  BY <1>1, FitsKinds, PlainType, Zenon
<1>7. todo = ks
  <2> DEFINE T == Times(0, Pair)
  <2>1. Pair \in Seq(Kinds) /\ Pair # <<>> /\ 0 \in Nat /\ Len(Pair) \in Nat
    BY DEF Pair, Kinds
  <2>2. T \in Seq(Kinds) /\ Len(T) = 0 * Len(Pair)
    BY <2>1, TimesType, Zenon
  <2> HIDE DEF T
  <2>3. T = <<>>
    BY <2>1, <2>2
  <2>4. <<>> \o ks = ks
    BY <1>6
  <2> QED
    BY <1>1, <2>3, <2>4, Zenon DEF T
<1>8. Left(Plain(ks, vs))
  <2> DEFINE p == Plain(ks, vs)
  <2>1. p \in Seq(Bytes)
    BY <1>6, Zenon
  <2> HIDE DEF p
  <2>2. <<>> \o p = p
    BY <2>1
  <2> QED
    BY <1>1, <1>2, <1>3, <2>2, EntriesEmpty, Zenon DEF p
<1>9. Append(front, m) \in Seq(Vals) /\ Same(Append(front, m) \o vs, front \o (<<m>> \o vs))
  BY <1>1, <1>5, <1>6, AppendCons, Zenon
<1> QED
  BY <1>1, <1>5, <1>7, <1>8, <1>9, Zenon DEF FieldsAt, Same

\* readKV reads the key of the next entry.
LEMMA KeyStep ==
  ASSUME IInv, verdict = "reading", Next,
         NEW D, NEW es, NEW m, NEW front, NEW ks, NEW vs,
         MapAt(D, es, m, front, ks, vs), Len(es) > 0
  PROVE  Result
<1> DEFINE e == Head(es)
           fs == Tail(es)
           n == Len(fs)
           r == Times(n, Pair) \o ks
           c == Entries(fs, m)
           d == Plain(ks, vs)
           b == Str(m[e]) \o (c \o d)
<1>1. /\ MapRest(D, es, m) /\ Fits(ks, vs) /\ front \in Seq(Vals)
      /\ front \o (<<m>> \o vs) = Values(input.msg)
      /\ todo = Times(Len(es), Pair) \o ks /\ out = Append(front, MapOf(D, m))
      /\ Left(Entries(es, m) \o Plain(ks, vs))
  BY Zenon DEF MapAt
<1>2. IsMap(m) /\ es \in Seq(DOMAIN m)
  BY <1>1, Zenon DEF MapRest
<1>3. e \in DOMAIN m /\ MapRest(D \cup {e}, fs, m)
  BY <1>1, MapRestNext, Zenon
<1>4. /\ fs \in Seq(DOMAIN m) /\ n = Len(es) - 1
      /\ Entries(es, m) = (Str(e) \o Str(m[e])) \o c
  BY <1>2, EntriesHead, Zenon
<1>5. n \in Nat /\ Len(es) = n + 1
  <2>1. Len(es) \in Nat
    BY <1>2
  <2> QED
    BY <1>4, <2>1
<1>6. IsText(e) /\ IsText(m[e])
  BY <1>2, <1>3, EntryType, Zenon
<1>7. Str(e) \in Seq(Bytes) /\ Str(m[e]) \in Seq(Bytes)
  BY <1>6, StrType, Zenon
<1>8. c \in Seq(Bytes) /\ d \in Seq(Bytes)
  BY <1>1, <1>2, <1>4, EntriesType, PlainType, Zenon
<1>9. ks \in Seq(Kinds)
  BY <1>1, FitsKinds, Zenon
<1> HIDE DEF n
<1>10. todo # <<>> /\ Head(todo) = "key" /\ Tail(todo) = <<"val">> \o r
  <2>1. KeyFirst(Times(n + 1, Pair) \o ks, Times(n, Pair) \o ks)
    BY <1>5, <1>9, PairNext, Zenon
  <2> QED
    BY <1>1, <1>5, <2>1, Zenon DEF KeyFirst
<1> HIDE DEF e, fs, r, c, d
<1>11. Left(Str(e) \o b) /\ b \in Seq(Bytes)
  <2> DEFINE x == Str(e)
             y == Str(m[e])
  <2>2. x \in Seq(Bytes) /\ y \in Seq(Bytes)
    BY <1>7, Zenon
  <2>3. Left(((x \o y) \o c) \o d)
    BY <1>1, <1>4, Zenon DEF d
  <2> HIDE DEF x, y
  <2>4. x \o y \in Seq(Bytes) /\ c \o d \in Seq(Bytes) /\ y \o (c \o d) \in Seq(Bytes)
    BY <1>8, <2>2
  <2>5. Same(((x \o y) \o c) \o d, (x \o y) \o (c \o d))
    BY <1>8, <2>4, Regrouped, Zenon
  <2>6. Same((x \o y) \o (c \o d), x \o (y \o (c \o d)))
    BY <2>2, <2>4, Regrouped, Zenon
  <2>7. Left(x \o (y \o (c \o d)))
    BY <2>3, <2>5, <2>6, Zenon DEF Same
  <2> QED
    BY <2>4, <2>7, Zenon DEF x, y
<1> HIDE DEF b
<1>12. readString /\ input' = input
  <2>1. Head(todo) \notin {"u8", "i32", "i64", "kv", "results"}
    BY <1>10
  <2> QED
    BY <1>10, <2>1, Which, Zenon
<1>13. \/ Short /\ verdict' \in Errors
       \/ Left(b)' /\ Use(WordLen + Len(e), e)
  BY <1>6, <1>11, <1>12, StringStep, Zenon
<1>14. CASE Left(b)' /\ Use(WordLen + Len(e), e)
  <2>1. Head(todo) # "str" /\ Head(todo) # "val"
    BY <1>10
  <2>2. key' = e /\ todo' = Tail(todo) /\ out' = out /\ verdict' = verdict
    BY <1>14, <2>1, Zenon DEF Use
  <2>3. front \o (<<m>> \o vs) = Values(input.msg)'
    BY <1>1, <1>12, Zenon
  <2>4. todo' = <<"val">> \o (Times(Len(fs), Pair) \o ks) /\ out' = Append(front, MapOf(D, m))
    BY <1>1, <1>10, <2>2, Zenon DEF r, n
  <2>5. Left(Str(m[e]) \o (Entries(fs, m) \o Plain(ks, vs)))'
    BY <1>14, Zenon DEF b, c, d
  <2>6. ValAt(D, e, fs, m, front, ks, vs)'
    BY <1>1, <1>3, <2>2, <2>3, <2>4, <2>5, Zenon DEF ValAt
  <2>7. Stage'
    BY <2>6, Zenon DEF Stage
  <2> QED
    BY <2>2, <2>7, Zenon DEF Result
<1> QED
  BY <1>13, <1>14, Zenon DEF Result

\* readKV reads the value of an entry and puts it into the map.
LEMMA ValStep ==
  ASSUME IInv, verdict = "reading", Next,
         NEW D, NEW e, NEW es, NEW m, NEW front, NEW ks, NEW vs,
         ValAt(D, e, es, m, front, ks, vs)
  PROVE  Result
<1> DEFINE n == Len(es)
           r == Times(n, Pair) \o ks
           c == Entries(es, m)
           d == Plain(ks, vs)
           b == c \o d
           s == m[e]
           g == MapOf(D, m)
           h == MapOf(D \cup {e}, m)
<1>1. /\ MapRest(D \cup {e}, es, m) /\ Fits(ks, vs) /\ front \in Seq(Vals)
      /\ front \o (<<m>> \o vs) = Values(input.msg)
      /\ todo = <<"val">> \o r /\ out = Append(front, g) /\ key = e
      /\ Left(Str(s) \o b)
  BY Zenon DEF ValAt
<1>2. IsMap(m) /\ es \in Seq(DOMAIN m) /\ D \cup {e} \subseteq DOMAIN m
  BY <1>1, Zenon DEF MapRest
<1>3. n \in Nat
  BY <1>2
<1>4. e \in DOMAIN m /\ D \in SUBSET DOMAIN m /\ D \cup {e} \in SUBSET DOMAIN m
  BY <1>2, Zenon
<1>5. IsText(s)
  BY <1>2, <1>4, EntryType, Zenon
<1>6. c \in Seq(Bytes) /\ d \in Seq(Bytes)
  BY <1>1, <1>2, EntriesType, PlainType, Zenon
<1>7. ks \in Seq(Kinds)
  BY <1>1, FitsKinds, Zenon
<1>8. g \in Vals /\ h \in Vals
  BY <1>2, <1>4, MapOfType, Zenon
<1> HIDE DEF n
<1>9. todo # <<>> /\ Head(todo) = "val" /\ Tail(todo) = r
  <2>1. ValFirst(<<"val">> \o (Times(n, Pair) \o ks), Times(n, Pair) \o ks)
    BY <1>3, <1>7, PairNext, Zenon
  <2> QED
    BY <1>1, <2>1, Zenon DEF ValFirst
<1> HIDE DEF r, c, d
<1>10. b \in Seq(Bytes)
  BY <1>6, SeqConcat, Zenon
<1> HIDE DEF b
<1>11. readString /\ input' = input
  <2>1. Head(todo) \notin {"u8", "i32", "i64", "kv", "results"}
    BY <1>9
  <2> QED
    BY <1>9, <2>1, Which, Zenon
<1> HIDE DEF s, g
<1>12. \/ Short /\ verdict' \in Errors
       \/ Left(b)' /\ Use(WordLen + Len(s), s)
  BY <1>1, <1>5, <1>10, <1>11, StringStep, Zenon
<1>13. CASE Left(b)' /\ Use(WordLen + Len(s), s)
  <2>1. Head(todo) # "str" /\ Head(todo) # "key"
    BY <1>9
  <2>2. /\ out' = [out EXCEPT ![Len(out)] =
                     [k \in DOMAIN out[Len(out)] \cup {key} |->
                        IF k = key THEN s ELSE out[Len(out)][k]]]
        /\ todo' = Tail(todo) /\ verdict' = verdict
    BY <1>13, <2>1, Zenon DEF Use
  <2> DEFINE o == Append(front, g)
             x == o[Len(o)]
  <2>3. out' = [o EXCEPT ![Len(o)] = [k \in DOMAIN x \cup {e} |-> IF k = e THEN s ELSE x[k]]]
    BY <1>1, <2>2, Zenon
  <2>4. x = g
    <3>1. Same(Append(front, g)[Len(Append(front, g))], g)
      BY <1>1, <1>8, ReplaceLast, Zenon
    <3> QED
      BY <3>1, Zenon DEF Same
  <2> HIDE DEF x, o
  <2>5. [k \in DOMAIN x \cup {e} |-> IF k = e THEN s ELSE x[k]] = h
    <3>1. [k \in DOMAIN g \cup {e} |-> IF k = e THEN s ELSE g[k]] = h
      BY MapOfNext, Zenon DEF g, s
    <3> QED
      BY <2>4, <3>1, Zenon
  <2> HIDE DEF h
  <2>6. [o EXCEPT ![Len(o)] = h] = Append(front, h)
    <3>1. Same([Append(front, g) EXCEPT ![Len(Append(front, g))] = h], Append(front, h))
      BY <1>1, <1>8, ReplaceLast, Zenon
    <3> QED
      BY <3>1, Zenon DEF Same, o
  <2>7. out' = Append(front, h)
    BY <2>3, <2>5, <2>6, Zenon
  <2>8. front \o (<<m>> \o vs) = Values(input.msg)'
    BY <1>1, <1>11, Zenon
  <2>9. todo' = Times(Len(es), Pair) \o ks
    BY <1>9, <2>2, Zenon DEF r, n
  <2>10. Left(Entries(es, m) \o Plain(ks, vs))'
    BY <1>13, Zenon DEF b, c, d
  <2>11. MapAt(D \cup {e}, es, m, front, ks, vs)'
    BY <1>1, <2>7, <2>8, <2>9, <2>10, Zenon DEF MapAt, h
  <2>12. Stage'
    BY <2>11, Zenon DEF Stage
  <2> QED
    BY <2>2, <2>12, Zenon DEF Result
<1> QED
  BY <1>12, <1>13, Zenon DEF Result

\* The status of an ECHO_RESPONSE.
LEMMA HeadStep ==
  ASSUME IInv, verdict = "reading", Next, IsMessage(input.msg),
         NEW u, NEW v, HeadAt(u, v)
  PROVE  Result
<1> DEFINE b == U32(Len(v)) \o Rows(v)
<1>1. /\ input.msg.type = "ECHO_RESPONSE" /\ input.msg.fields[1] = u /\ input.msg.fields[2] = v
      /\ todo = <<"i32", "results">> /\ out = <<>> /\ Left(Part("i32", u) \o b)
  BY Zenon DEF HeadAt
<1>2. IsInt(u, WordLen) /\ U32(Len(v)) \in Seq(Bytes) /\ Rows(v) \in Seq(Bytes)
  BY <1>1, ListMessage, Zenon
<1>3. Holds("i32", u)
  BY <1>2 DEF Holds
<1>4. b \in Seq(Bytes)
  BY <1>2, SeqConcat, Zenon
<1>5. todo # <<>> /\ Head(todo) = "i32" /\ Tail(todo) = <<"results">>
  BY <1>1
<1> HIDE DEF b
<1>6. readInt /\ input' = input
  <2>1. Head(todo) \notin {"str", "key", "val", "kv", "results"}
    BY <1>5
  <2> QED
    BY <1>5, <2>1, Which, Zenon
<1>7. \/ Short /\ verdict' \in Errors
      \/ Left(b)' /\ verdict' = "reading" /\ todo' = Tail(todo) /\ out' = Append(out, u)
  <2>1. "i32" \in {"u8", "i32", "i64"}
    OBVIOUS
  <2> QED
    BY <1>1, <1>3, <1>4, <1>5, <1>6, <2>1, IntStep, Zenon
<1>8. CASE Left(b)' /\ verdict' = "reading" /\ todo' = Tail(todo) /\ out' = Append(out, u)
  <2>1. Append(<<>>, u) = <<u>>
    OBVIOUS
  <2>2. todo' = <<"results">> /\ out' = <<u>>
    BY <1>1, <1>5, <1>8, <2>1, Zenon
  <2>3. Left(U32(Len(v)) \o Rows(v))'
    BY <1>8, Zenon DEF b
  <2>4. input.msg'.type = "ECHO_RESPONSE" /\ input.msg'.fields[1] = u /\ input.msg'.fields[2] = v
    BY <1>1, <1>6, Zenon
  <2>5. ListAt(u, v)'
    BY <2>2, <2>3, <2>4, Zenon DEF ListAt
  <2>6. Stage'
    BY <2>5, Zenon DEF Stage
  <2> QED
    BY <1>8, <2>6, Zenon DEF Result
<1> QED
  BY <1>7, <1>8, Zenon DEF Result

\* The number of the results, which is not refused if they have all arrived.
LEMMA ListStep ==
  ASSUME IInv, verdict = "reading", Next, IsMessage(input.msg),
         NEW u, NEW v, ListAt(u, v)
  PROVE  Result
<1> DEFINE n == Len(v)
           a == U32(n)
           b == Rows(v)
           w == 3 * WordLen + 1
           ks == Times(n, Triple)
           vs == Wants(v)
<1>1. /\ input.msg.type = "ECHO_RESPONSE" /\ input.msg.fields[1] = u /\ input.msg.fields[2] = v
      /\ todo = <<"results">> /\ out = <<u>> /\ Left(a \o b)
  BY Zenon DEF ListAt
<1>2. /\ IsInt(u, WordLen) /\ IsList(v) /\ b \in Seq(Bytes) /\ Fits(ks, vs)
      /\ b = Plain(ks, vs) /\ Len(b) >= n * w
      /\ a \in Seq(Bytes) /\ Len(a) = WordLen
      /\ Values(input.msg) = <<u>> \o vs
  BY <1>1, ListMessage, Zenon
<1>3. n \in Nat /\ n < Word
  BY <1>2, Zenon DEF IsList
<1>4. w \in Nat \ {0}
  BY WidthAssumption
<1>5. todo # <<>> /\ Head(todo) = "results" /\ Tail(todo) = <<>>
  BY <1>1
<1>6. readResults /\ input' = input
  <2>1. Head(todo) \notin {"u8", "i32", "i64", "str", "key", "val", "kv"}
    BY <1>5, Zenon
  <2> QED
    BY <1>5, <2>1, Which, Zenon
<1> HIDE DEF n, a, b, w, ks, vs
<1>7. /\ remaining < WordLen => Short
      /\ remaining >= WordLen =>
             /\ Value(pos, WordLen) = n
             /\ ~(n <= (remaining - WordLen) \div w) => Short
  BY <1>1, <1>2, <1>3, <1>4, CountStep, Zenon DEF a
<1> DEFINE k == Value(pos, WordLen)
           fits == k <= (remaining - WordLen) \div w
<1>8. \/ remaining < WordLen /\ Throw("end")
      \/ remaining >= WordLen /\ ~fits /\ Throw("count")
      \/ /\ remaining >= WordLen /\ fits /\ pos' = pos + WordLen
         /\ todo' = Times(k, Triple) \o Tail(todo) /\ UNCHANGED <<out, key, verdict>>
  BY <1>6, Zenon DEF readResults, Triple, Tri, w
<1>9. \A e \in {"end", "count"} : Throw(e) => verdict' \in Errors
  BY Zenon DEF Throw, Errors
<1>10. CASE remaining < WordLen /\ Throw("end")
  BY <1>7, <1>9, <1>10, Zenon DEF Result
<1>11. CASE remaining >= WordLen /\ ~fits /\ Throw("count")
  BY <1>7, <1>9, <1>11, Zenon DEF Result
<1>12. CASE /\ remaining >= WordLen /\ pos' = pos + WordLen
            /\ todo' = Times(k, Triple) \o Tail(todo) /\ UNCHANGED <<out, key, verdict>>
  <2>1. ks \in Seq(Kinds) /\ vs \in Seq(Vals)
    BY <1>2, FitsKinds, Zenon
  <2>2. ks \o <<>> = ks
    BY <2>1
  <2>3. todo' = ks
    <3>1. Times(k, Triple) = ks
      BY <1>7, <1>12, Zenon DEF ks
    <3> QED
      BY <1>5, <1>12, <2>2, <3>1, Zenon
  <2>4. Left(b)'
    <3>1. pos' = pos + Len(a)
      BY <1>2, <1>12, Zenon
    <3> QED
      BY <1>1, <1>2, <1>6, <3>1, LeftStep, Zenon
  <2>5. out' = <<u>> /\ <<u>> \in Seq(Vals)
    <3>1. u \in Vals
      BY <1>2, Zenon DEF IsInt, Vals
    <3> DEFINE V == Vals
    <3>2. u \in V
      BY <3>1
    <3> HIDE DEF V
    <3>3. <<u>> \in Seq(V)
      BY <3>2
    <3> QED
      BY <1>1, <1>12, <3>3, Zenon DEF V
  <2>6. <<u>> \o vs = Values(input.msg)'
    BY <1>2, <1>6, Zenon
  <2>7. Left(Plain(ks, vs))'
    BY <1>2, <2>4, Zenon
  <2>8. FieldsAt(ks, vs)'
    BY <1>2, <2>3, <2>5, <2>6, <2>7, Zenon DEF FieldsAt
  <2>9. Stage' /\ verdict' = "reading"
    BY <1>12, <2>8, Zenon DEF Stage
  <2> QED
    BY <2>9, Zenon DEF Result
<1> QED
  BY <1>8, <1>10, <1>11, <1>12, Zenon

\* Every step of the reader of a message.
LEMMA StageStep ==
  ASSUME IInv, verdict = "reading", Next, IsMessage(input.msg), Stage
  PROVE  Result
<1>1. ASSUME NEW D, NEW es, NEW m, NEW front, NEW ks, NEW vs,
             MapAt(D, es, m, front, ks, vs)
      PROVE  Result
  <2>1. Len(es) \in Nat
    <3>1. es \in Seq(DOMAIN m)
      BY <1>1, Zenon DEF MapAt, MapRest
    <3> QED
      BY <3>1
  <2>2. CASE Len(es) = 0
    BY <1>1, <2>2, MapEnd, FieldsStep, Zenon
  <2>3. CASE Len(es) > 0
    BY <1>1, <2>3, KeyStep, Zenon
  <2>4. Len(es) = 0 \/ Len(es) > 0
    BY <2>1
  <2> QED
    BY <2>2, <2>3, <2>4, Zenon
<1>2. CASE \E ks, vs : FieldsAt(ks, vs)
  BY <1>2, FieldsStep, Zenon
<1>3. CASE \E D, es, m, front, ks, vs : MapAt(D, es, m, front, ks, vs)
  BY <1>1, <1>3, Zenon
<1>4. CASE \E D, e, es, m, front, ks, vs : ValAt(D, e, es, m, front, ks, vs)
  BY <1>4, ValStep, Zenon
<1>5. CASE \E u, v : HeadAt(u, v)
  BY <1>5, HeadStep, Zenon
<1>6. CASE \E u, v : ListAt(u, v)
  BY <1>6, ListStep, Zenon
<1> QED
  BY <1>2, <1>3, <1>4, <1>5, <1>6, Zenon DEF Stage

-----------------------------------------------------------------------------
(* From the header to the verdict.                                         *)

IsFrame(b, x1, x2, x3, x4, c, p) == b = (<<x1, x2, x3, x4>> \o c) \o p
FrameHas(b, x1, x2, x3, c, p) ==
  /\ Len(b) = 4 + Len(c) + Len(p) /\ b[1] = x1 /\ b[2] = x2 /\ b[3] = x3
  /\ SubSeq(b, 5, 4 + Len(c)) = c

LEMMA HeaderParts ==
  ASSUME NEW S, NEW x1 \in S, NEW x2 \in S, NEW x3 \in S, NEW x4 \in S,
         NEW c \in Seq(S), NEW p \in Seq(S), NEW b, IsFrame(b, x1, x2, x3, x4, c, p)
  PROVE  FrameHas(b, x1, x2, x3, c, p)
<1> DEFINE t == <<x1, x2, x3, x4>>
           n == Len(c)
           k == Len(p)
           h == t \o c
<1>1. n \in Nat /\ k \in Nat /\ t \in Seq(S) /\ Len(t) = 4
      /\ t[1] = x1 /\ t[2] = x2 /\ t[3] = x3
  OBVIOUS
<1>2. b = h \o p
  BY Zenon DEF IsFrame
<1> HIDE DEF t
<1>3. /\ h \in Seq(S) /\ Len(h) = 4 + n
      /\ \A i \in 1..4 + n : h[i] = IF i <= 4 THEN t[i] ELSE c[i - 4]
  <2>1. /\ t \o c \in Seq(S) /\ Len(t \o c) = Len(t) + Len(c)
        /\ \A i \in 1..Len(t) + Len(c) : (t \o c)[i] = IF i <= Len(t) THEN t[i] ELSE c[i - Len(t)]
    BY <1>1, SeqConcat, Zenon
  <2> QED
    BY <1>1, <2>1, Zenon
<1> HIDE DEF h, n, k
<1>4. /\ b \in Seq(S) /\ Len(b) = 4 + n + k /\ \A i \in 1..4 + n : b[i] = h[i]
  <2>1. /\ h \o p \in Seq(S) /\ Len(h \o p) = Len(h) + Len(p)
        /\ \A i \in 1..Len(h) + Len(p) : (h \o p)[i] = IF i <= Len(h) THEN h[i] ELSE p[i - Len(h)]
    BY <1>3, SeqConcat
  <2>2. \A i \in 1..4 + n : i \in 1..Len(h) + Len(p) /\ i <= Len(h)
    BY <1>1, <1>3 DEF k
  <2> QED
    BY <1>2, <1>3, <2>1, <2>2, Zenon DEF k
<1>5. b[1] = x1 /\ b[2] = x2 /\ b[3] = x3
  <2>1. 1 \in 1..4 + n /\ 2 \in 1..4 + n /\ 3 \in 1..4 + n /\ 1 <= 4 /\ 2 <= 4 /\ 3 <= 4
    BY <1>1
  <2>2. h[1] = t[1] /\ h[2] = t[2] /\ h[3] = t[3]
    BY <1>3, <2>1, Zenon
  <2> QED
    BY <1>1, <1>4, <2>1, <2>2, Zenon
<1> DEFINE f == 5
           g == 4 + n
           s == SubSeq(b, f, g)
<1>6. f \in Int /\ g \in Int /\ \A i \in f..g : b[i] \in S
  BY <1>1, <1>4
<1> HIDE DEF f, g
<1>7. /\ s \in Seq(S) /\ Len(s) = IF f <= g THEN g - f + 1 ELSE 0
      /\ \A i \in 1..g - f + 1 : s[i] = b[f + i - 1]
  <2>1. IsCut(s, S, b, f, g)
    BY <1>6, SeqSubSeq, Zenon
  <2> QED
    BY <2>1, Zenon DEF IsCut
<1> USE DEF f, g
<1> HIDE DEF s
<1>8. Len(s) = n /\ (4 + n) - 5 + 1 = n
  BY <1>1, <1>7
<1>9. ASSUME NEW i \in 1..n PROVE s[i] = c[i]
  <2>1. 5 + i - 1 \in 1..4 + n /\ ~(5 + i - 1 <= 4) /\ (5 + i - 1) - 4 = i
    BY <1>1
  <2>2. s[i] = b[5 + i - 1]
    BY <1>7, <1>8, Zenon
  <2>3. b[5 + i - 1] = h[5 + i - 1]
    BY <1>4, <2>1, Zenon
  <2>4. h[5 + i - 1] = c[(5 + i - 1) - 4]
    BY <1>3, <2>1, Zenon
  <2> QED
    BY <2>1, <2>2, <2>3, <2>4, Zenon
<1>10. s = c
  BY <1>7, <1>8, <1>9, SeqEqual, Zenon DEF n
<1> QED
  BY <1>4, <1>5, <1>10, Zenon DEF FrameHas, s, n, k

LEMMA MessageBytes == ASSUME NEW m, IsMessage(m) PROVE Payload(m) \in Seq(Bytes)
<1>1. CASE m.type # "ECHO_RESPONSE"
  BY <1>1, PlainMessage, PlainType, Zenon
<1>2. CASE m.type = "ECHO_RESPONSE"
  <2> DEFINE u == m.fields[1]
             v == m.fields[2]
             a == Part("i32", u)
             b == U32(Len(v))
             c == Rows(v)
  <2>1. IsInt(u, WordLen) /\ b \in Seq(Bytes) /\ c \in Seq(Bytes) /\ Payload(m) = a \o (b \o c)
    BY <1>2, ListMessage, Zenon
  <2> HIDE DEF u
  <2>2. Holds("i32", u) /\ "i32" \in Simple
    BY <2>1 DEF Holds, Simple
  <2>3. a \in Seq(Bytes)
    BY <2>2, PartType, Zenon
  <2> HIDE DEF a, b, c
  <2>4. a \o (b \o c) \in Seq(Bytes)
    BY <2>1, <2>3
  <2> QED
    BY <2>1, <2>4, Zenon
<1> QED
  BY <1>1, <1>2, Zenon

\* decodeFrame accepts the header of every frame that was made from a message, and
\* what follows is the message as far as it has arrived.
LEMMA MadeFrame ==
  ASSUME Framed, Made(input), input.done # "raw"
  PROVE  /\ IsMessage(input.msg) /\ HeaderError = "none" /\ input.bytes[3] = input.msg.type
         /\ input.done = "cut" => Short
         /\ input.done # "cut" => input.done \in {"none", "extended"} /\ ~Short
         /\ \A i \in 1..Whole : i <= len => payload[i] = Payload(input.msg)[i]
<1> DEFINE b == input.bytes
           p == payload
           q == Payload(input.msg)
           t == input.msg.type
           c == U32(Len(p))
           l == len
<1>1. /\ IsMessage(input.msg) /\ b = encodeFrame(t, p) /\ Len(p) < Word
      /\ \/ input.done = "cut" /\ Len(p) < Len(q) /\ p = SubSeq(q, 1, Len(p))
         \/ /\ input.done \in {"none", "extended"}
            /\ Len(p) >= Len(q) /\ q = SubSeq(p, 1, Len(q))
  BY Zenon DEF Made, payload
<1>2. p \in Seq(Bytes) /\ Len(p) \in Nat
  <2> DEFINE m == HEADER_LEN + 1
             n == Len(b)
  <2>1. m \in Int /\ n \in Int /\ \A i \in m..n : b[i] \in Bytes
    BY WidthAssumption DEF HEADER_LEN, Framed
  <2>2. p = SubSeq(b, m, n)
    BY Zenon DEF payload
  <2> HIDE DEF m, n, b, p
  <2>3. SubSeq(b, m, n) \in Seq(Bytes)
    <3>1. IsCut(SubSeq(b, m, n), Bytes, b, m, n)
      BY <2>1, SeqSubSeq, Zenon
    <3> QED
      BY <3>1, Zenon DEF IsCut
  <2> QED
    BY <2>2, <2>3
<1>3. q \in Seq(Bytes) /\ Len(q) \in Nat
  <2>1. q \in Seq(Bytes)
    BY <1>1, MessageBytes, Zenon
  <2> QED
    BY <2>1, SeqLen, Zenon
<1>4. t \in Types
  BY <1>1, Zenon DEF IsMessage
<1>5. c \in Seq(Bytes) /\ Len(c) = WordLen /\ Number(c) = Len(p)
  <2> HIDE DEF p
  <2> QED
    BY <1>1, <1>2, NumberU32, Zenon DEF Bytes
<1>6. b = (<<MAGIC, VERSION, t, 0>> \o c) \o p
  BY <1>1, Zenon DEF encodeFrame
<1>7. l = Len(b) - HEADER_LEN
  BY Zenon DEF len
<1>8. payloadLen = Number(SubSeq(b, 5, HEADER_LEN))
  BY Zenon DEF payloadLen
<1>9. HeaderError = IF Len(b) < HEADER_LEN THEN "short"
                    ELSE IF b[1] # MAGIC THEN "magic"
                    ELSE IF b[2] # VERSION THEN "version"
                    ELSE IF payloadLen # l THEN "length"
                    ELSE IF b[3] \notin Types THEN "unknown"
                    ELSE "none"
  BY Zenon DEF HeaderError
<1> HIDE DEF b, p, q, t, c, l
<1>10. /\ Len(b) = 4 + Len(c) + Len(p) /\ b[1] = MAGIC /\ b[2] = VERSION /\ b[3] = t
       /\ SubSeq(b, 5, 4 + Len(c)) = c
  <2> DEFINE S == {MAGIC, VERSION, t, 0} \cup Bytes
  <2>1. MAGIC \in S /\ VERSION \in S /\ t \in S /\ 0 \in S /\ Bytes \subseteq S
    BY Zenon
  <2> HIDE DEF S
  <2>2. c \in Seq(S) /\ p \in Seq(S)
    BY <1>2, <1>5, <2>1
  <2>3. IsFrame(b, MAGIC, VERSION, t, 0, c, p)
    BY <1>6, Zenon DEF IsFrame
  <2>4. FrameHas(b, MAGIC, VERSION, t, c, p)
    BY <2>1, <2>2, <2>3, HeaderParts, Zenon
  <2> QED
    BY <2>4, Zenon DEF FrameHas
<1>11. /\ ~(Len(b) < HEADER_LEN) /\ l = Len(p) /\ 4 + Len(c) = HEADER_LEN
  BY <1>2, <1>5, <1>7, <1>10, WidthAssumption DEF HEADER_LEN
<1>12. payloadLen = l
  BY <1>5, <1>8, <1>10, <1>11, Zenon
<1>13. HeaderError = "none"
  BY <1>4, <1>9, <1>10, <1>11, <1>12, Zenon
<1>14. ASSUME NEW i \in 1..Len(q), i <= l PROVE p[i] = q[i]
  <2>1. i \in 1..Len(p) /\ i \in Nat
    BY <1>2, <1>3, <1>11, <1>14
  <2>2. CASE Len(p) < Len(q) /\ p = SubSeq(q, 1, Len(p))
    <3>1. SubSeq(q, 1, Len(p))[i] = q[i]
      BY <1>2, <1>3, <2>1, <2>2
    <3> QED
      BY <2>2, <3>1, Zenon
  <2>3. CASE Len(p) >= Len(q) /\ q = SubSeq(p, 1, Len(q))
    <3>1. SubSeq(p, 1, Len(q))[i] = p[i]
      BY <1>2, <1>3, <2>1, <2>3
    <3> QED
      BY <2>3, <3>1, Zenon
  <2> QED
    BY <1>1, <2>2, <2>3, Zenon
<1>15. Whole = Len(q) /\ (Short <=> Len(p) < Len(q))
  BY <1>11, Zenon DEF Whole, Short, q, l
<1>16. /\ input.done = "cut" => Short
       /\ input.done # "cut" => input.done \in {"none", "extended"} /\ ~Short
  <2>1. CASE input.done = "cut" /\ Len(p) < Len(q)
    BY <1>15, <2>1, Zenon
  <2>2. CASE input.done \in {"none", "extended"} /\ Len(p) >= Len(q)
    <3>1. input.done # "cut" /\ ~(Len(p) < Len(q))
      BY <1>2, <1>3, <2>2
    <3> QED
      BY <1>15, <2>2, <3>1, Zenon
  <2> QED
    BY <1>1, <2>1, <2>2, Zenon
<1> QED
  BY <1>1, <1>10, <1>13, <1>14, <1>15, <1>16, Zenon DEF b, p, q, t, l

\* The reader starts with the first field of the message.
LEMMA StartStep ==
  ASSUME IInv, Made(input), input.done # "raw", verdict = "start", out = <<>>, decodeFrame
  PROVE  verdict' = "reading" /\ Stage'
<1>1. /\ IsMessage(input.msg) /\ HeaderError = "none" /\ input.bytes[3] = input.msg.type
      /\ \A i \in 1..Whole : i <= len => payload[i] = Payload(input.msg)[i]
  BY MadeFrame, Zenon DEF IInv
<1>2. pos = 0
  BY Zenon DEF IInv
<1>3. /\ todo' = Layout[input.msg.type] /\ verdict' = "reading" /\ input' = input
      /\ pos' = 0 /\ out' = <<>>
  BY <1>1, <1>2, Zenon DEF decodeFrame
<1>4. PICK q : q = Payload(input.msg)
  OBVIOUS
<1>5. q \in Seq(Bytes)
  BY <1>1, <1>4, MessageBytes, Zenon
<1>6. Left(q)'
  <2> DEFINE l == len
             y == payload
             w == Whole
  <2>1. l' = l /\ y' = y /\ w' = w
    BY <1>3 DEF len, payload, Whole
  <2>2. w = Len(q) /\ \A i \in 1..Len(q) : i <= l => y[i] = q[i]
    BY <1>1, <1>4, Zenon DEF Whole
  <2> HIDE DEF l, y, w
  <2>3. Len(q) \in Nat
    BY <1>5
  <2>4. 0 + Len(q) = w' /\ \A i \in 1..Len(q) : 0 + i <= l' => y'[0 + i] = q[i]
    <3>1. 0 + Len(q) = Len(q) /\ \A i \in 1..Len(q) : 0 + i = i
      BY <2>3
    <3> QED
      BY <2>1, <2>2, <3>1, Zenon
  <2> QED
    BY <1>3, <1>5, <2>4, Zenon DEF Left, l, y, w
<1>7. CASE input.msg.type # "ECHO_RESPONSE"
  <2>1. PICK ks, vs : ks = Layout[input.msg.type] /\ vs = input.msg.fields
    OBVIOUS
  <2>2. Fits(ks, vs) /\ Values(input.msg) = vs /\ q = Plain(ks, vs)
    BY <1>1, <1>4, <1>7, <2>1, PlainMessage, Zenon
  <2>3. out' \in Seq(Vals) /\ out' \o vs = Values(input.msg)'
    <3> DEFINE V == Vals
    <3>1. vs \in Seq(V)
      BY <2>2, FitsKinds, Zenon
    <3> HIDE DEF V
    <3>2. <<>> \in Seq(V) /\ <<>> \o vs = vs
      BY <3>1
    <3> QED
      BY <1>3, <2>2, <3>2, Zenon DEF V
  <2>4. FieldsAt(ks, vs)'
    BY <1>3, <1>6, <2>1, <2>2, <2>3, Zenon DEF FieldsAt
  <2> QED
    BY <1>3, <2>4, Zenon DEF Stage
<1>8. CASE input.msg.type = "ECHO_RESPONSE"
  <2>1. PICK u, v : u = input.msg.fields[1] /\ v = input.msg.fields[2]
    BY Zenon
  <2>2. q = Part("i32", u) \o (U32(Len(v)) \o Rows(v))
    BY <1>1, <1>4, <1>8, <2>1, ListMessage, Zenon
  <2>3. todo' = <<"i32", "results">>
    BY <1>3, <1>8 DEF Layout
  <2>4. HeadAt(u, v)'
    BY <1>3, <1>6, <1>8, <2>1, <2>2, <2>3, Zenon DEF HeadAt
  <2> QED
    BY <1>3, <2>4, Zenon DEF Stage
<1> QED
  BY <1>7, <1>8, Zenon

\* The inductive invariant of a frame that was made from a message.
Track ==
  /\ Made(input)
  /\ input.done # "raw" =>
       /\ verdict = "start" => out = <<>>
       /\ verdict = "reading" => Stage
       /\ verdict = "ok" => ~Short /\ out = Values(input.msg)
       /\ verdict \in Errors => Short

LEMMA TrackInit == Init => Track
<1> SUFFICES ASSUME Init PROVE Track
  BY Zenon
<1>1. Made(input) /\ out = <<>> /\ verdict = "start"
  BY MadeAssumption, Zenon DEF Init
<1>2. verdict # "reading" /\ verdict # "ok" /\ verdict \notin Errors
  BY <1>1 DEF Errors
<1> QED
  BY <1>1, <1>2, Zenon DEF Track

LEMMA StageSame == ASSUME UNCHANGED vars, Stage PROVE Stage'
<1>1. input' = input /\ pos' = pos /\ todo' = todo /\ out' = out /\ key' = key
  BY DEF vars
<1>2. ASSUME NEW r, Left(r) PROVE Left(r)'
  BY <1>1, <1>2, Zenon DEF Left, Whole, payload, len
<1>3. ASSUME NEW ks, NEW vs, FieldsAt(ks, vs) PROVE FieldsAt(ks, vs)'
  BY <1>1, <1>2, <1>3, Zenon DEF FieldsAt
<1>4. ASSUME NEW D, NEW es, NEW m, NEW front, NEW ks, NEW vs, MapAt(D, es, m, front, ks, vs)
      PROVE  MapAt(D, es, m, front, ks, vs)'
  BY <1>1, <1>2, <1>4, Zenon DEF MapAt
<1>5. ASSUME NEW D, NEW e, NEW es, NEW m, NEW front, NEW ks, NEW vs,
             ValAt(D, e, es, m, front, ks, vs)
      PROVE  ValAt(D, e, es, m, front, ks, vs)'
  BY <1>1, <1>2, <1>5, Zenon DEF ValAt
<1>6. ASSUME NEW u, NEW v, HeadAt(u, v) PROVE HeadAt(u, v)'
  BY <1>1, <1>2, <1>6, Zenon DEF HeadAt
<1>7. ASSUME NEW u, NEW v, ListAt(u, v) PROVE ListAt(u, v)'
  BY <1>1, <1>2, <1>7, Zenon DEF ListAt
<1>8. CASE \E ks, vs : FieldsAt(ks, vs)
  BY <1>3, <1>8, Zenon DEF Stage
<1>9. CASE \E D, es, m, front, ks, vs : MapAt(D, es, m, front, ks, vs)
  <2>1. PICK D, es, m, front, ks, vs : MapAt(D, es, m, front, ks, vs)
    BY <1>9, Zenon
  <2>2. MapAt(D, es, m, front, ks, vs)'
    BY <1>4, <2>1, Zenon
  <2> QED
    BY <2>2, Zenon DEF Stage
<1>10. CASE \E D, e, es, m, front, ks, vs : ValAt(D, e, es, m, front, ks, vs)
  <2>1. PICK D, e, es, m, front, ks, vs : ValAt(D, e, es, m, front, ks, vs)
    BY <1>10, Zenon
  <2>2. ValAt(D, e, es, m, front, ks, vs)'
    BY <1>5, <2>1, Zenon
  <2> QED
    BY <2>2, Zenon DEF Stage
<1>11. CASE \E u, v : HeadAt(u, v)
  BY <1>6, <1>11, Zenon DEF Stage
<1>12. CASE \E u, v : ListAt(u, v)
  BY <1>7, <1>12, Zenon DEF Stage
<1> QED
  BY <1>8, <1>9, <1>10, <1>11, <1>12, Zenon DEF Stage

LEMMA TrackStep == IInv /\ Track /\ [Next]_vars => Track'
<1> SUFFICES ASSUME IInv, Track, [Next]_vars PROVE Track'
  OBVIOUS
<1>0. input' = input
  BY Zenon DEF vars, Next, decodeFrame, readInt, readString, readKV, readResults, Return
<1>1. Made(input) /\ Made(input)'
  BY <1>0, Zenon DEF Track
<1>2. CASE input.done = "raw"
  <2>1. input.done' = "raw"
    BY <1>0, <1>2, Zenon
  <2> QED
    BY <1>1, <2>1, Zenon DEF Track
<1>3. CASE input.done # "raw"
  <2>1. Short' = Short /\ Values(input.msg)' = Values(input.msg)
    BY <1>0, Zenon DEF Short, len, Whole
  <2>2. IsMessage(input.msg)
    BY <1>1, <1>3, MadeFrame, Zenon DEF IInv
  <2>3. /\ verdict = "start" => out = <<>>
        /\ verdict = "reading" => Stage
        /\ verdict = "ok" => ~Short /\ out = Values(input.msg)
        /\ verdict \in Errors => Short
    BY <1>3, Zenon DEF Track
  <2>4. "start" \notin Errors /\ "reading" \notin Errors /\ "ok" \notin Errors
    BY DEF Errors
  <2>5. ASSUME Result PROVE Track'
    <3>1. CASE verdict' = "reading" /\ Stage'
      <4>1. verdict' # "start" /\ verdict' # "ok" /\ verdict' \notin Errors
        BY <2>4, <3>1
      <4> QED
        BY <1>1, <3>1, <4>1, Zenon DEF Track
    <3>2. CASE verdict' \in Errors /\ Short
      <4>1. verdict' # "start" /\ verdict' # "ok" /\ verdict' # "reading"
        BY <2>4, <3>2, Zenon
      <4> QED
        BY <1>1, <2>1, <3>2, <4>1, Zenon DEF Track
    <3>3. CASE verdict' = "ok" /\ ~Short /\ out' = Values(input.msg)
      <4>1. verdict' # "start" /\ verdict' # "reading" /\ verdict' \notin Errors
        BY <2>4, <3>3
      <4> QED
        BY <1>1, <2>1, <3>3, <4>1, Zenon DEF Track
    <3> QED
      BY <2>5, <3>1, <3>2, <3>3, Zenon DEF Result
  <2>6. CASE Next /\ verdict = "start"
    <3>1. decodeFrame
      BY <2>6, Zenon DEF Next, readInt, readString, readKV, readResults, Return, At
    <3>2. verdict' = "reading" /\ Stage'
      BY <1>1, <1>3, <2>3, <2>6, <3>1, StartStep, Zenon
    <3> QED
      BY <2>5, <3>2, Zenon DEF Result
  <2>7. CASE Next /\ verdict = "reading"
    BY <2>2, <2>3, <2>5, <2>7, StageStep, Zenon
  <2>8. Next => verdict = "start" \/ verdict = "reading"
    BY Zenon DEF Next, decodeFrame, readInt, readString, readKV, readResults, Return, At
  <2>9. CASE UNCHANGED vars
    <3>1. verdict' = verdict /\ out' = out
      BY <2>9 DEF vars
    <3>2. Stage => Stage'
      BY <2>9, StageSame, Zenon
    <3> QED
      BY <1>1, <2>1, <2>3, <3>1, <3>2, Zenon DEF Track
  <2> QED
    BY <2>6, <2>7, <2>8, <2>9, Zenon
<1> QED
  BY <1>2, <1>3, Zenon

\* Message::encode and decodeMessage: what was written is what is read, and a message
\* of which bytes are missing is refused, whatever the widths of bytes and numbers,
\* whatever the texts, maps and lists, and for every type of message.
THEOREM RoundTrips == Spec => []RoundTrip
<1>1. Spec => []Track
  BY Invariance, TrackInit, TrackStep, PTL DEF Spec
<1>2. IInv /\ Track => RoundTrip
  <2> SUFFICES ASSUME IInv, Track, Done, input.done # "raw"
               PROVE  /\ input.done = "cut" => verdict \in Errors
                      /\ input.done # "cut" => verdict = "ok" /\ out = Values(input.msg)
    BY Zenon DEF RoundTrip
  <2>1. /\ verdict = "ok" => ~Short /\ out = Values(input.msg)
        /\ verdict \in Errors => Short
    BY Zenon DEF Track
  <2>2. verdict = "ok" \/ verdict \in Errors
    BY Zenon DEF IInv, TypeOK, Done
  <2>3. /\ input.done = "cut" => Short
        /\ input.done # "cut" => ~Short
    BY MadeFrame, Zenon DEF IInv, Track
  <2> QED
    BY <2>1, <2>2, <2>3, Zenon
<1> QED
  BY <1>1, <1>2, Invariance, PTL
=============================================================================
