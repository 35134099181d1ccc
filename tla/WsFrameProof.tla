---------------------------- MODULE WsFrameProof -----------------------------
(***************************************************************************)
(* For every stream of frames and every value of the size limits:          *)
(* wsRecvFrame returns whole messages, in order, within the size limit.    *)
(***************************************************************************)
EXTENDS WsFrame, TLAPS, WellFoundedInduction, FiniteSetTheorems

\* The reader gets back the length the writer was given, in each length form.
THEOREM LengthRoundTrip ==
  ASSUME NEW n \in 0..Huge - 1, NEW fin, NEW opcode, NEW masked
  PROVE  PayloadLen(FrameOf(fin, opcode, masked, n)) = n
BY WidthAssumption DEF PayloadLen, FrameOf, LengthFields

-----------------------------------------------------------------------------
(* Types, and with them the size limit.                                    *)

LEMMA AppendType ==
  ASSUME NEW S, NEW q \in Seq(S), NEW v \in S PROVE Append(q, v) \in Seq(S)
OBVIOUS

LEMMA LengthType == ASSUME NEW f \in Frames PROVE PayloadLen(f) \in Nat
BY FrameAssumption DEF Frame, PayloadLen

LEMMA TypeStep == TypeOK /\ [Next]_vars => TypeOK'
<1> SUFFICES ASSUME TypeOK, [Next]_vars PROVE TypeOK'
  OBVIOUS
<1> USE WidthAssumption, FrameAssumption
<1>1. ASSUME NEW f \in Frames, Refuse(f) PROVE TypeOK'
  BY <1>1 DEF Refuse, Arrives, TypeOK
<1>2. ASSUME NEW f \in Frames, CloseFrame(f) PROVE TypeOK'
  <2>1. Reply(f, 8) \in Replies
    BY <1>2, LengthType DEF CloseFrame, Refused, Control, Reply, Replies, MaxControl
  <2>2. replies' \in Seq(Replies)
    <3>1. replies' = Append(replies, Reply(f, 8)) \/ replies' = replies
      BY <1>2, Zenon DEF CloseFrame
    <3>2. replies \in Seq(Replies)
      BY DEF TypeOK
    <3>3. Append(replies, Reply(f, 8)) \in Seq(Replies)
      BY <2>1, <3>2, AppendType, Zenon
    <3> QED
      BY <3>1, <3>2, <3>3, Zenon
  <2>3. state' \in {"reading", "closed", "invalid", "lost"}
    BY <1>2 DEF CloseFrame, TypeOK
  <2>4. stream' = Append(stream, f)
        /\ UNCHANGED <<pieces, size, fragmented, delivered>>
    BY <1>2, Zenon DEF CloseFrame, Arrives
  <2> QED
    BY <2>2, <2>3, <2>4 DEF TypeOK
<1>3. ASSUME NEW f \in Frames, PingFrame(f) PROVE TypeOK'
  <2>1. Reply(f, 10) \in Replies
    BY <1>3, LengthType DEF PingFrame, Refused, Control, Reply, Replies, MaxControl
  <2>2. replies' \in Seq(Replies)
    <3>1. replies' = Append(replies, Reply(f, 10)) \/ replies' = replies
      BY <1>3, Zenon DEF PingFrame
    <3>2. replies \in Seq(Replies)
      BY DEF TypeOK
    <3>3. Append(replies, Reply(f, 10)) \in Seq(Replies)
      BY <2>1, <3>2, AppendType, Zenon
    <3> QED
      BY <3>1, <3>2, <3>3, Zenon
  <2>3. state' \in {"reading", "closed", "invalid", "lost"}
    BY <1>3 DEF PingFrame, TypeOK
  <2>4. stream' = Append(stream, f)
        /\ UNCHANGED <<pieces, size, fragmented, delivered>>
    BY <1>3, Zenon DEF PingFrame, Arrives
  <2> QED
    BY <2>2, <2>3, <2>4 DEF TypeOK
<1>4. ASSUME NEW f \in Frames, PongFrame(f) PROVE TypeOK'
  BY <1>4 DEF PongFrame, Arrives, TypeOK
<1>5. ASSUME NEW f \in Frames, DataFrame(f) PROVE TypeOK'
  <2>1. size + PayloadLen(f) \in 0..MaxSize
    BY <1>5, LengthType, SMTT(30) DEF DataFrame, Refused, TypeOK
  <2>2. Append(pieces, This) \in Seq(Nat)
    BY DEF This, TypeOK
  <2>3. [pieces |-> Append(pieces, This), size |-> size + PayloadLen(f)] \in Messages
    BY <2>1, <2>2 DEF Messages
  <2>4. fragmented' \in BOOLEAN
    BY <1>5, Zenon DEF DataFrame
  <2>5. pieces' \in Seq(Nat) /\ size' \in 0..MaxSize /\ delivered' \in Seq(Messages)
    <3> DEFINE m == [pieces |-> Append(pieces, This), size |-> size + PayloadLen(f)]
    <3>1. \/ delivered' = Append(delivered, m) /\ pieces' = <<>> /\ size' = 0
          \/ /\ delivered' = delivered /\ pieces' = Append(pieces, This)
             /\ size' = size + PayloadLen(f)
      BY <1>5, Zenon DEF DataFrame
    <3>2. delivered \in Seq(Messages)
      BY DEF TypeOK
    <3>3. Append(delivered, m) \in Seq(Messages)
      BY <2>3, <3>2, AppendType, Zenon
    <3>4. 0 \in 0..MaxSize /\ <<>> \in Seq(Nat)
      OBVIOUS
    <3> QED
      BY <2>1, <2>2, <3>1, <3>2, <3>3, <3>4, Zenon
  <2>6. stream' = Append(stream, f) /\ UNCHANGED <<replies, state>>
    BY <1>5, Zenon DEF DataFrame, Arrives
  <2> QED
    BY <2>4, <2>5, <2>6 DEF TypeOK
<1>6. ASSUME NEW f \in Frames, Unexpected(f) PROVE TypeOK'
  BY <1>6 DEF Unexpected, Arrives, TypeOK
<1>7. CASE Lost
  BY <1>7 DEF Lost, TypeOK
<1>8. CASE UNCHANGED vars
  BY <1>8 DEF vars, TypeOK
<1> QED
  BY <1>1, <1>2, <1>3, <1>4, <1>5, <1>6, <1>7, <1>8 DEF Next

\* Types; in particular no buffer and no message is ever larger than
\* MAX_MESSAGE_SIZE, and no reply larger than a control frame may be.
THEOREM TypeCorrect == Spec => []TypeOK
<1>1. Init => TypeOK
  <2> SUFFICES ASSUME Init PROVE TypeOK
    OBVIOUS
  <2>1. stream \in Seq(Frames) /\ pieces \in Seq(Nat)
    BY DEF Init
  <2>2. delivered \in Seq(Messages)
    BY DEF Init
  <2>3. replies \in Seq(Replies)
    BY DEF Init
  <2>4. size \in 0..MaxSize
    BY WidthAssumption DEF Init
  <2>6. fragmented \in BOOLEAN
    BY Zenon DEF Init
  <2>5. state \in {"reading", "closed", "invalid", "lost"}
    BY DEF Init
  <2> QED
    BY <2>1, <2>2, <2>3, <2>4, <2>5, <2>6 DEF TypeOK
<1> QED
  BY <1>1, TypeStep, PTL DEF Spec

-----------------------------------------------------------------------------
(* Whole messages.                                                         *)

\* The frames p are what has been read of the message after the messages ds.
Pending(s, ds, p) ==
  /\ Chain(s, p)
  /\ p = <<>> => NoDataBetween(s, End(ds, Len(ds)), Len(s) + 1)
  /\ p # <<>> => /\ ~s[p[Len(p)]].fin
                 /\ NoDataBetween(s, p[Len(p)], Len(s) + 1)
                 /\ Follows(s, ds, Len(ds), p)

\* A frame that is appended to the stream changes none of the earlier ones.
LEMMA AppendFrame ==
  ASSUME NEW s \in Seq(Frames), NEW f \in Frames
  PROVE  /\ Append(s, f) \in Seq(Frames)
         /\ Len(Append(s, f)) = Len(s) + 1
         /\ \A k \in 1..Len(s) : Append(s, f)[k] = s[k]
         /\ Append(s, f)[Len(s) + 1] = f
OBVIOUS

LEMMA AppendPiece ==
  ASSUME NEW p \in Seq(Nat), NEW k \in Nat
  PROVE  /\ Append(p, k) \in Seq(Nat) /\ Append(p, k) # <<>>
         /\ Len(Append(p, k)) = Len(p) + 1
         /\ \A n \in 1..Len(p) : Append(p, k)[n] = p[n]
         /\ Append(p, k)[Len(p) + 1] = k
OBVIOUS

LEMMA NoDataGrows ==
  ASSUME NEW s \in Seq(Frames), NEW f \in Frames, NEW i \in Nat, NEW j \in Nat,
         j <= Len(s) + 1, NoDataBetween(s, i, j)
  PROVE  NoDataBetween(Append(s, f), i, j)
<1> SUFFICES ASSUME NEW k \in i + 1..j - 1 PROVE ~Data(Append(s, f), k)
  BY DEF NoDataBetween
<1>1. k \in 1..Len(s) /\ ~Data(s, k)
  BY DEF NoDataBetween
<1> QED
  BY <1>1, AppendFrame DEF Data

LEMMA NoDataControl ==
  ASSUME NEW s \in Seq(Frames), NEW f \in Frames, NEW i \in Nat,
         NoDataBetween(s, i, Len(s) + 1), f.opcode \notin {0, 2}
  PROVE  NoDataBetween(Append(s, f), i, Len(s) + 2)
<1> SUFFICES ASSUME NEW k \in i + 1..Len(s) + 1 PROVE ~Data(Append(s, f), k)
  BY DEF NoDataBetween
<1>1. CASE k = Len(s) + 1
  BY <1>1, AppendFrame DEF Data
<1>2. CASE k # Len(s) + 1
  <2>1. k \in 1..Len(s) /\ ~Data(s, k)
    BY <1>2 DEF NoDataBetween
  <2> QED
    BY <2>1, AppendFrame DEF Data
<1> QED
  BY <1>1, <1>2

LEMMA ChainGrows ==
  ASSUME NEW s \in Seq(Frames), NEW f \in Frames, NEW p \in Seq(Nat), Chain(s, p)
  PROVE  Chain(Append(s, f), p)
<1>1. ASSUME NEW n \in 1..Len(p)
      PROVE  /\ p[n] \in 1..Len(Append(s, f))
             /\ Append(s, f)[p[n]].opcode = (IF n = 1 THEN 2 ELSE 0)
  BY AppendFrame DEF Chain
<1>2. ASSUME NEW n \in 1..Len(p) - 1
      PROVE  /\ ~Append(s, f)[p[n]].fin
             /\ p[n] < p[n + 1]
             /\ NoDataBetween(Append(s, f), p[n], p[n + 1])
  <2>1. /\ p[n] \in 1..Len(s) /\ p[n + 1] \in 1..Len(s) /\ ~s[p[n]].fin
        /\ p[n] < p[n + 1] /\ NoDataBetween(s, p[n], p[n + 1])
    BY SMTT(30) DEF Chain
  <2>2. NoDataBetween(Append(s, f), p[n], p[n + 1])
    BY <2>1, NoDataGrows
  <2> QED
    BY <2>1, <2>2, AppendFrame
<1> QED
  BY <1>1, <1>2, Zenon DEF Chain

\* The messages ds and the frames they are made of have their types.
LEMMA EndType ==
  ASSUME NEW s \in Seq(Frames), NEW ds \in Seq(Messages), Whole(s, ds),
         NEW n \in 0..Len(ds)
  PROVE  End(ds, n) \in 0..Len(s)
<1>1. CASE n = 0
  BY <1>1 DEF End
<1>2. CASE n # 0
  <2>1. n \in 1..Len(ds) /\ ds[n] \in Messages
    BY <1>2
  <2>2. ds[n].pieces \in Seq(Nat)
    BY <2>1 DEF Messages
  <2>3. ds[n].pieces # <<>> /\ Chain(s, ds[n].pieces)
    BY <2>1 DEF Whole
  <2>4. Len(ds[n].pieces) \in 1..Len(ds[n].pieces)
    BY <2>2, <2>3
  <2> QED
    BY <1>2, <2>3, <2>4 DEF Chain, End
<1> QED
  BY <1>1, <1>2

LEMMA FollowsGrows ==
  ASSUME NEW s \in Seq(Frames), NEW f \in Frames, NEW ds \in Seq(Messages),
         Whole(s, ds), NEW n \in 0..Len(ds), NEW p \in Seq(Nat), p # <<>>,
         p[1] <= Len(s) + 1, Follows(s, ds, n, p)
  PROVE  Follows(Append(s, f), ds, n, p)
<1>1. End(ds, n) \in Nat /\ p[1] \in Nat
  BY EndType
<1> QED
  BY <1>1, NoDataGrows DEF Follows

LEMMA WholeGrows ==
  ASSUME NEW s \in Seq(Frames), NEW f \in Frames, NEW ds \in Seq(Messages),
         Whole(s, ds)
  PROVE  Whole(Append(s, f), ds)
<1> SUFFICES ASSUME NEW n \in 1..Len(ds)
             PROVE  /\ ds[n].pieces # <<>>
                    /\ Chain(Append(s, f), ds[n].pieces)
                    /\ Append(s, f)[End(ds, n)].fin
                    /\ Follows(Append(s, f), ds, n - 1, ds[n].pieces)
  BY Zenon DEF Whole
<1>1. /\ ds[n].pieces # <<>> /\ Chain(s, ds[n].pieces)
      /\ s[End(ds, n)].fin /\ Follows(s, ds, n - 1, ds[n].pieces)
  BY DEF Whole
<1>2. ds[n].pieces \in Seq(Nat)
  <2>1. ds[n] \in Messages
    OBVIOUS
  <2> QED
    BY <2>1 DEF Messages
<1>3. Chain(Append(s, f), ds[n].pieces)
  BY <1>1, <1>2, ChainGrows
<1>4. End(ds, n) \in 1..Len(s)
  <2>1. Len(ds[n].pieces) \in 1..Len(ds[n].pieces)
    BY <1>1, <1>2
  <2> QED
    BY <1>1, <2>1 DEF Chain, End
<1>5. ds[n].pieces[1] <= Len(s) + 1
  <2>1. 1 \in 1..Len(ds[n].pieces)
    BY <1>1, <1>2
  <2>2. ds[n].pieces[1] \in 1..Len(s)
    BY <1>1, <2>1 DEF Chain
  <2> QED
    BY <2>2
<1>6. Follows(Append(s, f), ds, n - 1, ds[n].pieces)
  BY <1>1, <1>2, <1>5, FollowsGrows, SMTT(30)
<1> QED
  BY <1>1, <1>3, <1>4, <1>6, AppendFrame

\* A control frame leaves the message that is being read as it is.
LEMMA PendingControl ==
  ASSUME NEW s \in Seq(Frames), NEW f \in Frames, NEW ds \in Seq(Messages),
         Whole(s, ds), NEW p \in Seq(Nat), Pending(s, ds, p), f.opcode \notin {0, 2}
  PROVE  Pending(Append(s, f), ds, p)
<1>1. Chain(Append(s, f), p)
  BY ChainGrows DEF Pending
<1>2. Len(Append(s, f)) + 1 = Len(s) + 2
  OBVIOUS
<1>3. ASSUME p = <<>>
      PROVE  NoDataBetween(Append(s, f), End(ds, Len(ds)), Len(s) + 2)
  <2>1. End(ds, Len(ds)) \in Nat
    BY EndType
  <2> QED
    BY <1>3, <2>1, NoDataControl DEF Pending
<1>4. ASSUME p # <<>>
      PROVE  /\ ~Append(s, f)[p[Len(p)]].fin
             /\ NoDataBetween(Append(s, f), p[Len(p)], Len(s) + 2)
             /\ Follows(Append(s, f), ds, Len(ds), p)
  <2>1. Len(p) \in 1..Len(p) /\ 1 \in 1..Len(p)
    BY <1>4
  <2>2. p[Len(p)] \in 1..Len(s) /\ p[1] \in 1..Len(s)
    BY <2>1 DEF Pending, Chain
  <2>3. ~Append(s, f)[p[Len(p)]].fin
    BY <1>4, <2>2, AppendFrame DEF Pending
  <2>4. NoDataBetween(Append(s, f), p[Len(p)], Len(s) + 2)
    BY <1>4, <2>2, NoDataControl DEF Pending
  <2>5. Follows(Append(s, f), ds, Len(ds), p)
    <3>1. Follows(s, ds, Len(ds), p)
      BY <1>4, Zenon DEF Pending
    <3>2. Len(ds) \in 0..Len(ds) /\ p[1] <= Len(s) + 1
      BY <2>2
    <3> QED
      BY <1>4, <3>1, <3>2, FollowsGrows, Zenon
  <2> QED
    BY <2>3, <2>4, <2>5, Zenon
<1> QED
  BY <1>1, <1>2, <1>3, <1>4, Zenon DEF Pending

\* The next data frame of the message continues its chain.
LEMMA ChainExtends ==
  ASSUME NEW s \in Seq(Frames), NEW f \in Frames, NEW ds \in Seq(Messages),
         Whole(s, ds), NEW p \in Seq(Nat), Pending(s, ds, p),
         f.opcode = (IF p = <<>> THEN 2 ELSE 0)
  PROVE  /\ Chain(Append(s, f), Append(p, Len(s) + 1))
         /\ Follows(Append(s, f), ds, Len(ds), Append(p, Len(s) + 1))
<1> DEFINE t == Append(s, f)
           q == Append(p, Len(s) + 1)
<1>1. /\ q \in Seq(Nat) /\ Len(q) = Len(p) + 1 /\ q # <<>>
      /\ \A n \in 1..Len(p) : q[n] = p[n]
      /\ q[Len(p) + 1] = Len(s) + 1
  <2>1. Len(s) + 1 \in Nat
    OBVIOUS
  <2> QED
    BY <2>1, AppendPiece
<1>2. Chain(t, p)
  BY ChainGrows DEF Pending
<1>3. Len(t) = Len(s) + 1 /\ t[Len(s) + 1] = f
  BY AppendFrame
<1>4. ASSUME NEW n \in 1..Len(q)
      PROVE  q[n] \in 1..Len(t) /\ t[q[n]].opcode = (IF n = 1 THEN 2 ELSE 0)
  <2>1. CASE n = Len(p) + 1
    <3>1. q[n] = Len(s) + 1 /\ t[q[n]] = f
      BY <1>1, <1>3, <2>1
    <3>2. p = <<>> <=> n = 1
      BY <2>1
    <3> HIDE DEF t, q
    <3>3. q[n] \in 1..Len(t)
      BY <1>3, <3>1
    <3> QED
      BY <3>1, <3>2, <3>3, Zenon
  <2>2. CASE n # Len(p) + 1
    <3>1. n \in 1..Len(p) /\ q[n] = p[n]
      BY <1>1, <2>2
    <3> HIDE DEF t, q
    <3> QED
      BY <1>2, <3>1 DEF Chain
  <2> QED
    BY <2>1, <2>2
<1>5. ASSUME NEW n \in 1..Len(q) - 1
      PROVE  /\ ~t[q[n]].fin /\ q[n] < q[n + 1]
             /\ NoDataBetween(t, q[n], q[n + 1])
  <2>1. n \in 1..Len(p) /\ q[n] = p[n]
    BY <1>1
  <2>2. CASE n = Len(p)
    <3>1. q[n + 1] = Len(s) + 1 /\ p # <<>>
      BY <1>1, <2>1, <2>2
    <3>2. p[n] \in 1..Len(s)
      BY <2>1 DEF Pending, Chain
    <3>3. ~s[p[n]].fin /\ NoDataBetween(s, p[n], Len(s) + 1)
      BY <2>2, <3>1 DEF Pending
    <3>4. NoDataBetween(t, p[n], Len(s) + 1)
      BY <3>2, <3>3, NoDataGrows
    <3>5. ~t[p[n]].fin
      BY <3>2, <3>3, AppendFrame
    <3> QED
      BY <2>1, <3>1, <3>2, <3>4, <3>5, SMTT(30)
  <2>3. CASE n # Len(p)
    <3>1. n \in 1..Len(p) - 1 /\ q[n + 1] = p[n + 1]
      BY <1>1, <2>1, <2>3
    <3> HIDE DEF t, q
    <3> QED
      BY <1>2, <2>1, <3>1 DEF Chain
  <2> QED
    BY <2>2, <2>3, Zenon
<1>6. Chain(t, q)
  BY <1>4, <1>5, Zenon DEF Chain
<1>7. Follows(t, ds, Len(ds), q)
  <2>1. End(ds, Len(ds)) \in 0..Len(s)
    BY EndType
  <2>2. CASE p = <<>>
    <3>1. q[1] = Len(s) + 1
      BY <1>1, <2>2
    <3>2. NoDataBetween(s, End(ds, Len(ds)), Len(s) + 1)
      BY <2>2 DEF Pending
    <3>3. NoDataBetween(t, End(ds, Len(ds)), Len(s) + 1)
      BY <2>1, <3>2, NoDataGrows
    <3> QED
      BY <2>1, <3>1, <3>3 DEF Follows
  <2>3. CASE p # <<>>
    <3>1. 1 \in 1..Len(p) /\ q[1] = p[1]
      BY <1>1, <2>3
    <3>2. p[1] \in 1..Len(s)
      BY <3>1 DEF Pending, Chain
    <3>3. Follows(t, ds, Len(ds), p)
      BY <2>3, <3>2, FollowsGrows DEF Pending
    <3> HIDE DEF t, q
    <3> QED
      BY <3>1, <3>3 DEF Follows
  <2> QED
    BY <2>2, <2>3
<1> QED
  BY <1>6, <1>7

\* A fragment that is not the last is added to the message that is being read.
LEMMA PendingExtends ==
  ASSUME NEW s \in Seq(Frames), NEW f \in Frames, NEW ds \in Seq(Messages),
         Whole(s, ds), NEW p \in Seq(Nat), Pending(s, ds, p),
         f.opcode = (IF p = <<>> THEN 2 ELSE 0), ~f.fin
  PROVE  Pending(Append(s, f), ds, Append(p, Len(s) + 1))
<1> DEFINE t == Append(s, f)
           q == Append(p, Len(s) + 1)
<1>1. Len(q) = Len(p) + 1 /\ q # <<>> /\ q[Len(q)] = Len(s) + 1
  <2>1. Len(s) + 1 \in Nat
    OBVIOUS
  <2> QED
    BY <2>1, AppendPiece
<1>2. Len(t) = Len(s) + 1 /\ t[Len(s) + 1] = f
  BY AppendFrame
<1>3. NoDataBetween(t, Len(s) + 1, Len(t) + 1)
  BY <1>2 DEF NoDataBetween
<1>4. Chain(t, q) /\ Follows(t, ds, Len(ds), q)
  BY ChainExtends
<1> HIDE DEF t, q
<1> QED
  BY <1>1, <1>2, <1>3, <1>4 DEF Pending, t, q

\* The last fragment completes the message, and nothing is pending.
LEMMA Delivers ==
  ASSUME NEW s \in Seq(Frames), NEW f \in Frames, NEW ds \in Seq(Messages),
         Whole(s, ds), NEW p \in Seq(Nat), Pending(s, ds, p),
         f.opcode = (IF p = <<>> THEN 2 ELSE 0), f.fin,
         NEW m \in Messages, m.pieces = Append(p, Len(s) + 1)
  PROVE  /\ Whole(Append(s, f), Append(ds, m))
         /\ Pending(Append(s, f), Append(ds, m), <<>>)
<1> DEFINE t == Append(s, f)
           q == Append(p, Len(s) + 1)
           es == Append(ds, m)
<1>1. /\ es \in Seq(Messages) /\ Len(es) = Len(ds) + 1
      /\ \A n \in 1..Len(ds) : es[n] = ds[n]
      /\ es[Len(ds) + 1] = m
  OBVIOUS
<1>2. \A n \in 0..Len(ds) : End(es, n) = End(ds, n)
  BY <1>1 DEF End
<1>3. Len(q) = Len(p) + 1 /\ q # <<>> /\ q[Len(q)] = Len(s) + 1
  OBVIOUS
<1>4. End(es, Len(es)) = Len(s) + 1
  <2> HIDE DEF es, q
  <2>1. Len(es) # 0
    BY <1>1
  <2>2. es[Len(es)].pieces = q
    BY <1>1, Zenon DEF q
  <2> QED
    BY <1>3, <2>1, <2>2, Zenon DEF End
<1>5. Whole(t, ds)
  BY WholeGrows
<1>6. Chain(t, q) /\ Follows(t, ds, Len(ds), q)
  BY ChainExtends
<1>7. t[Len(s) + 1] = f /\ Len(t) = Len(s) + 1
  BY AppendFrame
<1> HIDE DEF t, q, es
<1>8. ASSUME NEW n \in 1..Len(es)
      PROVE  /\ es[n].pieces # <<>>
             /\ Chain(t, es[n].pieces)
             /\ t[End(es, n)].fin
             /\ Follows(t, es, n - 1, es[n].pieces)
  <2>1. CASE n = Len(ds) + 1
    <3>1. es[n].pieces = q
      BY <1>1, <2>1, Zenon DEF q
    <3>2. End(es, n - 1) = End(ds, Len(ds)) /\ End(es, n) = Len(s) + 1
      BY <1>1, <1>2, <1>4, <2>1
    <3> QED
      BY <1>3, <1>6, <1>7, <3>1, <3>2 DEF Follows
  <2>2. CASE n # Len(ds) + 1
    <3>1. n \in 1..Len(ds) /\ es[n] = ds[n]
      BY <1>1, <2>2
    <3>2. End(es, n) = End(ds, n) /\ End(es, n - 1) = End(ds, n - 1)
      BY <1>2, <3>1
    <3> QED
      BY <1>5, <3>1, <3>2 DEF Whole, Follows
  <2> QED
    BY <2>1, <2>2
<1>9. Whole(t, es)
  BY <1>8 DEF Whole
<1>10. Pending(t, es, <<>>)
  <2>1. NoDataBetween(t, End(es, Len(es)), Len(t) + 1)
    BY <1>4, <1>7 DEF NoDataBetween
  <2>2. Chain(t, <<>>)
    BY DEF Chain
  <2> QED
    BY <2>1, <2>2 DEF Pending
<1> QED
  BY <1>9, <1>10 DEF t, es

\* What is being read is the beginning of the next message.
Assembling ==
  /\ fragmented <=> pieces # <<>>
  /\ state = "reading" => Pending(stream, delivered, pieces)

LEMMA InitInv == Init => MessagesWhole /\ Assembling
<1> SUFFICES ASSUME Init PROVE MessagesWhole /\ Assembling
  OBVIOUS
<1>1. stream = <<>> /\ pieces = <<>> /\ delivered = <<>>
  BY DEF Init
<1>2. fragmented <=> pieces # <<>>
  BY Zenon DEF Init
<1>3. Whole(<<>>, <<>>)
  BY DEF Whole
<1>4. Pending(<<>>, <<>>, <<>>)
  <2>1. Chain(<<>>, <<>>)
    BY DEF Chain
  <2>2. End(<<>>, 0) = 0
    BY DEF End
  <2>3. NoDataBetween(<<>>, 0, 1)
    BY DEF NoDataBetween
  <2> QED
    BY <2>1, <2>2, <2>3 DEF Pending
<1> QED
  BY <1>1, <1>2, <1>3, <1>4 DEF MessagesWhole, Assembling

\* A step that reads a frame and ends the receive loop.
LEMMA Ends ==
  ASSUME TypeOK, MessagesWhole, Assembling, NEW f \in Frames, Arrives(f),
         state' # "reading", UNCHANGED <<pieces, fragmented, delivered>>
  PROVE  MessagesWhole' /\ Assembling'
<1>1. stream' = Append(stream, f) /\ delivered' = delivered
  BY DEF Arrives
<1>2. Whole(Append(stream, f), delivered)
  BY WholeGrows DEF TypeOK, MessagesWhole
<1>3. fragmented' <=> pieces' # <<>>
  BY Zenon DEF Assembling
<1> QED
  BY <1>1, <1>2, <1>3 DEF MessagesWhole, Assembling

\* A step that reads a control frame and goes on.
LEMMA GoesOn ==
  ASSUME TypeOK, MessagesWhole, Assembling, NEW f \in Frames, Arrives(f),
         f.opcode \notin {0, 2}, UNCHANGED <<pieces, fragmented, delivered, state>>
  PROVE  MessagesWhole' /\ Assembling'
<1>1. stream' = Append(stream, f) /\ delivered' = delivered /\ pieces' = pieces
      /\ state = "reading"
  BY DEF Arrives
<1>2. Whole(Append(stream, f), delivered)
  BY WholeGrows DEF TypeOK, MessagesWhole
<1>3. Pending(Append(stream, f), delivered, pieces)
  BY <1>1, PendingControl DEF TypeOK, MessagesWhole, Assembling
<1>4. fragmented' <=> pieces' # <<>>
  BY Zenon DEF Assembling
<1> QED
  BY <1>1, <1>2, <1>3, <1>4 DEF MessagesWhole, Assembling

\* A step that reads a fragment or a whole message.
LEMMA Reads ==
  ASSUME TypeOK, MessagesWhole, Assembling, NEW f \in Frames, DataFrame(f)
  PROVE  MessagesWhole' /\ Assembling'
<1> DEFINE m == [pieces |-> Append(pieces, This), size |-> size + PayloadLen(f)]
<1>1. Arrives(f)
  BY Zenon DEF DataFrame
<1>2. stream' = Append(stream, f) /\ state = "reading"
  BY <1>1 DEF Arrives
<1>3. Whole(stream, delivered) /\ Pending(stream, delivered, pieces)
  BY <1>2 DEF MessagesWhole, Assembling
<1>4. /\ stream \in Seq(Frames) /\ delivered \in Seq(Messages)
      /\ pieces \in Seq(Nat) /\ Len(stream) + 1 \in Nat
  BY DEF TypeOK
<1>5. f.opcode = (IF pieces = <<>> THEN 2 ELSE 0)
  <2>1. f.opcode = (IF fragmented THEN 0 ELSE 2)
    BY Zenon DEF DataFrame
  <2>2. fragmented <=> pieces # <<>>
    BY DEF Assembling
  <2> QED
    BY <2>1, <2>2
<1>6. CASE f.fin
  <2>1. /\ delivered' = Append(delivered, m) /\ pieces' = <<>>
        /\ fragmented' = FALSE /\ state' = state
    BY <1>6, Zenon DEF DataFrame
  <2>2. m \in Messages /\ m.pieces = Append(pieces, Len(stream) + 1)
    <3>1. size + PayloadLen(f) \in 0..MaxSize
      <4>1. ~Refused(f)
        BY Zenon DEF DataFrame
      <4> QED
        BY <4>1, LengthType, WidthAssumption DEF Refused, TypeOK
    <3>2. Append(pieces, Len(stream) + 1) \in Seq(Nat)
      BY <1>4, AppendPiece
    <3> QED
      BY <3>1, <3>2 DEF Messages, This
  <2>3. /\ Whole(Append(stream, f), Append(delivered, m))
        /\ Pending(Append(stream, f), Append(delivered, m), <<>>)
    <3> HIDE DEF m
    <3> QED
      BY <1>3, <1>4, <1>5, <1>6, <2>2, Delivers
  <2>4. fragmented' <=> pieces' # <<>>
    BY <2>1, Zenon
  <2> HIDE DEF m
  <2> QED
    BY <1>2, <2>1, <2>3, <2>4 DEF MessagesWhole, Assembling
<1>7. CASE ~f.fin
  <2>1. /\ delivered' = delivered /\ pieces' = Append(pieces, This)
        /\ fragmented' = TRUE /\ state' = state
    BY <1>7, Zenon DEF DataFrame
  <2>2. Pending(Append(stream, f), delivered, Append(pieces, Len(stream) + 1))
    BY <1>3, <1>4, <1>5, <1>7, PendingExtends
  <2>3. Whole(Append(stream, f), delivered)
    BY <1>3, <1>4, WholeGrows
  <2>4. Append(pieces, This) # <<>>
    BY <1>4, AppendPiece DEF This
  <2>5. fragmented' <=> pieces' # <<>>
    BY <2>1, <2>4, Zenon
  <2> QED
    BY <1>2, <2>1, <2>2, <2>3, <2>5 DEF MessagesWhole, Assembling, This
<1> QED
  BY <1>6, <1>7

LEMMA AssemblingInv == Spec => [](TypeOK /\ MessagesWhole /\ Assembling)
<1>1. Init => MessagesWhole /\ Assembling
  BY InitInv
<1>2. /\ TypeOK /\ MessagesWhole /\ Assembling /\ [Next]_vars
      => MessagesWhole' /\ Assembling'
  <2> SUFFICES ASSUME TypeOK, MessagesWhole, Assembling, [Next]_vars
               PROVE  MessagesWhole' /\ Assembling'
    OBVIOUS
  <2>1. ASSUME NEW f \in Frames, Refuse(f) PROVE MessagesWhole' /\ Assembling'
    BY <2>1, Ends DEF Refuse
  <2>2. ASSUME NEW f \in Frames, CloseFrame(f) PROVE MessagesWhole' /\ Assembling'
    BY <2>2, Ends DEF CloseFrame
  <2>3. ASSUME NEW f \in Frames, PingFrame(f) PROVE MessagesWhole' /\ Assembling'
    <3>1. /\ Arrives(f) /\ f.opcode = 9
          /\ UNCHANGED <<pieces, fragmented, delivered>>
          /\ state' = "lost" \/ state' = state
      BY <2>3, Zenon DEF PingFrame
    <3>2. f.opcode \notin {0, 2}
      BY <3>1
    <3> QED
      BY <3>1, <3>2, Ends, GoesOn
  <2>4. ASSUME NEW f \in Frames, PongFrame(f) PROVE MessagesWhole' /\ Assembling'
    <3>1. /\ Arrives(f) /\ f.opcode = 10
          /\ UNCHANGED <<pieces, fragmented, delivered, state>>
      BY <2>4, Zenon DEF PongFrame
    <3>2. f.opcode \notin {0, 2}
      BY <3>1
    <3> QED
      BY <3>1, <3>2, GoesOn
  <2>5. ASSUME NEW f \in Frames, DataFrame(f) PROVE MessagesWhole' /\ Assembling'
    BY <2>5, Reads
  <2>6. ASSUME NEW f \in Frames, Unexpected(f) PROVE MessagesWhole' /\ Assembling'
    BY <2>6, Ends DEF Unexpected
  <2>7. CASE Lost
    <3>1. /\ UNCHANGED <<stream, pieces, fragmented, delivered>>
          /\ state' = "lost"
      BY <2>7 DEF Lost
    <3> QED
      BY <3>1 DEF MessagesWhole, Assembling
  <2>8. CASE UNCHANGED vars
    BY <2>8 DEF vars, MessagesWhole, Assembling
  <2> QED
    BY <2>1, <2>2, <2>3, <2>4, <2>5, <2>6, <2>7, <2>8 DEF Next
<1> QED
  BY <1>1, <1>2, TypeCorrect, PTL DEF Spec

\* wsRecvFrame returns the messages of its peer whole and in order, for every
\* stream of frames.
THEOREM Reassembly == Spec => []MessagesWhole
BY AssemblingInv, PTL

-----------------------------------------------------------------------------
(* Sums over the stream.                                                   *)

\* Induction, for a set of natural numbers: the least number outside of it
\* would be neither 0 nor a successor.
LEMMA NatInd ==
  ASSUME NEW S \in SUBSET Nat, 0 \in S, \A n \in S : n + 1 \in S
  PROVE  S = Nat
<1> DEFINE R == OpToRel(<, Nat)
           T == Nat \ S
<1>1. IsWellFoundedOn(R, Nat)
  BY NatLessThanWellFounded, Zenon
<1>2. \A x, y \in Nat : <<y, x>> \in R <=> y < x
  BY DEF OpToRel
<1> HIDE DEF R
<1> SUFFICES ASSUME T # {} PROVE FALSE
  BY Zenon
<1>3. PICK x \in T : \A y \in T : ~(<<y, x>> \in R)
  <2> HIDE DEF T
  <2>1. T \subseteq Nat
    BY DEF T
  <2> QED
    BY <1>1, <2>1, WFMin, Zenon
<1>4. x \in Nat /\ x # 0 /\ x - 1 \in Nat
  OBVIOUS
<1>5. x - 1 \in S
  <2>1. <<x - 1, x>> \in R
    BY <1>2, <1>4
  <2> QED
    BY <1>3, <1>4, <2>1
<1> QED
  BY <1>4, <1>5

\* The partial sums of Meant, as the function that its definition chooses.
Sums(s, S, g, m) ==
  g = [n \in 0..m |->
         IF n = 0 THEN 0 ELSE g[n - 1] + (IF n \in S THEN s[n].len ELSE 0)]

LEMMA SumsExist ==
  ASSUME NEW s, NEW S, NEW m \in Nat
  PROVE  \E g : Sums(s, S, g, m)
<1> DEFINE Good == {k \in Nat : \E g : Sums(s, S, g, k)}
<1>1. 0 \in Good
  <2>1. Sums(s, S, [n \in 0..0 |-> 0], 0)
    BY DEF Sums
  <2> QED
    BY <2>1
<1>2. ASSUME NEW k \in Good PROVE k + 1 \in Good
  <2>1. PICK g : Sums(s, S, g, k)
    OBVIOUS
  <2> DEFINE Last == g[k] + (IF k + 1 \in S THEN s[k + 1].len ELSE 0)
             h == [n \in 0..k + 1 |-> IF n <= k THEN g[n] ELSE Last]
  <2>2. ASSUME NEW n \in 0..k + 1
        PROVE  h[n] = IF n = 0 THEN 0
                      ELSE h[n - 1] + (IF n \in S THEN s[n].len ELSE 0)
    <3>1. CASE n = 0
      BY <2>1, <3>1 DEF Sums
    <3>2. CASE n \in 1..k
      BY <2>1, <3>2 DEF Sums
    <3>3. CASE n = k + 1
      BY <2>1, <3>3 DEF Sums
    <3> QED
      BY <3>1, <3>2, <3>3
  <2>3. h = [n \in 0..k + 1 |->
               IF n = 0 THEN 0
               ELSE h[n - 1] + (IF n \in S THEN s[n].len ELSE 0)]
    BY <2>2, Zenon
  <2>4. Sums(s, S, h, k + 1)
    BY <2>3, Zenon DEF Sums
  <2> QED
    BY <2>4
<1> HIDE DEF Good
<1>3. Good = Nat
  <2>1. Good \in SUBSET Nat
    BY DEF Good
  <2> QED
    BY <1>1, <1>2, <2>1, NatInd
<1> QED
  BY <1>3 DEF Good

LEMMA MeantSums ==
  ASSUME NEW s \in Seq(Frames), NEW S
  PROVE  \E g : Sums(s, S, g, Len(s)) /\ Meant(s, S) = g[Len(s)]
<1> DEFINE F == CHOOSE g : Sums(s, S, g, Len(s))
<1>1. Sums(s, S, F, Len(s))
  BY SumsExist
<1>2. Meant(s, S) = F[Len(s)]
  BY DEF Meant, Sums
<1> QED
  BY <1>1, <1>2, Zenon

\* Sums that add the same lengths are the same.
LEMMA SumsAgree ==
  ASSUME NEW s, NEW S, NEW g, NEW t, NEW T, NEW h, NEW m \in Nat, NEW k \in Nat, k <= m,
         Sums(s, S, g, k), Sums(t, T, h, m),
         \A n \in 1..k : /\ n \in S <=> n \in T
                         /\ n \in S => s[n].len = t[n].len
  PROVE  g[k] = h[k]
<1> DEFINE Good == {n \in Nat : n <= k => g[n] = h[n]}
<1>1. 0 \in Good
  BY DEF Sums
<1>2. ASSUME NEW n \in Good PROVE n + 1 \in Good
  <2> SUFFICES ASSUME n + 1 <= k PROVE g[n + 1] = h[n + 1]
    OBVIOUS
  <2>1. g[n] = h[n] /\ n + 1 \in 1..k
    OBVIOUS
  <2>2. g[n + 1] = g[n] + (IF n + 1 \in S THEN s[n + 1].len ELSE 0)
    BY <2>1 DEF Sums
  <2>3. h[n + 1] = h[n] + (IF n + 1 \in T THEN t[n + 1].len ELSE 0)
    BY <2>1 DEF Sums
  <2> QED
    BY <2>1, <2>2, <2>3
<1> HIDE DEF Good
<1>3. Good = Nat
  <2>1. Good \in SUBSET Nat
    BY DEF Good
  <2> QED
    BY <1>1, <1>2, <2>1, NatInd
<1> QED
  BY <1>3 DEF Good

\* A sum of lengths is a natural number.
LEMMA MeantType ==
  ASSUME NEW s \in Seq(Frames), NEW S PROVE Meant(s, S) \in Nat
<1>1. PICK g : Sums(s, S, g, Len(s)) /\ Meant(s, S) = g[Len(s)]
  BY MeantSums
<1> DEFINE Good == {n \in Nat : n <= Len(s) => g[n] \in Nat}
<1>2. 0 \in Good
  BY <1>1 DEF Sums
<1>3. ASSUME NEW n \in Good PROVE n + 1 \in Good
  <2> SUFFICES ASSUME n + 1 <= Len(s) PROVE g[n + 1] \in Nat
    OBVIOUS
  <2>1. g[n] \in Nat /\ n + 1 \in 1..Len(s)
    OBVIOUS
  <2>2. s[n + 1].len \in Nat
    BY <2>1, FrameAssumption DEF Frame
  <2>3. g[n + 1] = g[n] + (IF n + 1 \in S THEN s[n + 1].len ELSE 0)
    BY <1>1, <2>1 DEF Sums
  <2> QED
    BY <2>1, <2>2, <2>3
<1> HIDE DEF Good
<1>4. Good = Nat
  <2>1. Good \in SUBSET Nat
    BY DEF Good
  <2> QED
    BY <1>2, <1>3, <2>1, NatInd
<1> QED
  BY <1>1, <1>4 DEF Good

LEMMA MeantEmpty == ASSUME NEW s \in Seq(Frames) PROVE Meant(s, {}) = 0
<1>1. PICK g : Sums(s, {}, g, Len(s)) /\ Meant(s, {}) = g[Len(s)]
  BY MeantSums
<1> DEFINE Good == {n \in Nat : n <= Len(s) => g[n] = 0}
<1>2. 0 \in Good
  BY <1>1 DEF Sums
<1>3. ASSUME NEW n \in Good PROVE n + 1 \in Good
  <2> SUFFICES ASSUME n + 1 <= Len(s) PROVE g[n + 1] = 0
    OBVIOUS
  <2>1. g[n] = 0 /\ n + 1 \in 1..Len(s)
    OBVIOUS
  <2> QED
    BY <1>1, <2>1 DEF Sums
<1> HIDE DEF Good
<1>4. Good = Nat
  <2>1. Good \in SUBSET Nat
    BY DEF Good
  <2> QED
    BY <1>2, <1>3, <2>1, NatInd
<1> QED
  BY <1>1, <1>4 DEF Good

\* The next frame adds its length if it is one of the frames, and nothing if not.
LEMMA MeantAppend ==
  ASSUME NEW s \in Seq(Frames), NEW f \in Frames, NEW S \in SUBSET (1..Len(s)), NEW T,
         T = S \/ T = S \cup {Len(s) + 1}
  PROVE  Meant(Append(s, f), T)
           = Meant(s, S) + (IF Len(s) + 1 \in T THEN f.len ELSE 0)
<1> DEFINE t == Append(s, f)
<1>1. t \in Seq(Frames) /\ Len(t) = Len(s) + 1 /\ t[Len(s) + 1] = f
      /\ \A k \in 1..Len(s) : t[k] = s[k]
  BY AppendFrame
<1> HIDE DEF t
<1>2. PICK g : Sums(s, S, g, Len(s)) /\ Meant(s, S) = g[Len(s)]
  BY MeantSums
<1>3. PICK h : Sums(t, T, h, Len(t)) /\ Meant(t, T) = h[Len(t)]
  BY <1>1, MeantSums
<1>4. \A n \in 1..Len(s) : n \in S <=> n \in T
  OBVIOUS
<1>5. g[Len(s)] = h[Len(s)]
  <2>1. Len(s) \in Nat /\ Len(t) \in Nat /\ Len(s) <= Len(t)
    BY <1>1
  <2> QED
    BY <1>1, <1>2, <1>3, <1>4, <2>1, SumsAgree
<1>6. h[Len(s) + 1] = h[Len(s)] + (IF Len(s) + 1 \in T THEN t[Len(s) + 1].len ELSE 0)
  BY <1>1, <1>3 DEF Sums
<1> QED
  BY <1>1, <1>2, <1>3, <1>5, <1>6 DEF t

\* If it is none of the frames, nothing changes.
LEMMA MeantKept ==
  ASSUME NEW s \in Seq(Frames), NEW f \in Frames, NEW S \in SUBSET (1..Len(s))
  PROVE  Meant(Append(s, f), S) = Meant(s, S)
<1>1. Len(s) + 1 \notin S
  OBVIOUS
<1>2. Meant(Append(s, f), S) = Meant(s, S) + (IF Len(s) + 1 \in S THEN f.len ELSE 0)
  BY MeantAppend
<1>3. Meant(s, S) \in Nat
  BY MeantType
<1> QED
  BY <1>1, <1>2, <1>3

-----------------------------------------------------------------------------
(* Sizes, refusals and answers.                                            *)

\* The senders write frames in one of the three forms, whatever the length of the
\* payload, as FormAssumption asks.
LEMMA SendersEncode ==
  ASSUME NEW n \in Nat, NEW fin, NEW opcode, NEW masked
  PROVE  Encodes(FrameOf(fin, opcode, masked, n))
<1> DEFINE f == FrameOf(fin, opcode, masked, n)
           g == LengthFields(n)
<1>1. f.code = g.code /\ f.ext = g.ext /\ f.len = n
  BY DEF FrameOf
<1>2. \/ n < Short /\ g.code = n
      \/ g.code = Short /\ n < Wide /\ g.ext = n
      \/ g.code = Short + 1 /\ g.ext = n
  BY WidthAssumption DEF LengthFields
<1> HIDE DEF f, g
<1>3. Encodes(f)
  BY <1>1, <1>2 DEF Encodes
<1> QED
  BY <1>3 DEF f

\* The length that is read is the one that was meant.
LEMMA LengthRead ==
  ASSUME NEW f \in Frames
  PROVE  PayloadLen(f) = f.len /\ f.len \in Nat
<1>1. Encodes(f) /\ f \in Frame
  BY FormAssumption, FrameAssumption
<1> QED
  BY <1>1, WidthAssumption DEF Encodes, PayloadLen, Frame

\* What has been read of a message is all of it that was sent, with its size.
Waiting ==
  state = "reading" =>
    /\ Members(pieces) = Open(stream, Len(stream) + 1)
    /\ size = Meant(stream, Members(pieces))

\* What a later frame does not change.
LEMMA OpenKept ==
  ASSUME NEW s \in Seq(Frames), NEW f \in Frames, NEW i \in 1..Len(s) + 1
  PROVE  Open(Append(s, f), i) = Open(s, i) /\ Open(s, i) \in SUBSET (1..Len(s))
BY AppendFrame DEF Open, Data

LEMMA StoppedKept ==
  ASSUME NEW s \in Seq(Frames), NEW f \in Frames, NEW i \in 1..Len(s)
  PROVE  Stopped(Append(s, f), i) <=> Stopped(s, i)
<1>1. Open(Append(s, f), i) = Open(s, i) /\ Open(s, i) \in SUBSET (1..Len(s))
  BY OpenKept
<1>2. Meant(Append(s, f), Open(s, i)) = Meant(s, Open(s, i))
  BY <1>1, MeantKept
<1>3. Append(s, f)[i] = s[i]
  BY AppendFrame, Zenon
<1> QED
  BY <1>1, <1>2, <1>3, Zenon DEF Stopped, Forbidden, Crowded, Data

\* The frames of the open message, after one more frame.
LEMMA OpenAppend ==
  ASSUME NEW s \in Seq(Frames), NEW f \in Frames
  PROVE  Open(Append(s, f), Len(s) + 2) =
           IF f.opcode \notin {0, 2} THEN Open(s, Len(s) + 1)
           ELSE IF f.fin THEN {}
           ELSE Open(s, Len(s) + 1) \cup {Len(s) + 1}
<1> DEFINE t == Append(s, f)
           i == Len(s) + 1
<1>1. /\ i \in Nat /\ i = Len(s) + 1 /\ t[i] = f
      /\ \A k \in 1..i - 1 : t[k] = s[k]
  BY AppendFrame
<1>2. Data(t, i) <=> f.opcode \in {0, 2}
  BY <1>1 DEF Data
<1>3. Open(t, i + 1) \subseteq 1..i /\ Open(s, i) \subseteq 1..i - 1
  BY <1>1 DEF Open
<1>4. i \in Open(t, i + 1) <=> Data(t, i) /\ ~t[i].fin
  BY <1>1 DEF Open
<1>5. ASSUME NEW k \in 1..i - 1
      PROVE  k \in Open(t, i + 1) <=> k \in Open(s, i) /\ ~(Data(t, i) /\ t[i].fin)
  <2>1. \A j \in 1..i - 1 : Data(t, j) /\ t[j].fin <=> Data(s, j) /\ s[j].fin
    BY <1>1 DEF Data
  <2>2. k \in 1..i /\ k..i = (k..i - 1) \cup {i} /\ k..i - 1 \subseteq 1..i - 1
    BY <1>1
  <2>3. Data(t, k) <=> Data(s, k)
    BY <1>1 DEF Data
  <2>4. k \in Open(t, i + 1)
          <=> Data(t, k) /\ \A j \in k..i : ~(Data(t, j) /\ t[j].fin)
    BY <1>1, <2>2 DEF Open
  <2>5. k \in Open(s, i)
          <=> Data(s, k) /\ \A j \in k..i - 1 : ~(Data(s, j) /\ s[j].fin)
    BY <1>1 DEF Open
  <2> HIDE DEF t, i
  <2> QED
    BY <2>1, <2>2, <2>3, <2>4, <2>5
<1>6. \A k \in 1..i : k = i \/ k \in 1..i - 1
  BY <1>1
<1>7. i + 1 = Len(s) + 2
  OBVIOUS
<1> HIDE DEF t, i
<1>8. CASE f.opcode \notin {0, 2}
  <2>1. Open(t, i + 1) = Open(s, i)
    BY <1>1, <1>2, <1>3, <1>4, <1>5, <1>6, <1>8, Zenon
  <2> QED
    BY <1>1, <1>7, <1>8, <2>1 DEF t
<1>9. CASE f.opcode \in {0, 2} /\ f.fin
  <2>1. Open(t, i + 1) = {}
    BY <1>1, <1>2, <1>3, <1>4, <1>5, <1>6, <1>9
  <2> QED
    BY <1>1, <1>7, <1>9, <2>1, Zenon DEF t
<1>10. CASE f.opcode \in {0, 2} /\ ~f.fin
  <2>1. Open(t, i + 1) = Open(s, i) \cup {i}
    BY <1>1, <1>2, <1>3, <1>4, <1>5, <1>6, <1>10
  <2> QED
    BY <1>1, <1>7, <1>10, <2>1, Zenon DEF t
<1> QED
  BY <1>8, <1>9, <1>10

LEMMA MembersAppend ==
  ASSUME NEW p \in Seq(Nat), NEW k \in Nat
  PROVE  /\ Members(Append(p, k)) = Members(p) \cup {k}
         /\ Members(p) = {} <=> p = <<>>
<1>1. Members(Append(p, k)) = Members(p) \cup {k}
  BY AppendPiece DEF Members
<1>2. ASSUME p # <<>> PROVE p[1] \in Members(p)
  <2>1. 1 \in 1..Len(p)
    BY <1>2
  <2> QED
    BY <2>1 DEF Members
<1>3. Members(<<>>) = {}
  BY DEF Members
<1> QED
  BY <1>1, <1>2, <1>3

\* The checks of wsRecvFrame stop at the frame exactly when the protocol forbids it
\* or the waiting fragments crowd it out.
LEMMA Judged ==
  ASSUME TypeOK, Assembling, Waiting, NEW f \in Frames, Arrives(f)
  PROVE  Stopped(Append(stream, f), Len(stream) + 1)
           <=> Refused(f) \/ f.opcode \notin {8, 9, 10, IF fragmented THEN 0 ELSE 2}
<1> DEFINE t == Append(stream, f)
           i == Len(stream) + 1
<1>1. t[i] = f /\ stream \in Seq(Frames) /\ pieces \in Seq(Nat) /\ size \in 0..MaxSize
  BY AppendFrame DEF TypeOK
<1>2. Open(t, i) = Members(pieces) /\ Members(pieces) \in SUBSET (1..Len(stream))
  BY <1>1, OpenKept DEF Waiting, Arrives
<1>3. Meant(t, Open(t, i)) = size
  <2>1. Meant(t, Members(pieces)) = Meant(stream, Members(pieces))
    BY <1>1, <1>2, MeantKept
  <2> QED
    BY <1>2, <2>1 DEF Waiting, Arrives
<1>4. Open(t, i) = {} <=> ~fragmented
  BY <1>1, <1>2, MembersAppend, Zenon DEF Assembling
<1>5. PayloadLen(f) = f.len /\ f.len \in Nat /\ f.opcode \in Opcodes
  BY LengthRead, FrameAssumption DEF Frame
<1>6. Stopped(t, i) <=>
        \/ f.rsv \/ f.masked # ExpectMasked
        \/ f.opcode \notin {0, 2, 8, 9, 10}
        \/ f.opcode \in {8, 9, 10} /\ (~f.fin \/ f.len >= Short)
        \/ f.opcode = 2 /\ fragmented
        \/ f.opcode = 0 /\ ~fragmented
        \/ f.len + size > MaxSize
  <2>1. f.opcode \in {0, 2} \/ f.opcode \in {8, 9, 10} \/ f.opcode \notin {0, 2, 8, 9, 10}
    OBVIOUS
  <2> QED
    BY <1>1, <1>3, <1>4, <2>1, Zenon DEF Stopped, Forbidden, Crowded, Data
<1>7. Refused(f) <=>
        \/ f.rsv \/ f.masked # ExpectMasked
        \/ f.opcode >= 8 /\ (~f.fin \/ f.len >= Short)
        \/ f.len + size > MaxSize
  <2>1. f.code = Short + 1 /\ f.ext >= Huge => f.len + size > MaxSize
    <3>1. Encodes(f) /\ f.ext \in Nat
      BY FormAssumption, FrameAssumption DEF Frame
    <3> QED
      BY <1>1, <1>5, <3>1, WidthAssumption DEF Encodes
  <2>2. f.len > MaxSize => f.len + size > MaxSize
    BY <1>1, <1>5, WidthAssumption
  <2>3. f.len > MaxControl <=> f.len >= Short
    BY <1>5, WidthAssumption DEF MaxControl
  <2>4. size + f.len = f.len + size
    BY <1>1, <1>5
  <2> QED
    BY <1>5, <2>1, <2>2, <2>3, <2>4, Zenon DEF Refused, Control
<1>8. f.opcode >= 8 <=> f.opcode \in {8, 9, 10, 11}
  BY <1>5 DEF Opcodes
<1> HIDE DEF t, i
<1>9. f.opcode \notin {8, 9, 10, IF fragmented THEN 0 ELSE 2} <=>
        \/ f.opcode \notin {0, 2, 8, 9, 10}
        \/ f.opcode = 2 /\ fragmented
        \/ f.opcode = 0 /\ ~fragmented
  <2>1. CASE fragmented
    BY <2>1, SMT
  <2>2. CASE ~fragmented
    BY <2>2, SMT
  <2> QED
    BY <2>1, <2>2, Zenon
<1>10. f.opcode = 11 => f.opcode \notin {0, 2, 8, 9, 10}
  OBVIOUS
<1> QED
  BY <1>6, <1>7, <1>8, <1>9, <1>10, Zenon DEF t, i

\* One call of the action that reads the frame f.
Step(f) ==
  \/ Refuse(f) \/ CloseFrame(f) \/ PingFrame(f) \/ PongFrame(f)
  \/ DataFrame(f) \/ Unexpected(f)

LEMMA StepFacts ==
  ASSUME TypeOK, NEW f \in Frames, Step(f)
  PROVE  /\ Arrives(f) /\ stream' = Append(stream, f) /\ state = "reading"
         /\ state' = "invalid" <=>
              Refused(f) \/ f.opcode \notin {8, 9, 10, IF fragmented THEN 0 ELSE 2}
<1>1. Arrives(f) /\ stream' = Append(stream, f) /\ state = "reading"
  BY Zenon DEF Step, Refuse, CloseFrame, PingFrame, PongFrame, DataFrame, Unexpected, Arrives
<1> DEFINE Odd == f.opcode \notin {8, 9, 10, IF fragmented THEN 0 ELSE 2}
<1>2. CASE Refuse(f)
  BY <1>1, <1>2 DEF Refuse
<1>3. CASE CloseFrame(f)
  <2>1. ~Refused(f) /\ f.opcode = 8 /\ state' = "closed"
    BY <1>3, Zenon DEF CloseFrame
  <2> QED
    BY <1>1, <2>1
<1>4. CASE PingFrame(f)
  <2>1. ~Refused(f) /\ f.opcode = 9 /\ (state' = "lost" \/ state' = state)
    BY <1>4, Zenon DEF PingFrame
  <2> QED
    BY <1>1, <2>1
<1>5. CASE PongFrame(f)
  <2>1. ~Refused(f) /\ f.opcode = 10 /\ state' = state
    BY <1>5, Zenon DEF PongFrame
  <2> QED
    BY <1>1, <2>1
<1>6. CASE DataFrame(f)
  <2>1. ~Refused(f) /\ f.opcode = (IF fragmented THEN 0 ELSE 2) /\ state' = state
    BY <1>6, Zenon DEF DataFrame
  <2> QED
    BY <1>1, <2>1
<1>7. CASE Unexpected(f)
  BY <1>1, <1>7 DEF Unexpected
<1> QED
  BY <1>2, <1>3, <1>4, <1>5, <1>6, <1>7, Zenon DEF Step

LEMMA WaitingInit == Init => Waiting
<1> SUFFICES ASSUME Init PROVE Waiting
  OBVIOUS
<1>1. stream = <<>> /\ pieces = <<>> /\ size = 0
  BY DEF Init
<1>2. Members(<<>>) = {} /\ Open(<<>>, Len(<<>>) + 1) = {}
  BY DEF Members, Open
<1>3. Meant(<<>>, {}) = 0
  <2>1. <<>> \in Seq(Frames)
    OBVIOUS
  <2> QED
    BY <2>1, MeantEmpty, Zenon
<1> QED
  BY <1>1, <1>2, <1>3, Zenon DEF Waiting

LEMMA WaitingStep ==
  TypeOK /\ Assembling /\ Waiting /\ [Next]_vars => Waiting'
<1> SUFFICES ASSUME TypeOK, Assembling, Waiting, [Next]_vars, state' = "reading"
             PROVE  /\ Members(pieces') = Open(stream', Len(stream') + 1)
                    /\ size' = Meant(stream', Members(pieces'))
  BY DEF Waiting
<1>1. ASSUME NEW f \in Frames, Step(f)
      PROVE  /\ Members(pieces') = Open(stream', Len(stream') + 1)
             /\ size' = Meant(stream', Members(pieces'))
  <2> DEFINE i == Len(stream) + 1
  <2>1. stream' = Append(stream, f) /\ state = "reading"
    BY <1>1, StepFacts
  <2>2. /\ stream \in Seq(Frames) /\ pieces \in Seq(Nat) /\ i \in Nat
        /\ Len(stream') + 1 = Len(stream) + 2 /\ size \in Nat
    BY <2>1 DEF TypeOK
  <2>3. /\ Members(pieces) = Open(stream, i) /\ Members(pieces) \in SUBSET (1..Len(stream))
        /\ size = Meant(stream, Members(pieces)) /\ i \notin Members(pieces)
    BY <2>1, <2>2, OpenKept DEF Waiting
  <2>4. PayloadLen(f) = f.len /\ f.len \in Nat
    BY LengthRead, Zenon
  <2>5. ASSUME f.opcode \in {9, 10}, UNCHANGED <<pieces, size>>
        PROVE  /\ Members(pieces') = Open(stream', Len(stream') + 1)
               /\ size' = Meant(stream', Members(pieces'))
    <3>1. Open(stream', Len(stream') + 1) = Open(stream, i)
      <4>1. f.opcode \notin {0, 2}
        BY <2>5
      <4> QED
        BY <2>1, <2>2, <4>1, OpenAppend, Zenon
    <3>2. Meant(stream', Members(pieces)) = Meant(stream, Members(pieces))
      BY <2>1, <2>2, <2>3, MeantKept
    <3> QED
      BY <2>3, <2>5, <3>1, <3>2
  <2>6. CASE PingFrame(f)
    <3>1. f.opcode = 9 /\ UNCHANGED <<pieces, size>>
      BY <2>6, Zenon DEF PingFrame
    <3> QED
      BY <2>5, <3>1
  <2>7. CASE PongFrame(f)
    <3>1. f.opcode = 10 /\ UNCHANGED <<pieces, size>>
      BY <2>7, Zenon DEF PongFrame
    <3> QED
      BY <2>5, <3>1
  <2>8. CASE DataFrame(f) /\ f.fin
    <3>1. f.opcode = (IF fragmented THEN 0 ELSE 2) /\ pieces' = <<>> /\ size' = 0
      BY <2>8, Zenon DEF DataFrame
    <3>2. f.opcode \in {0, 2}
      BY <3>1
    <3>3. Open(stream', Len(stream') + 1) = {}
      BY <2>1, <2>2, <2>8, <3>2, OpenAppend, Zenon
    <3>4. Members(<<>>) = {}
      BY DEF Members
    <3>5. Meant(stream', {}) = 0
      <4>1. stream' \in Seq(Frames)
        BY <2>1, <2>2, AppendFrame
      <4> QED
        BY <4>1, MeantEmpty
    <3> QED
      BY <3>1, <3>3, <3>4, <3>5, Zenon
  <2>9. CASE DataFrame(f) /\ ~f.fin
    <3>1. /\ f.opcode = (IF fragmented THEN 0 ELSE 2)
          /\ pieces' = Append(pieces, i) /\ size' = size + PayloadLen(f)
      BY <2>9, Zenon DEF DataFrame, This
    <3>2. f.opcode \in {0, 2}
      BY <3>1
    <3>3. Open(stream', Len(stream') + 1) = Open(stream, i) \cup {i}
      BY <2>1, <2>2, <2>9, <3>2, OpenAppend, Zenon
    <3>4. Members(pieces') = Members(pieces) \cup {i}
      BY <2>2, <3>1, MembersAppend, Zenon
    <3>5. Meant(stream', Members(pieces) \cup {i}) = size + f.len
      <4> DEFINE S == Members(pieces)
                 T == S \cup {i}
      <4>1. S \in SUBSET (1..Len(stream)) /\ i \in T
        BY <2>3
      <4> HIDE DEF S
      <4>2. Meant(Append(stream, f), T)
              = Meant(stream, S) + (IF Len(stream) + 1 \in T THEN f.len ELSE 0)
        BY <2>2, <4>1, MeantAppend, Zenon
      <4> QED
        BY <2>1, <2>3, <4>1, <4>2 DEF S
    <3> QED
      BY <2>3, <2>4, <3>1, <3>3, <3>4, <3>5, Zenon
  <2>10. CASE Refuse(f) \/ CloseFrame(f) \/ Unexpected(f)
    BY <2>10, Zenon DEF Refuse, CloseFrame, Unexpected
  <2> QED
    BY <1>1, <2>6, <2>7, <2>8, <2>9, <2>10, Zenon DEF Step
<1>2. CASE Lost
  BY <1>2 DEF Lost
<1>3. CASE UNCHANGED vars
  BY <1>3 DEF vars, Waiting
<1> QED
  BY <1>1, <1>2, <1>3, Zenon DEF Next, Step

LEMMA WaitingInv ==
  Spec => [](TypeOK /\ MessagesWhole /\ Assembling /\ Waiting)
BY WaitingInit, WaitingStep, AssemblingInv, PTL DEF Spec

\* The frames of a message that was returned are frames of the stream, and later
\* frames do not change what they add up to.
LEMMA DeliveredKept ==
  ASSUME TypeOK, MessagesWhole, NEW f \in Frames, NEW d \in 1..Len(delivered)
  PROVE  Meant(Append(stream, f), Members(delivered[d].pieces))
           = Meant(stream, Members(delivered[d].pieces))
<1> DEFINE S == Members(delivered[d].pieces)
<1>1. stream \in Seq(Frames) /\ delivered[d].pieces \in Seq(Nat)
  <2>1. delivered[d] \in Messages
    BY DEF TypeOK
  <2> QED
    BY <2>1 DEF TypeOK, Messages
<1>2. S \in SUBSET (1..Len(stream))
  <2>1. ASSUME NEW n \in 1..Len(delivered[d].pieces)
        PROVE  delivered[d].pieces[n] \in 1..Len(stream)
    BY Zenon DEF MessagesWhole, Whole, Chain
  <2> QED
    BY <2>1, Zenon DEF Members
<1> HIDE DEF S
<1>3. Meant(Append(stream, f), S) = Meant(stream, S)
  BY <1>1, <1>2, MeantKept
<1> QED
  BY <1>3 DEF S

LEMMA SizesStep ==
  ASSUME TypeOK, MessagesWhole, Assembling, Waiting, SizesRight, [Next]_vars
  PROVE  SizesRight'
<1>1. ASSUME NEW f \in Frames, Step(f) PROVE SizesRight'
  <2>1. stream' = Append(stream, f) /\ state = "reading"
    BY <1>1, StepFacts
  <2>2. ASSUME NEW d \in 1..Len(delivered)
        PROVE  /\ delivered[d].size = Meant(stream', Members(delivered[d].pieces))
               /\ delivered[d].size <= MaxSize
    <3>1. Meant(stream', Members(delivered[d].pieces))
            = Meant(stream, Members(delivered[d].pieces))
      BY <2>1, DeliveredKept
    <3> QED
      BY <3>1 DEF SizesRight
  <2>3. CASE delivered' = delivered
    BY <2>2, <2>3 DEF SizesRight
  <2>4. CASE DataFrame(f) /\ f.fin
    <3> DEFINE i == Len(stream) + 1
               m == [pieces |-> Append(pieces, i), size |-> size + PayloadLen(f)]
    <3>1. delivered' = Append(delivered, m) /\ ~Refused(f)
      BY <2>4, Zenon DEF DataFrame, This
    <3>2. /\ stream \in Seq(Frames) /\ pieces \in Seq(Nat) /\ i \in Nat /\ size \in Nat
          /\ delivered \in Seq(Messages)
      BY DEF TypeOK
    <3>3. PayloadLen(f) = f.len /\ f.len \in Nat
      BY LengthRead
    <3>4. Meant(stream', Members(m.pieces)) = size + f.len
      <4> DEFINE S == Members(pieces)
                 T == S \cup {i}
      <4>1. S = Open(stream, i) /\ size = Meant(stream, S)
        BY <2>1 DEF Waiting
      <4>2. S \in SUBSET (1..Len(stream)) /\ i \in T
        <5>1. i \in 1..Len(stream) + 1
          BY <3>2
        <5>2. Open(stream, i) \in SUBSET (1..Len(stream))
          BY <3>2, <5>1, OpenKept
        <5> QED
          BY <4>1, <5>2
      <4>3. Members(m.pieces) = T
        BY <3>2, MembersAppend
      <4> HIDE DEF S
      <4>4. Meant(Append(stream, f), T)
              = Meant(stream, S) + (IF Len(stream) + 1 \in T THEN f.len ELSE 0)
        BY <3>2, <4>2, MeantAppend
      <4> QED
        BY <2>1, <4>1, <4>2, <4>3, <4>4
    <3>5. m.size = size + f.len /\ m.size <= MaxSize
      BY <3>1, <3>2, <3>3, WidthAssumption DEF Refused
    <3>6. /\ Len(delivered') = Len(delivered) + 1 /\ delivered'[Len(delivered) + 1] = m
          /\ \A d \in 1..Len(delivered) : delivered'[d] = delivered[d]
      <4> HIDE DEF m
      <4> QED
        BY <3>1, <3>2
    <3> HIDE DEF m
    <3>7. ASSUME NEW d \in 1..Len(delivered')
          PROVE  /\ delivered'[d].size = Meant(stream', Members(delivered'[d].pieces))
                 /\ delivered'[d].size <= MaxSize
      <4>1. CASE d = Len(delivered) + 1
        BY <3>4, <3>5, <3>6, <4>1
      <4>2. CASE d \in 1..Len(delivered)
        BY <2>2, <3>6, <4>2
      <4>3. Len(delivered) \in Nat /\ d \in 1..Len(delivered) + 1
        BY <3>2, <3>6
      <4> QED
        BY <4>1, <4>2, <4>3
    <3> QED
      BY <3>7 DEF SizesRight
  <2>5. delivered' = delivered \/ (DataFrame(f) /\ f.fin)
    BY <1>1, Zenon DEF Step, Refuse, CloseFrame, PingFrame, PongFrame, DataFrame, Unexpected
  <2> QED
    BY <2>3, <2>4, <2>5
<1>2. CASE Lost
  BY <1>2 DEF Lost, SizesRight
<1>3. CASE UNCHANGED vars
  BY <1>3 DEF vars, SizesRight
<1> QED
  BY <1>1, <1>2, <1>3, Zenon DEF Next, Step

\* Every message that wsRecvFrame returns has the size that was meant, at most
\* MAX_MESSAGE_SIZE, for all streams of frames.
THEOREM Sizes == Spec => []SizesRight
<1>1. Init => SizesRight
  BY DEF Init, SizesRight
<1>2. TypeOK /\ MessagesWhole /\ Assembling /\ Waiting /\ SizesRight /\ [Next]_vars
        => SizesRight'
  BY SizesStep
<1> QED
  BY <1>1, <1>2, WaitingInv, PTL DEF Spec

-----------------------------------------------------------------------------
LEMMA InvalidStep ==
  ASSUME TypeOK, Assembling, Waiting, RefusedExactly, [Next]_vars
  PROVE  RefusedExactly'
<1>1. ASSUME NEW f \in Frames, Step(f) PROVE RefusedExactly'
  <2> DEFINE n == Len(stream) + 1
  <2>1. /\ Arrives(f) /\ stream' = Append(stream, f) /\ state = "reading"
        /\ state' = "invalid" <=>
             Refused(f) \/ f.opcode \notin {8, 9, 10, IF fragmented THEN 0 ELSE 2}
    BY <1>1, StepFacts
  <2>2. stream \in Seq(Frames) /\ Len(stream') = n /\ n \in Nat /\ 1..n = (1..n - 1) \cup {n}
    BY <2>1, AppendFrame DEF TypeOK
  <2>3. Stopped(stream', n) <=> state' = "invalid"
    BY <2>1, Judged, Zenon
  <2>4. ASSUME NEW k \in 1..n - 1 PROVE ~Stopped(stream', k) /\ k # n
    <3>1. k \in 1..Len(stream)
      BY <2>2
    <3>2. ~Stopped(stream, k)
      BY <2>1, <3>1 DEF RefusedExactly
    <3>3. Stopped(Append(stream, f), k) <=> Stopped(stream, k)
      BY <2>2, <3>1, StoppedKept
    <3> QED
      BY <2>1, <2>2, <3>2, <3>3
  <2> HIDE DEF n
  <2> QED
    BY <2>2, <2>3, <2>4 DEF RefusedExactly
<1>2. CASE Lost
  BY <1>2 DEF Lost, RefusedExactly
<1>3. CASE UNCHANGED vars
  BY <1>3 DEF vars, RefusedExactly
<1> QED
  BY <1>1, <1>2, <1>3, Zenon DEF Next, Step

LEMMA InvalidInv ==
  Spec => [](TypeOK /\ Assembling /\ Waiting /\ RefusedExactly)
<1>1. Init => RefusedExactly
  BY DEF Init, RefusedExactly
<1>2. TypeOK /\ Assembling /\ Waiting /\ RefusedExactly /\ [Next]_vars
        => RefusedExactly'
  BY InvalidStep
<1> QED
  BY <1>1, <1>2, WaitingInv, PTL DEF Spec

\* wsRecvFrame gives up on exactly the frames the protocol forbids where they
\* stand in the stream and the control frames that do not fit beside the waiting
\* fragments, for all streams and all limits.
THEOREM Refusals == Spec => []RefusedExactly
BY InvalidInv, PTL

-----------------------------------------------------------------------------
\* The frames that ask for an answer are finitely many, and a frame is the n-th
\* of them for some n.
LEMMA AskedCount ==
  ASSUME NEW s \in Seq(Frames), NEW i \in 0..Len(s)
  PROVE  /\ IsFiniteSet(Asked(s, i)) /\ Cardinality(Asked(s, i)) \in Nat
         /\ \A k \in Asked(s, i) : /\ Cardinality(Asked(s, k)) \in 1..Cardinality(Asked(s, i))
                                   /\ k \in 1..i
<1>1. \A n \in 0..Len(s) : IsFiniteSet(Asked(s, n)) /\ Cardinality(Asked(s, n)) \in Nat
  <2> SUFFICES ASSUME NEW n \in 0..Len(s)
               PROVE  IsFiniteSet(Asked(s, n)) /\ Cardinality(Asked(s, n)) \in Nat
    OBVIOUS
  <2>1. IsFiniteSet(1..n)
    BY FS_Interval
  <2>2. Asked(s, n) \in SUBSET (1..n)
    BY DEF Asked
  <2>3. IsFiniteSet(Asked(s, n))
    BY <2>1, <2>2, FS_Subset
  <2> QED
    BY <2>3, FS_CardinalityType
<1>2. ASSUME NEW k \in Asked(s, i)
      PROVE  Cardinality(Asked(s, k)) \in 1..Cardinality(Asked(s, i)) /\ k \in 1..i
  <2>1. k \in 1..i /\ k \in Asked(s, k) /\ Asked(s, k) \in SUBSET Asked(s, i)
    BY DEF Asked
  <2>2. k \in 0..Len(s)
    BY <2>1
  <2>3. Cardinality(Asked(s, k)) <= Cardinality(Asked(s, i))
    BY <1>1, <2>1, FS_Subset
  <2>4. Cardinality(Asked(s, k)) # 0
    BY <1>1, <2>1, <2>2, FS_EmptySet
  <2> QED
    BY <1>1, <2>1, <2>2, <2>3, <2>4
<1> QED
  BY <1>1, <1>2

LEMMA AskedAppend ==
  ASSUME NEW s \in Seq(Frames), NEW f \in Frames
  PROVE  /\ \A i \in 0..Len(s) : Asked(Append(s, f), i) = Asked(s, i)
         /\ Asks(Append(s, f), Len(s) + 1) =>
              /\ Asked(Append(s, f), Len(s) + 1) = Asked(s, Len(s)) \cup {Len(s) + 1}
              /\ Cardinality(Asked(Append(s, f), Len(s) + 1))
                   = Cardinality(Asked(s, Len(s))) + 1
         /\ ~Asks(Append(s, f), Len(s) + 1) =>
              Asked(Append(s, f), Len(s) + 1) = Asked(s, Len(s))
<1> DEFINE t == Append(s, f)
           n == Len(s) + 1
<1>1. \A k \in 1..Len(s) : Asks(t, k) <=> Asks(s, k)
  BY StoppedKept, AppendFrame DEF Asks
<1>2. \A i \in 0..Len(s) : Asked(t, i) = Asked(s, i)
  <2> HIDE DEF t
  <2> QED
    BY <1>1 DEF Asked
<1>3. 1..n = (1..Len(s)) \cup {n}
  OBVIOUS
<1>4. Asks(t, n) => Asked(t, n) = Asked(s, Len(s)) \cup {n}
  <2> HIDE DEF t, n
  <2> QED
    BY <1>1, <1>3 DEF Asked
<1>5. ~Asks(t, n) => Asked(t, n) = Asked(s, Len(s))
  <2> HIDE DEF t, n
  <2> QED
    BY <1>1, <1>3 DEF Asked
<1>6. Cardinality(Asked(s, Len(s)) \cup {n}) = Cardinality(Asked(s, Len(s))) + 1
  <2>1. IsFiniteSet(Asked(s, Len(s)))
    BY AskedCount
  <2>2. n \notin Asked(s, Len(s))
    BY DEF Asked
  <2> QED
    BY <2>1, <2>2, FS_AddElement
<1> QED
  BY <1>2, <1>4, <1>5, <1>6

\* Without a new answer, and without a new question.
LEMMA RepliesKept ==
  ASSUME TypeOK, RepliesMatch, NEW f \in Frames, stream' = Append(stream, f),
         state = "reading", ~Asks(Append(stream, f), Len(stream) + 1), replies' = replies
  PROVE  RepliesMatch'
<1>1. stream \in Seq(Frames) /\ Len(stream') = Len(stream) + 1
  BY AppendFrame DEF TypeOK
<1>2. Asked(stream', Len(stream')) = Asked(stream, Len(stream))
  BY <1>1, AskedAppend
<1>3. \A i \in Asked(stream, Len(stream)) :
        Asked(stream', i) = Asked(stream, i) /\ stream'[i] = stream[i]
  <2> SUFFICES ASSUME NEW i \in Asked(stream, Len(stream))
               PROVE  Asked(stream', i) = Asked(stream, i) /\ stream'[i] = stream[i]
    OBVIOUS
  <2>1. i \in 1..Len(stream) /\ i \in 0..Len(stream)
    BY DEF Asked
  <2> QED
    BY <1>1, <2>1, AskedAppend, AppendFrame
<1>4. Len(replies) = Cardinality(Asked(stream, Len(stream)))
  BY DEF RepliesMatch
<1> QED
  BY <1>2, <1>3, <1>4 DEF RepliesMatch

\* A question that is answered, or that ends the session.
LEMMA RepliesGrow ==
  ASSUME TypeOK, RepliesMatch, NEW f \in Frames, stream' = Append(stream, f),
         state = "reading", Asks(Append(stream, f), Len(stream) + 1),
         \/ replies' = Append(replies, Answer(f))
         \/ replies' = replies /\ state' \in {"closed", "lost"}
  PROVE  RepliesMatch'
<1> DEFINE n == Len(stream) + 1
           c == Cardinality(Asked(stream, Len(stream)))
<1>1. stream \in Seq(Frames) /\ Len(stream') = n /\ stream'[n] = f /\ n \in Nat
      /\ n \notin 1..Len(stream) /\ replies \in Seq(Replies)
  BY AppendFrame DEF TypeOK
<1>2. /\ Asked(stream', n) = Asked(stream, Len(stream)) \cup {n}
      /\ Cardinality(Asked(stream', n)) = c + 1
  BY <1>1, AskedAppend
<1>3. ASSUME NEW i \in Asked(stream, Len(stream))
      PROVE  /\ Asked(stream', i) = Asked(stream, i) /\ stream'[i] = stream[i]
             /\ Cardinality(Asked(stream, i)) \in 1..c
  <2>1. i \in 1..Len(stream) /\ i \in 0..Len(stream)
    BY DEF Asked
  <2>2. Asked(stream', i) = Asked(stream, i) /\ stream'[i] = stream[i]
    BY <1>1, <2>1, AskedAppend, AppendFrame
  <2>3. Cardinality(Asked(stream, i)) \in 1..c
    BY <1>1, AskedCount
  <2> QED
    BY <2>2, <2>3
<1>4. Len(replies) = c /\ c \in Nat
  BY <1>1, AskedCount DEF RepliesMatch
<1>5. \/ Len(replies') = c + 1 /\ replies'[c + 1] = Answer(f)
      \/ Len(replies') = c /\ state' \in {"closed", "lost"}
  BY <1>1, <1>4
<1>6. \A k \in 1..c : replies'[k] = replies[k]
  <2> DEFINE a == Answer(f)
  <2>1. \A k \in 1..Len(replies) : Append(replies, a)[k] = replies[k]
    <3> HIDE DEF a
    <3> QED
      BY <1>1
  <2> QED
    BY <1>4, <2>1, Zenon
<1> HIDE DEF n, c
<1>7. ASSUME NEW i \in Asked(stream', Len(stream')),
             Cardinality(Asked(stream', i)) <= Len(replies')
      PROVE  replies'[Cardinality(Asked(stream', i))] = Answer(stream'[i])
  <2>1. CASE i = n
    <3>1. Cardinality(Asked(stream', i)) = c + 1 /\ stream'[i] = f
      BY <1>1, <1>2, <2>1
    <3>2. Len(replies') # c
      BY <1>4, <1>7, <3>1
    <3> QED
      BY <1>5, <3>1, <3>2
  <2>2. CASE i \in Asked(stream, Len(stream))
    <3>1. Cardinality(Asked(stream, i)) <= Len(replies)
      BY <1>3, <1>4, <2>2
    <3>2. replies[Cardinality(Asked(stream, i))] = Answer(stream[i])
      BY <2>2, <3>1 DEF RepliesMatch
    <3> QED
      BY <1>3, <1>6, <2>2, <3>2
  <2> QED
    BY <1>1, <1>2, <2>1, <2>2
<1>8. \/ Len(replies') = Cardinality(Asked(stream', Len(stream')))
      \/ /\ Len(replies') = Cardinality(Asked(stream', Len(stream'))) - 1
         /\ state' \in {"closed", "lost"}
  BY <1>1, <1>2, <1>4, <1>5
<1> QED
  BY <1>7, <1>8, Zenon DEF RepliesMatch

LEMMA RepliesStep ==
  ASSUME TypeOK, Assembling, Waiting, RepliesMatch, [Next]_vars
  PROVE  RepliesMatch'
<1>1. ASSUME NEW f \in Frames, Step(f) PROVE RepliesMatch'
  <2> DEFINE n == Len(stream) + 1
             Odd == f.opcode \notin {8, 9, 10, IF fragmented THEN 0 ELSE 2}
  <2>1. /\ Arrives(f) /\ stream' = Append(stream, f) /\ state = "reading"
        /\ Append(stream, f)[n] = f
    BY <1>1, StepFacts, AppendFrame DEF TypeOK
  <2>2. Stopped(Append(stream, f), n) <=> Refused(f) \/ Odd
    BY <2>1, Judged, Zenon
  <2>3. Asks(Append(stream, f), n) <=> f.opcode \in {8, 9} /\ ~(Refused(f) \/ Odd)
    BY <2>1, <2>2, Zenon DEF Asks
  <2>4. f.opcode \in {8, 9} => ~Odd
    OBVIOUS
  <2>5. PayloadLen(f) = f.len
    BY LengthRead
  <2>6. CASE CloseFrame(f)
    <3>1. /\ ~Refused(f) /\ f.opcode = 8 /\ state' = "closed"
          /\ replies' = Append(replies, Reply(f, 8)) \/ replies' = replies
      BY <2>6, Zenon DEF CloseFrame
    <3>2. Reply(f, 8) = Answer(f)
      BY <2>5, <3>1 DEF Reply, Answer
    <3> QED
      BY <2>1, <2>3, <2>4, <3>1, <3>2, RepliesGrow
  <2>7. CASE PingFrame(f)
    <3>1. /\ ~Refused(f) /\ f.opcode = 9
          /\ \/ replies' = Append(replies, Reply(f, 10))
             \/ replies' = replies /\ state' = "lost"
      BY <2>7, Zenon DEF PingFrame
    <3>2. Reply(f, 10) = Answer(f)
      BY <2>5, <3>1 DEF Reply, Answer
    <3> QED
      BY <2>1, <2>3, <2>4, <3>1, <3>2, RepliesGrow
  <2>8. CASE Refuse(f)
    <3>1. Refused(f) /\ replies' = replies
      BY <2>8, Zenon DEF Refuse
    <3> QED
      BY <2>1, <2>3, <3>1, RepliesKept
  <2>9. CASE PongFrame(f) \/ DataFrame(f) \/ Unexpected(f)
    <3>1. replies' = replies
      BY <2>9, Zenon DEF PongFrame, DataFrame, Unexpected
    <3>2. \/ f.opcode = 10 \/ f.opcode = (IF fragmented THEN 0 ELSE 2)
          \/ f.opcode \notin {8, 9, 10, IF fragmented THEN 0 ELSE 2}
      BY <2>9, Zenon DEF PongFrame, DataFrame, Unexpected
    <3>3. f.opcode \notin {8, 9}
      BY <3>2
    <3> QED
      BY <2>1, <2>3, <3>1, <3>3, RepliesKept
  <2> QED
    BY <1>1, <2>6, <2>7, <2>8, <2>9, Zenon DEF Step
<1>2. CASE Lost
  <3>1. UNCHANGED <<stream, replies>> /\ state = "reading" /\ state' = "lost"
    BY <1>2 DEF Lost
  <3> QED
    BY <3>1 DEF RepliesMatch
<1>3. CASE UNCHANGED vars
  BY <1>3 DEF vars, RepliesMatch
<1> QED
  BY <1>1, <1>2, <1>3, Zenon DEF Next, Step

\* Pings and the close frame are answered once, in order, with their own payload
\* and the mask of this end, for all streams; only the answer with which the
\* session ends may be missing.
THEOREM Answers == Spec => []RepliesMatch
<1>1. Init => RepliesMatch
  <2> SUFFICES ASSUME Init PROVE RepliesMatch
    OBVIOUS
  <2>1. stream = <<>> /\ replies = <<>>
    BY DEF Init
  <2>2. Asked(<<>>, Len(<<>>)) = {}
    BY DEF Asked
  <2>3. Cardinality({}) = 0
    BY FS_EmptySet
  <2> QED
    BY <2>1, <2>2, <2>3 DEF RepliesMatch
<1>2. TypeOK /\ Assembling /\ Waiting /\ RepliesMatch /\ [Next]_vars => RepliesMatch'
  BY RepliesStep
<1> QED
  BY <1>1, <1>2, WaitingInv, PTL DEF Spec
=============================================================================
