------------------------------- MODULE WsFrame -------------------------------
(***************************************************************************)
(* wsRecvFrame: how one end of a connection turns the WebSocket frames it  *)
(* reads into messages, and the headers that wsSendBinary,                 *)
(* wsSendBinaryMasked and wsSendControl write.                             *)
(*                                                                         *)
(* The byte boundaries are constants, so that a small instance has each of *)
(* the three length forms, and both ends of each.  In the code Short is    *)
(* 126, Wide 2^16, Huge 2^63 and MaxSize 2^20.  A payload is known by the  *)
(* number of its frame in `stream`, which records the frames read so far.  *)
(***************************************************************************)
EXTENDS Integers, Sequences, FiniteSets

CONSTANTS
  Short,         \* a length below it is written in the 7 bits of the header
  Wide,          \* a length below it fits the 16-bit extension
  Huge,          \* a length below it leaves the top bit of the 64-bit one clear
  MaxSize,       \* MAX_MESSAGE_SIZE
  ExpectMasked,  \* this end is the server
  Frames,        \* the frames the other end may send
  MaxFrames      \* bound: how many of them

ASSUME WidthAssumption ==
  /\ Short \in Nat \ {0} /\ Wide \in Nat /\ Huge \in Nat /\ MaxSize \in Nat
  /\ Short < Wide /\ Wide < Huge /\ MaxSize < Huge

Opcodes == {0, 1, 2, 3, 8, 9, 10, 11}   \* 3 and 11: reserved ones
Frame == [fin: BOOLEAN, rsv: BOOLEAN, opcode: Opcodes, masked: BOOLEAN,
          code: Nat, ext: Nat, len: Nat]

ASSUME FrameAssumption ==
  ExpectMasked \in BOOLEAN /\ Frames \subseteq Frame /\ MaxFrames \in Nat

\* A frame whose length is written in one of the three forms of the protocol,
\* not always the shortest; the header has room for no other.
Encodes(f) ==
  \/ f.code < Short /\ f.len = f.code
  \/ f.code = Short /\ f.ext < Wide /\ f.len = f.ext
  \/ f.code = Short + 1 /\ f.len = f.ext

ASSUME FormAssumption == \A f \in Frames : Encodes(f)

VARIABLES
  stream,      \* the frames read so far
  pieces,      \* message.payload: the numbers of the frames it is made of
  size,        \* message.payload.size()
  fragmented,  \* a first fragment was read, the last one was not
  delivered,   \* the messages returned to the receive loop
  replies,     \* the control frames sent back
  state        \* "reading", or why the receive loop ended

vars == <<stream, pieces, size, fragmented, delivered, replies, state>>

MaxControl == Short - 1

Messages == [pieces: Seq(Nat), size: 0..MaxSize]
Replies == [opcode: {8, 10}, len: 0..MaxControl, masked: BOOLEAN]

TypeOK ==
  /\ stream \in Seq(Frames)
  /\ pieces \in Seq(Nat) /\ size \in 0..MaxSize /\ fragmented \in BOOLEAN
  /\ delivered \in Seq(Messages)
  /\ replies \in Seq(Replies)
  /\ state \in {"reading", "closed", "invalid", "lost"}

-----------------------------------------------------------------------------
(* Headers.                                                                *)

\* The length n as the senders write it.
LengthFields(n) ==
  IF n < Short THEN [code |-> n, ext |-> 0]
  ELSE IF n < Wide THEN [code |-> Short, ext |-> n % Wide]
  ELSE [code |-> Short + 1, ext |-> n]

\* A whole frame, as the senders write it; len is the length that is meant.
FrameOf(fin, opcode, masked, n) ==
  [fin |-> fin, rsv |-> FALSE, opcode |-> opcode, masked |-> masked,
   code |-> LengthFields(n).code, ext |-> LengthFields(n).ext, len |-> n]

\* Mutation: the mark of the 16-bit extension is taken for a length.
PayloadLenOffByOne(f) == IF f.code <= Short THEN f.code ELSE f.ext

\* payloadLen, as wsRecvFrame reads it.
PayloadLen(f) == IF f.code < Short THEN f.code ELSE f.ext

Control(f) == f.opcode >= 8

\* Mutation: the limit is applied to each frame, not to the message.
RefusedPerFrame(f) ==
  \/ f.rsv
  \/ f.masked # ExpectMasked
  \/ f.code = Short + 1 /\ f.ext >= Huge
  \/ Control(f) /\ (~f.fin \/ PayloadLen(f) > MaxControl)
  \/ PayloadLen(f) > MaxSize

\* Mutation: control frames may be fragmented.
RefusedNotFragments(f) ==
  \/ f.rsv
  \/ f.masked # ExpectMasked
  \/ f.code = Short + 1 /\ f.ext >= Huge
  \/ Control(f) /\ PayloadLen(f) > MaxControl
  \/ PayloadLen(f) > MaxSize
  \/ size + PayloadLen(f) > MaxSize

\* The checks of the header, before the payload is read.
Refused(f) ==
  \/ f.rsv
  \/ f.masked # ExpectMasked
  \/ f.code = Short + 1 /\ f.ext >= Huge
  \/ Control(f) /\ (~f.fin \/ PayloadLen(f) > MaxControl)
  \/ PayloadLen(f) > MaxSize
  \/ size + PayloadLen(f) > MaxSize

-----------------------------------------------------------------------------
Init ==
  /\ stream = <<>> /\ pieces = <<>> /\ size = 0 /\ fragmented = FALSE
  /\ delivered = <<>> /\ replies = <<>> /\ state = "reading"

\* The loop's next frame.
Arrives(f) ==
  /\ state = "reading" /\ Len(stream) < MaxFrames
  /\ stream' = Append(stream, f)

\* The number of the frame that is being read.
This == Len(stream) + 1

\* What wsSendControl sends for the frame f: its payload, masked by a client.
Reply(f, opcode) ==
  [opcode |-> opcode, len |-> PayloadLen(f), masked |-> ~ExpectMasked]

Refuse(f) ==
  /\ Arrives(f) /\ Refused(f)
  /\ state' = "invalid"
  /\ UNCHANGED <<pieces, size, fragmented, delivered, replies>>

\* A close frame is answered (if that works) and ends the receive loop.
CloseFrame(f) ==
  /\ Arrives(f) /\ ~Refused(f) /\ f.opcode = 8
  /\ \/ replies' = Append(replies, Reply(f, 8))
     \/ UNCHANGED replies
  /\ state' = "closed"
  /\ UNCHANGED <<pieces, size, fragmented, delivered>>

\* Mutation: a ping ends the message that is being reassembled.
PingFrameResets(f) ==
  /\ Arrives(f) /\ ~Refused(f) /\ f.opcode = 9
  /\ replies' = Append(replies, Reply(f, 10))
  /\ pieces' = <<>> /\ size' = 0 /\ fragmented' = FALSE
  /\ UNCHANGED <<delivered, state>>

\* Mutation: a client forgets to mask its pong, a server masks it.
PingFrameUnmasked(f) ==
  /\ Arrives(f) /\ ~Refused(f) /\ f.opcode = 9
  /\ replies' = Append(replies, [Reply(f, 10) EXCEPT !.masked = ExpectMasked])
  /\ UNCHANGED <<pieces, size, fragmented, delivered, state>>

\* A ping is answered, also between the fragments of a message.
PingFrame(f) ==
  /\ Arrives(f) /\ ~Refused(f) /\ f.opcode = 9
  /\ \/ replies' = Append(replies, Reply(f, 10)) /\ UNCHANGED state
     \/ state' = "lost" /\ UNCHANGED replies
  /\ UNCHANGED <<pieces, size, fragmented, delivered>>

PongFrame(f) ==
  /\ Arrives(f) /\ ~Refused(f) /\ f.opcode = 10
  /\ UNCHANGED <<pieces, size, fragmented, delivered, replies, state>>

\* A binary frame that starts a message, or a continuation of one; the last
\* frame returns the message, and the next call starts with an empty one.
DataFrame(f) ==
  /\ Arrives(f) /\ ~Refused(f)
  /\ f.opcode = (IF fragmented THEN 0 ELSE 2)
  /\ \/ /\ f.fin
        /\ delivered' = Append(delivered, [pieces |-> Append(pieces, This),
                                           size |-> size + PayloadLen(f)])
        /\ pieces' = <<>> /\ size' = 0 /\ fragmented' = FALSE
     \/ /\ ~f.fin
        /\ pieces' = Append(pieces, This) /\ size' = size + PayloadLen(f)
        /\ fragmented' = TRUE
        /\ UNCHANGED delivered
  /\ UNCHANGED <<replies, state>>

\* Any other opcode: text, reserved, a continuation of nothing, or a new message
\* inside a message.
Unexpected(f) ==
  /\ Arrives(f) /\ ~Refused(f)
  /\ f.opcode \notin {8, 9, 10, IF fragmented THEN 0 ELSE 2}
  /\ state' = "invalid"
  /\ UNCHANGED <<pieces, size, fragmented, delivered, replies>>

\* recvAll fails, at or inside a frame.
Lost ==
  /\ state = "reading"
  /\ state' = "lost"
  /\ UNCHANGED <<stream, pieces, size, fragmented, delivered, replies>>

Next ==
  \/ \E f \in Frames :
       \/ Refuse(f) \/ CloseFrame(f) \/ PingFrame(f) \/ PongFrame(f)
       \/ DataFrame(f) \/ Unexpected(f)
  \/ Lost

Spec == Init /\ [][Next]_vars

-----------------------------------------------------------------------------
(* Properties.                                                             *)

Data(s, i) == s[i].opcode \in {0, 2}
NoDataBetween(s, i, j) == \A k \in i + 1..j - 1 : ~Data(s, k)

\* The frames p of the stream s begin a message: a binary frame, then its
\* continuations, with nothing but control frames between them.
Chain(s, p) ==
  /\ \A n \in 1..Len(p) :
       /\ p[n] \in 1..Len(s)
       /\ s[p[n]].opcode = (IF n = 1 THEN 2 ELSE 0)
  /\ \A n \in 1..Len(p) - 1 : /\ ~s[p[n]].fin
                              /\ p[n] < p[n + 1]
                              /\ NoDataBetween(s, p[n], p[n + 1])

\* The last frame of the n-th of the messages ds, or 0 before the first.
End(ds, n) == IF n = 0 THEN 0 ELSE ds[n].pieces[Len(ds[n].pieces)]

\* The frames p begin a message right after the n-th of the messages ds.
Follows(s, ds, n, p) ==
  End(ds, n) < p[1] /\ NoDataBetween(s, End(ds, n), p[1])

\* The messages ds are the messages of the stream s, each with all its frames.
Whole(s, ds) ==
  \A n \in 1..Len(ds) :
    /\ ds[n].pieces # <<>>
    /\ Chain(s, ds[n].pieces)
    /\ s[End(ds, n)].fin
    /\ Follows(s, ds, n - 1, ds[n].pieces)

\* Every message wsRecvFrame returns is made of the fragments of one message of
\* the peer, all of them and in their order, whatever control frames came in
\* between; and no message of the peer is left out between two of them.
MessagesWhole == Whole(stream, delivered)

\* The lengths that were meant, added up over the frames S of the stream s.
Meant(s, S) ==
  LET sum[n \in 0..Len(s)] ==
        IF n = 0 THEN 0 ELSE sum[n - 1] + (IF n \in S THEN s[n].len ELSE 0)
  IN  sum[Len(s)]

\* The numbers of the frames p.
Members(p) == {p[n] : n \in 1..Len(p)}

\* A message has the size its sender gave it, and at most MAX_MESSAGE_SIZE:
\* the reader finds the length of every frame as the writer meant it, in each of
\* the three length forms, and the limit holds for the message as a whole.
SizesRight ==
  \A d \in 1..Len(delivered) :
    /\ delivered[d].size = Meant(stream, Members(delivered[d].pieces))
    /\ delivered[d].size <= MaxSize

\* The data frames of the message that is open when frame i of s arrives: since
\* them no message ended.
Open(s, i) ==
  {k \in 1..i - 1 : Data(s, k) /\ \A j \in k..i - 1 : ~(Data(s, j) /\ s[j].fin)}

\* Whether the protocol forbids frame i of s where it stands: RFC 6455, binary
\* messages only, and no message above the limit.  The limit is one on messages:
\* a control frame is part of none.
Forbidden(s, i) ==
  \/ s[i].rsv \/ s[i].masked # ExpectMasked
  \/ s[i].opcode \notin {0, 2, 8, 9, 10}
  \/ s[i].opcode \in {8, 9, 10} /\ (~s[i].fin \/ s[i].len >= Short)
  \/ s[i].opcode = 2 /\ Open(s, i) # {}
  \/ s[i].opcode = 0 /\ Open(s, i) = {}
  \/ Data(s, i) /\ s[i].len + Meant(s, Open(s, i)) > MaxSize

\* A control frame that the protocol allows, but that does not fit beside the
\* fragments that are waiting: the code's test of the limit counts it with them.
Crowded(s, i) ==
  s[i].opcode \in {8, 9, 10} /\ s[i].len + Meant(s, Open(s, i)) > MaxSize

Stopped(s, i) == Forbidden(s, i) \/ Crowded(s, i)

\* wsRecvFrame gives up on a frame exactly when the protocol forbids it there or
\* when it is a control frame that arrives between fragments and would take them
\* above MAX_MESSAGE_SIZE: no forbidden frame gets through, and that is the only
\* kind of allowed frame that ends the session.  (A length in a longer form than
\* it needs is not refused: the RFC asks it of the sender.)
RefusedExactly ==
  \A i \in 1..Len(stream) :
    (i = Len(stream) /\ state = "invalid") <=> Stopped(stream, i)

\* The frames of s up to number i that ask for an answer.
Asks(s, k) == s[k].opcode \in {8, 9} /\ ~Stopped(s, k)
Asked(s, i) == {k \in 1..i : Asks(s, k)}

\* The answer to the frame f: its own payload, masked exactly by a client.
Answer(f) == [opcode |-> IF f.opcode = 8 THEN 8 ELSE 10,
              len |-> f.len, masked |-> ~ExpectMasked]

\* Every ping and the close frame is answered once, in order, with its own
\* payload, and masked exactly when this end is the client; only the last answer
\* can be missing, when the session ends with it.
RepliesMatch ==
  LET asked == Cardinality(Asked(stream, Len(stream))) IN
  /\ \/ Len(replies) = asked
     \/ Len(replies) = asked - 1 /\ state \in {"closed", "lost"}
  /\ \A i \in Asked(stream, Len(stream)) :
       LET n == Cardinality(Asked(stream, i)) IN
       n <= Len(replies) => replies[n] = Answer(stream[i])
=============================================================================
