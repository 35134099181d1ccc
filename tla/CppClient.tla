------------------------------ MODULE CppClient ------------------------------
(***************************************************************************)
(* The C++ client process: the three connection attempts of main, and      *)
(* tryConnect with its handshake, its receive loop, its random-number      *)
(* thread, its send mutex and `active` flag, and its cleanup.              *)
(*                                                                         *)
(* As in CppServer a frame reaches the kernel in FrameParts parts.  `wire` *)
(* records all that was ever handed to the kernel for the server, `unread` *)
(* how much of it the server has still to read.                            *)
(***************************************************************************)
EXTENDS Integers, Sequences

CONSTANTS
  Inputs,     \* the kinds of messages and frames the server sends
  MaxMsgs,    \* bound: how many of them
  MaxRandom,  \* bound: how many random numbers the client sends
  SndBuf,     \* bound: frame parts the kernel holds for the server
  SigPipe     \* EPIPE raises a SIGPIPE that nobody handles (POSIX default)

\* What the server may send: kinds that are answered, that are only logged
\* (MISDIRECTED: registered kinds a client never receives; BAD: payloads that
\* fail to decode, unregistered kinds included), that end the session, and frames.
Answered == {"PING", "KISS_REQUEST"}
Logged == {"BONJOUR", "TIME_NOTIFICATION", "ECHO_RESPONSE", "HASH_RESPONSE",
           "ERROR", "MISDIRECTED", "BAD"}
Frames == {"WSPING", "WSPONG", "WSCLOSE", "INVALID"}

ASSUME InputAssumption ==
  Inputs \subseteq Answered \cup Logged \cup {"DISCONNECT"} \cup Frames
ASSUME BoundAssumption ==
  MaxMsgs \in Nat /\ MaxRandom \in Nat /\ SndBuf \in Nat \ {0}
ASSUME PlatformAssumption == SigPipe \in BOOLEAN

MaxAttempts == 3
FrameParts == 2
Threads == {"main", "random"}
SendPCs == {"send", "insend", "partial"}

\* What main sends, by the message it answers (WSCLOSE and WSPING: from
\* wsRecvFrame) or by the place in tryConnect.
Answer == [PING         |-> "PONG",
           KISS_REQUEST |-> "KISS_RESPONSE",
           WSPING       |-> "WS_PONG",
           WSCLOSE      |-> "WS_CLOSE"]
ControlKinds == {"WS_PONG", "WS_CLOSE", "CLOSE"}
MainSends == {"HELLO", "DISCONNECT", "CLOSE"} \cup {Answer[k] : k \in DOMAIN Answer}

VARIABLES
  exit,       \* "running", 0, 1 (exit codes) or "killed"
  attempt,    \* the attempt main is at
  sock,       \* ws.sock refers to an open socket
  active,     \* std::atomic<bool> active
  sendMutex,  \* the thread holding sendMutex, or "free"
  pc,         \* control state of main and of randomThread
  reply,      \* what main is sending, and the timestamp it carries
  randomId,   \* the id of the next random number
  left,       \* parts of the current frame each thread has still to send
  in,         \* what reached the client's kernel: kind and timestamp
  peer,       \* the server's end: "none", "open", "fin" or "rst"
  msgs,       \* how many messages the server has sent
  pings,      \* how many of them were PINGs: the timestamp of the last
  wire,       \* all frame parts handed to the kernel on this connection
  unread      \* how many of them the server has not read

procVars == <<exit, attempt, sock>>
sessVars == <<active, sendMutex, pc, reply, randomId, left>>
netVars == <<in, peer, msgs, pings, wire, unread>>
vars == <<procVars, sessVars, netVars>>

PCs(t) ==
  SendPCs \cup {"lock", "done"} \cup
  IF t = "main" THEN {"connect", "dial", "handshake", "retry", "hello", "loop",
                      "recv", "cleanup", "join", "control", "close"}
                ELSE {"off", "sleep", "fail"}

Parts == [what: MainSends \cup {"RANDOM_NUMBER"},
          id: 0..MaxMsgs + MaxRandom + 1, last: BOOLEAN]

TypeOK ==
  /\ exit \in {"running", "killed", "0", "1"}
  /\ attempt \in 1..MaxAttempts
  /\ sock \in BOOLEAN /\ active \in BOOLEAN
  /\ sendMutex \in Threads \cup {"free"}
  /\ pc \in [Threads -> PCs("main") \cup PCs("random")]
  /\ \A t \in Threads : pc[t] \in PCs(t)
  /\ reply \in [what: MainSends \cup {"none"}, ts: 0..MaxMsgs]
  /\ randomId \in 1..MaxRandom + 1
  /\ left \in [Threads -> 0..FrameParts]
  /\ in \in Seq([kind: Inputs \cup {"101", "REFUSED"}, ts: 0..MaxMsgs])
  /\ peer \in {"none", "open", "fin", "rst"}
  /\ msgs \in 0..MaxMsgs /\ pings \in 0..MaxMsgs
  /\ wire \in Seq(Parts) /\ unread \in 0..SndBuf

Init ==
  /\ exit = "running" /\ attempt = 1
  /\ sock = FALSE /\ active = FALSE /\ sendMutex = "free"
  /\ pc = [t \in Threads |-> IF t = "main" THEN "connect" ELSE "off"]
  /\ reply = [what |-> "none", ts |-> 0]
  /\ randomId = 1
  /\ left = [t \in Threads |-> 0]
  /\ in = <<>> /\ peer = "none" /\ msgs = 0 /\ pings = 0
  /\ wire = <<>> /\ unread = 0

Goto(t, l) == pc' = [pc EXCEPT ![t] = l]

\* Mutation: a recv() that returns 0 is not taken for the end.
NoMoreInputButReset == peer = "rst"

\* A recv() returns 0 or -1.
NoMoreInput == peer = "rst" \/ (in = <<>> /\ peer = "fin")

-----------------------------------------------------------------------------
(* The server and the network.                                             *)

\* The answer to the upgrade request, right or wrong.
ServerRespond ==
  /\ pc["main"] = "handshake" /\ peer = "open" /\ in = <<>>
  /\ \E k \in {"101", "REFUSED"} : in' = <<[kind |-> k, ts |-> 0]>>
  /\ UNCHANGED <<procVars, sessVars, peer, msgs, pings, wire, unread>>

ServerSend ==
  /\ peer = "open" /\ active /\ msgs < MaxMsgs
  /\ \E k \in Inputs :
       /\ pings' = IF k = "PING" THEN pings + 1 ELSE pings
       /\ in' = Append(in, [kind |-> k, ts |-> IF k = "PING" THEN pings' ELSE 0])
  /\ msgs' = msgs + 1
  /\ UNCHANGED <<procVars, sessVars, peer, wire, unread>>

ServerRead ==
  /\ peer = "open" /\ unread > 0
  /\ unread' = unread - 1
  /\ UNCHANGED <<procVars, sessVars, in, peer, msgs, pings, wire>>

ServerClose ==
  /\ peer = "open"
  /\ peer' = "fin"
  /\ UNCHANGED <<procVars, sessVars, in, msgs, pings, wire, unread>>

ServerReset ==
  /\ peer \in {"open", "fin"}
  /\ peer' = "rst"
  /\ UNCHANGED <<procVars, sessVars, in, msgs, pings, wire, unread>>

Server == \/ ServerRespond \/ ServerSend \/ ServerRead
          \/ ServerClose \/ ServerReset

-----------------------------------------------------------------------------
(* main: the attempts and the handshake.                                   *)

\* Mutation: connect returns false and leaves its socket open.
CloseRefusedLeaks == peer' = "none" /\ in' = <<>> /\ UNCHANGED sock

\* WSClient::connect gives up: the socket is closed, the connection is gone.
CloseRefused == sock' = FALSE /\ peer' = "none" /\ in' = <<>>

\* It asks for a socket first, and may get none.
Connect ==
  /\ pc["main"] = "connect"
  /\ \/ sock' = TRUE /\ Goto("main", "dial")
     \/ Goto("main", "retry") /\ UNCHANGED sock
  /\ UNCHANGED <<exit, attempt, active, sendMutex, reply, randomId, left, netVars>>

\* The name is resolved and the connection made, or one of the two fails.
Dial ==
  /\ pc["main"] = "dial"
  /\ \/ peer' = "open" /\ Goto("main", "handshake") /\ UNCHANGED <<sock, in>>
     \/ CloseRefused /\ Goto("main", "retry")
  /\ UNCHANGED <<exit, attempt, active, sendMutex, reply, randomId, left,
                 msgs, pings, wire, unread>>

\* Mutation: the session starts without HELLO.
BeginSilently == Goto("main", "hello") /\ UNCHANGED reply

\* tryConnect begins with sendFrame(HELLO).
Begin == Goto("main", "lock") /\ reply' = [what |-> "HELLO", ts |-> 0]

\* The response: on 101 tryConnect goes on with HELLO; otherwise connect closes
\* the socket and fails.  The request itself may meet a reset, with a SIGPIPE.
Handshake ==
  /\ pc["main"] = "handshake"
  /\ \/ /\ in # <<>> /\ Head(in).kind = "101"
        /\ in' = Tail(in)
        /\ active' = TRUE
        /\ Begin
        /\ UNCHANGED <<exit, sock, peer>>
     \/ /\ NoMoreInput \/ (in # <<>> /\ Head(in).kind = "REFUSED")
        /\ CloseRefused
        /\ Goto("main", "retry")
        /\ UNCHANGED <<exit, active, reply>>
     \/ /\ peer = "rst" /\ SigPipe
        /\ exit' = "killed"
        /\ UNCHANGED <<sock, active, pc, reply, in, peer>>
  /\ UNCHANGED <<attempt, sendMutex, randomId, left, msgs, pings,
                 wire, unread>>

\* tryConnect returned false.
Retry ==
  /\ pc["main"] = "retry"
  /\ \/ /\ attempt < MaxAttempts
        /\ attempt' = attempt + 1
        /\ Goto("main", "connect")
        /\ UNCHANGED exit
     \/ /\ attempt = MaxAttempts
        /\ exit' = "1"
        /\ Goto("main", "done")
        /\ UNCHANGED attempt
  /\ UNCHANGED <<sock, active, sendMutex, reply, randomId, left, netVars>>

-----------------------------------------------------------------------------
(* sendFrame, wsSendControl and sendAll.                                   *)

\* Where a thread continues when its frame was sent (ok) or could not be; only
\* randomThread and the answer to a ping look at the result.
AfterSend(t, ok) ==
  IF t = "random" THEN IF ok THEN "sleep" ELSE "fail"
  ELSE CASE reply.what = "HELLO" -> "hello"
         [] reply.what = "WS_PONG" -> IF ok THEN "recv" ELSE "cleanup"
         [] reply.what = "WS_CLOSE" -> "cleanup"
         [] reply.what = "DISCONNECT" -> "control"
         [] reply.what = "CLOSE" -> "close"
         [] OTHER -> "loop"

\* Mutation: the id stays as it is.
NextIdStuck(t, ok) == randomId

\* After a success randomThread increments its id.
NextId(t, ok) == IF t = "random" /\ ok THEN randomId + 1 ELSE randomId

\* Return from sendFrame or wsSendControl.
SendReturns(t, ok) ==
  /\ Goto(t, AfterSend(t, ok))
  /\ sendMutex' = IF sendMutex = t THEN "free" ELSE sendMutex
  /\ left' = [left EXCEPT ![t] = 0]
  /\ randomId' = NextId(t, ok)

\* Mutations: sendFrame does not wait for the mutex; a frame has one part too many.
MayLockAlways == TRUE
BuildTooLong(t) == left' = [left EXCEPT ![t] = FrameParts + 1]

MayLock == sendMutex = "free"

\* The frame is there, whole, before its first part is sent.
Build(t) == left' = [left EXCEPT ![t] = FrameParts]

\* sendFrame: take the mutex, then look at active.
LockAndTest(t) ==
  /\ pc[t] = "lock" /\ MayLock
  /\ \/ /\ active
        /\ sendMutex' = t
        /\ Build(t)
        /\ Goto(t, "send")
        /\ UNCHANGED randomId
     \/ ~active /\ SendReturns(t, FALSE)
  /\ UNCHANGED <<procVars, active, reply, netVars>>

\* The send() call of sendAll.
CallSend(t) ==
  /\ pc[t] = "send"
  /\ \/ sock /\ Goto(t, "insend") /\ UNCHANGED <<sendMutex, left, randomId>>
     \/ ~sock /\ SendReturns(t, FALSE)
  /\ UNCHANGED <<procVars, active, reply, netVars>>

\* The part of its frame thread t hands to the kernel next.
NextPart(t) ==
  [what |-> IF t = "random" THEN "RANDOM_NUMBER" ELSE reply.what,
   id   |-> IF t = "random" THEN randomId ELSE reply.ts,
   last |-> left[t] = 1]

\* Inside send(): the part fits in the send buffer.
CopyPart(t) ==
  /\ pc[t] \in {"insend", "partial"}
  /\ peer # "rst" /\ unread < SndBuf
  /\ wire' = Append(wire, NextPart(t)) /\ unread' = unread + 1
  /\ \/ left[t] = 1 /\ SendReturns(t, TRUE)
     \/ /\ left[t] > 1
        /\ left' = [left EXCEPT ![t] = @ - 1]
        /\ Goto(t, "partial")
        /\ UNCHANGED <<sendMutex, randomId>>
  /\ UNCHANGED <<procVars, active, reply, in, peer, msgs, pings>>

\* The connection was reset: see CppServer!SendError.
SendError(t) ==
  /\ pc[t] \in {"insend", "partial"} /\ peer = "rst"
  /\ \/ /\ pc[t] = "partial"
        /\ Goto(t, "send")
        /\ UNCHANGED <<exit, sendMutex, left, randomId>>
     \/ /\ pc[t] = "insend"
        /\ SendReturns(t, FALSE)
        /\ UNCHANGED exit
     \/ /\ pc[t] = "insend" /\ SigPipe
        /\ exit' = "killed"
        /\ UNCHANGED <<sendMutex, pc, left, randomId>>
  /\ UNCHANGED <<attempt, sock, active, reply, netVars>>

Send(t) == LockAndTest(t) \/ CallSend(t) \/ CopyPart(t) \/ SendError(t)

-----------------------------------------------------------------------------
(* randomThread.                                                           *)

Wake ==
  /\ pc["random"] = "sleep"
  /\ \/ active /\ randomId <= MaxRandom /\ Goto("random", "lock")
     \/ ~active /\ Goto("random", "done")
  /\ UNCHANGED <<procVars, active, sendMutex, reply, randomId, left, netVars>>

Fail ==
  /\ pc["random"] = "fail"
  /\ active' = FALSE
  /\ Goto("random", "done")
  /\ UNCHANGED <<procVars, sendMutex, reply, randomId, left, netVars>>

-----------------------------------------------------------------------------
(* The receive loop and the cleanup.                                       *)

\* HELLO was attempted, whatever its result: randomThread is started.
StartRandom ==
  /\ pc["main"] = "hello"
  /\ pc' = [pc EXCEPT !["main"] = "loop", !["random"] = "sleep"]
  /\ UNCHANGED <<procVars, active, sendMutex, reply, randomId, left, netVars>>

Loop ==
  /\ pc["main"] = "loop"
  /\ Goto("main", IF active THEN "recv" ELSE "cleanup")
  /\ UNCHANGED <<procVars, active, sendMutex, reply, randomId, left, netVars>>

Eof ==
  /\ pc["main"] = "recv" /\ NoMoreInput
  /\ Goto("main", "cleanup")
  /\ UNCHANGED <<procVars, active, sendMutex, reply, randomId, left, netVars>>

\* Mutation: PONG carries the time at which it is sent.
ReplyToNow(m) == [what |-> Answer[m.kind], ts |-> pings]

\* PONG carries the timestamp of the PING it answers.
ReplyTo(m) == [what |-> Answer[m.kind], ts |-> m.ts]

\* One message, handled by the switch or, when it is a control frame, by
\* wsRecvFrame, whose answers do not go through sendFrame.
Receive ==
  /\ pc["main"] = "recv" /\ in # <<>>
  /\ in' = Tail(in)
  /\ LET k == Head(in).kind IN
     \/ /\ k \in DOMAIN Answer
        /\ reply' = ReplyTo(Head(in))
        /\ \/ /\ k \in Answered
              /\ Goto("main", "lock")
              /\ UNCHANGED left
           \/ /\ k \in Frames
              /\ Build("main")
              /\ Goto("main", "send")
        /\ UNCHANGED active
     \/ /\ k \notin DOMAIN Answer
        /\ active' = (active /\ k # "DISCONNECT")
        /\ Goto("main", CASE k = "INVALID" -> "cleanup"
                          [] k = "WSPONG" -> "recv"
                          [] OTHER -> "loop")
        /\ UNCHANGED <<reply, left>>
  /\ UNCHANGED <<procVars, sendMutex, randomId, peer, msgs, pings, wire, unread>>

\* Mutation: the socket is closed before randomThread is joined.
StopAndClose == active' = FALSE /\ sock' = FALSE

Stop == active' = FALSE /\ UNCHANGED sock

Cleanup ==
  /\ pc["main"] = "cleanup"
  /\ Stop
  /\ Goto("main", "join")
  /\ UNCHANGED <<exit, attempt, sendMutex, reply, randomId, left, netVars>>

\* randomThread.join(), then sendFrame(DISCONNECT).
Join ==
  /\ pc["main"] = "join" /\ pc["random"] = "done"
  /\ reply' = [what |-> "DISCONNECT", ts |-> 0]
  /\ Goto("main", "lock")
  /\ UNCHANGED <<procVars, active, sendMutex, randomId, left, netVars>>

\* wsSendControl(ws.sock, 0x08).
SendCloseFrame ==
  /\ pc["main"] = "control"
  /\ reply' = [what |-> "CLOSE", ts |-> 0]
  /\ Build("main")
  /\ Goto("main", "send")
  /\ UNCHANGED <<procVars, active, sendMutex, randomId, netVars>>

\* ws.close(); tryConnect returns true and main returns 0.
Close ==
  /\ pc["main"] = "close"
  /\ sock' = FALSE
  /\ exit' = "0"
  /\ Goto("main", "done")
  /\ UNCHANGED <<attempt, active, sendMutex, reply, randomId, left, netVars>>

Main == \/ Connect \/ Dial \/ Handshake \/ Retry \/ Send("main") \/ StartRandom
        \/ Loop \/ Eof \/ Receive \/ Cleanup \/ Join \/ SendCloseFrame \/ Close
Random == Send("random") \/ Wake \/ Fail

Next == exit = "running" /\ (Server \/ Main \/ Random)

Spec == Init /\ [][Next]_vars
\* The client's threads run, and what is sent to a closed server is answered
\* with a reset.
Fairness ==
  /\ WF_vars(exit = "running" /\ Main)
  /\ WF_vars(exit = "running" /\ Random)
  /\ WF_vars(exit = "running" /\ peer = "fin" /\ unread > 0 /\ ServerReset)

\* A server that closes every connection in the end, read or not.
ClosingSpec == Spec /\ Fairness /\ WF_vars(exit = "running" /\ ServerClose)

-----------------------------------------------------------------------------
(* Properties.                                                             *)

\* ws.sock stays open while a thread is inside a send: tryConnect joins
\* randomThread before it closes the socket.
NoUseAfterClose == \A t \in Threads : pc[t] \in SendPCs => sock

\* Between two attempts and at the end no socket and no thread is left behind,
\* on whichever path tryConnect failed or returned.
Released ==
  pc["main"] \in {"connect", "retry", "done"} =>
    ~sock /\ pc["random"] \in {"off", "done"}

\* A frame of kind k was handed to the kernel whole, its last part at place i.
Whole(k, i) == wire[i].what = k /\ wire[i].last

\* Before the frame of kind k with id n, those with ids 1 to n - 1 were sent.
InOrder(k) ==
  \A j \in 1..Len(wire) : Whole(k, j) =>
    {wire[i].id : i \in {h \in 1..j - 1 : Whole(k, h)}} = 1..wire[j].id - 1

\* HELLO is the first frame of a connection.
HelloFirst == wire # <<>> => wire[1].what = "HELLO"

\* The server gets random numbers 1, 2, 3, ... without gap or repetition, also
\* when a send fails or the session ends in the middle.
RandomIdsInOrder == InOrder("RANDOM_NUMBER")

\* The n-th PONG answers the n-th PING, with its timestamp.
PongsInOrder == InOrder("PONG")

\* No two binary frames are mixed on the wire: randomThread and the receive loop
\* both send through sendFrame.  The next binary part after one that does not end
\* its frame belongs to the same frame.
BinaryContiguous ==
  \A i, j \in 1..Len(wire) :
    /\ i < j /\ ~wire[i].last
    /\ {wire[i].what, wire[j].what} \cap ControlKinds = {}
    /\ \A h \in i + 1..j - 1 : wire[h].what \in ControlKinds
    => wire[j].what = wire[i].what /\ wire[j].id = wire[i].id

\* The client exits when the server closes the connection, wherever its threads
\* are at that moment.
Exits == <>(exit # "running")
=============================================================================
