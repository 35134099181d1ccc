------------------------------ MODULE CppServer ------------------------------
(***************************************************************************)
(* The C++ server process: the accept loop of main, and one handleClient   *)
(* per accepted connection with its receive loop, its background senders   *)
(* (ping, time, kiss), its timeout thread, its send mutex and its `active` *)
(* flag, over the kernel's descriptor table and TCP connections.           *)
(*                                                                         *)
(* A message is abstracted to its kind.  A frame is handed to the kernel   *)
(* in FrameParts parts, because sendAll may be suspended half way through  *)
(* a frame when the send buffer is full.                                   *)
(***************************************************************************)
EXTENDS Integers, Sequences

CONSTANTS
  Conns,       \* the TCP connections clients open during the run
  NoConn,      \* a free entry of the descriptor table
  FDs,         \* the descriptor numbers the process may be given
  Tasks,       \* the background senders that run: a subset of AllTasks
  Inputs,      \* the kinds of messages the clients send
  MaxMsgs,     \* bound: messages a client sends after its upgrade request
  InBuf,       \* bound: messages the kernel holds for the server
  SndBuf,      \* bound: frame parts the kernel holds for a client
  Timeout,     \* SESSION_TIMEOUT_MS in periods of the timeout thread
  CloseWakes,  \* close() fails a send() in progress (TRUE on Windows only)
  SigPipe      \* EPIPE raises a SIGPIPE that nobody handles (POSIX default)

AllTasks == {"ping", "time", "kiss"}

\* What a client may send once upgraded: payload kinds, then frame kinds.
Messages == {"HELLO", "ECHO_REQUEST", "KISS_RESPONSE", "PONG", "RANDOM_NUMBER",
             "DISCONNECT", "ERROR", "MISDIRECTED", "UNKNOWN", "BAD"}
Frames == {"WSPING", "WSPONG", "WSCLOSE", "INVALID"}

ASSUME ConnAssumption == NoConn \notin Conns
ASSUME FDAssumption == FDs \subseteq Nat
ASSUME TaskAssumption == Tasks \subseteq AllTasks
ASSUME InputAssumption == Inputs \subseteq Messages \cup Frames
ASSUME BoundAssumption ==
  /\ MaxMsgs \in Nat /\ InBuf \in Nat \ {0}
  /\ SndBuf \in Nat \ {0} /\ Timeout \in Nat
ASSUME PlatformAssumption == CloseWakes \in BOOLEAN /\ SigPipe \in BOOLEAN

Threads == {"recv", "timeout"} \cup Tasks
INVALID_SOCKET == -1
FrameParts == 2

\* The answer handleClient gives through sendFrame, by kind of message: the
\* registered kinds a server never receives (MISDIRECTED) and unregistered ones get
\* an ERROR, and so does a payload that fails to decode (BAD).
Answer == [HELLO         |-> "BONJOUR",
           ECHO_REQUEST  |-> "ECHO_RESPONSE",
           RANDOM_NUMBER |-> "HASH_RESPONSE",
           MISDIRECTED   |-> "ERR_UNKNOWN_MSG_TYPE",
           UNKNOWN       |-> "ERR_UNKNOWN_MSG_TYPE",
           BAD           |-> "ERR_DECODE"]

\* The control frame wsRecvFrame sends by itself, by kind of frame.
ControlAnswer == [WSPING |-> "WS_PONG", WSCLOSE |-> "WS_CLOSE"]

AnswerKinds == {Answer[m] : m \in DOMAIN Answer}
ControlKinds == {ControlAnswer[m] : m \in DOMAIN ControlAnswer}

\* What the server's kernel receives, and what it holds for a client: the part
\* of a frame, the session that wrote it, and whether it is the frame's last.
Received == Inputs \cup {"UPGRADE", "BADREQ"}
Parts == [by: Conns, last: BOOLEAN,
          what: AnswerKinds \cup ControlKinds \cup Tasks \cup {"HTTP_101"}]

\* The control states of a thread: inside sendFrame or wsSendControl, then by
\* kind of thread.
SendPCs == {"send", "insend", "partial"}
PCs(t) ==
  {"off", "done"} \cup
  CASE t = "recv" -> SendPCs \cup {"loop", "recv", "lock", "drop", "cleanup",
                                  "close", "join"}
    [] t = "timeout" -> {"sleep", "expire", "shut"}
    [] OTHER -> SendPCs \cup {"sleep", "lock", "fail"}
AllPCs == UNION {PCs(t) : t \in Threads}

VARIABLES
  alive,       \* the process has not been killed
  fds,         \* descriptor table: FDs -> Conns \cup {NoConn}
  mainPc,      \* main: "accept", "headers" (handshake read) or "respond"
  mainConn,    \* the connection main is performing the handshake for
  clientSock,  \* the descriptor number a session captured
  active,      \* std::atomic<bool> active
  sendMutex,   \* the thread holding sendMutex, or "free"
  pc,          \* control state of every thread of every session
  reply,       \* the receive thread's answer to the last message, or "none"
  left,        \* parts of the current frame each thread has still to send
  file,        \* the connection a send() in progress works on, or NoConn
  in,          \* per connection: messages that reached the server's kernel
  out,         \* per connection: frame parts the client has not yet read
  peer,        \* the client's end: "none", "open", "fin" or "rst"
  shut,        \* shutdown(SHUT_RDWR) was called on the connection
  msgs,        \* how many messages the client has sent
  age          \* timeout periods since lastPongTs, capped at Timeout + 1

procVars == <<alive, fds, mainPc, mainConn, clientSock>>
sessVars == <<active, sendMutex, pc, reply, left, file>>
netVars == <<in, out, peer, shut, msgs>>
vars == <<procVars, sessVars, netVars, age>>

TypeOK ==
  /\ alive \in BOOLEAN
  /\ fds \in [FDs -> Conns \cup {NoConn}]
  /\ mainPc \in {"accept", "headers", "respond"}
  /\ mainConn \in Conns \cup {NoConn}
  /\ clientSock \in [Conns -> FDs \cup {INVALID_SOCKET}]
  /\ active \in [Conns -> BOOLEAN]
  /\ sendMutex \in [Conns -> Threads \cup {"free"}]
  /\ pc \in [Conns -> [Threads -> AllPCs]]
  /\ \A c \in Conns : \A t \in Threads : pc[c][t] \in PCs(t)
  /\ reply \in [Conns -> AnswerKinds \cup ControlKinds \cup {"none"}]
  /\ left \in [Conns -> [Threads -> 0..FrameParts]]
  /\ file \in [Conns -> [Threads -> Conns \cup {NoConn}]]
  /\ in \in [Conns -> Seq(Received)]
  /\ out \in [Conns -> Seq(Parts)]
  /\ peer \in [Conns -> {"none", "open", "fin", "rst"}]
  /\ shut \in [Conns -> BOOLEAN]
  /\ msgs \in [Conns -> 0..MaxMsgs + 1]
  /\ age \in [Conns -> 0..Timeout + 1]

Init ==
  /\ alive = TRUE
  /\ fds = [f \in FDs |-> NoConn]
  /\ mainPc = "accept" /\ mainConn = NoConn
  /\ clientSock = [c \in Conns |-> INVALID_SOCKET]
  /\ active = [c \in Conns |-> FALSE]
  /\ sendMutex = [c \in Conns |-> "free"]
  /\ pc = [c \in Conns |-> [t \in Threads |-> "off"]]
  /\ reply = [c \in Conns |-> "none"]
  /\ left = [c \in Conns |-> [t \in Threads |-> 0]]
  /\ file = [c \in Conns |-> [t \in Threads |-> NoConn]]
  /\ in = [c \in Conns |-> <<>>]
  /\ out = [c \in Conns |-> <<>>]
  /\ peer = [c \in Conns |-> "none"]
  /\ shut = [c \in Conns |-> FALSE]
  /\ msgs = [c \in Conns |-> 0]
  /\ age = [c \in Conns |-> 0]

Goto(c, t, l) == pc' = [pc EXCEPT ![c][t] = l]

\* The session's handler has started and has not returned.
Live(c) == pc[c]["recv"] \notin {"off", "done"}

\* A recv() on c returns 0 or -1: the client reset the connection, or nothing is
\* left to read and it was closed by the client or shut down here.
NoMoreInput(c) ==
  peer[c] = "rst" \/ (in[c] = <<>> /\ (peer[c] = "fin" \/ shut[c]))

\* A send() on k fails: the client reset it, or it was shut down here.
Broken(k) == peer[k] = "rst" \/ shut[k]

-----------------------------------------------------------------------------
(* The clients and the network.                                            *)

PeerConnect(c) ==
  /\ peer[c] = "none"
  /\ peer' = [peer EXCEPT ![c] = "open"]
  /\ UNCHANGED <<procVars, sessVars, in, out, shut, msgs, age>>

\* The upgrade request: one WSServer::accept serves, or one it refuses.
PeerRequest(c) ==
  /\ peer[c] = "open" /\ msgs[c] = 0
  /\ \E r \in {"UPGRADE", "BADREQ"} : in' = [in EXCEPT ![c] = <<r>>]
  /\ msgs' = [msgs EXCEPT ![c] = 1]
  /\ UNCHANGED <<procVars, sessVars, out, peer, shut, age>>

PeerSend(c) ==
  /\ peer[c] = "open" /\ Live(c)
  /\ msgs[c] <= MaxMsgs /\ Len(in[c]) < InBuf
  /\ \E m \in Inputs : in' = [in EXCEPT ![c] = Append(@, m)]
  /\ msgs' = [msgs EXCEPT ![c] = @ + 1]
  /\ UNCHANGED <<procVars, sessVars, out, peer, shut, age>>

PeerRead(c) ==
  /\ peer[c] = "open" /\ out[c] # <<>>
  /\ out' = [out EXCEPT ![c] = Tail(@)]
  /\ UNCHANGED <<procVars, sessVars, in, peer, shut, msgs, age>>

\* The client closes its end; later, or at once, the connection is reset.
PeerClose(c) ==
  /\ peer[c] = "open"
  /\ peer' = [peer EXCEPT ![c] = "fin"]
  /\ UNCHANGED <<procVars, sessVars, in, out, shut, msgs, age>>

PeerReset(c) ==
  /\ peer[c] \in {"open", "fin"}
  /\ peer' = [peer EXCEPT ![c] = "rst"]
  /\ UNCHANGED <<procVars, sessVars, in, out, shut, msgs, age>>

\* One period of the timeout thread passes for every session.
Tick ==
  /\ \E c \in Conns : Live(c) /\ age[c] <= Timeout
  /\ age' = [c \in Conns |-> IF Live(c) /\ age[c] <= Timeout THEN age[c] + 1
                                                             ELSE age[c]]
  /\ UNCHANGED <<procVars, sessVars, netVars>>

-----------------------------------------------------------------------------
(* main: accept, handshake, start of the session.                          *)

\* The kernel gives out the lowest free number; while there is none accept()
\* fails and main calls it again.
Lowest(f) == fds[f] = NoConn /\ \A g \in FDs : fds[g] = NoConn => f <= g

Accept(c) ==
  /\ mainPc = "accept"
  /\ peer[c] # "none" /\ clientSock[c] = INVALID_SOCKET
  /\ \E f \in FDs : /\ Lowest(f)
                    /\ fds' = [fds EXCEPT ![f] = c]
                    /\ clientSock' = [clientSock EXCEPT ![c] = f]
  /\ mainPc' = "headers" /\ mainConn' = c
  /\ UNCHANGED <<alive, sessVars, netVars, age>>

\* Mutation: accept returns INVALID_SOCKET and leaves the client's socket open.
CloseRefusedLeaks(c) ==
  /\ mainPc' = "accept" /\ mainConn' = NoConn
  /\ UNCHANGED <<alive, fds, clientSock, sessVars, out, peer, shut, msgs, age>>

\* WSServer::accept gives the connection up.
CloseRefused(c) ==
  /\ fds' = [fds EXCEPT ![clientSock[c]] = NoConn]
  /\ mainPc' = "accept" /\ mainConn' = NoConn
  /\ UNCHANGED <<alive, clientSock, sessVars, out, peer, shut, msgs, age>>

\* recvHttpHeaders blocks until the request is there or the client is gone.
ReadRequest(c) ==
  /\ mainPc = "headers" /\ mainConn = c
  /\ \/ /\ in[c] # <<>> /\ Head(in[c]) = "UPGRADE"
        /\ in' = [in EXCEPT ![c] = Tail(@)]
        /\ mainPc' = "respond"
        /\ UNCHANGED <<alive, fds, mainConn, clientSock, sessVars, out, peer,
                       shut, msgs, age>>
     \/ /\ in[c] # <<>> /\ Head(in[c]) = "BADREQ"
        /\ in' = [in EXCEPT ![c] = Tail(@)]
        /\ CloseRefused(c)
     \/ /\ NoMoreInput(c)
        /\ CloseRefused(c)
        /\ UNCHANGED in

\* The 101 response, which fails or raises SIGPIPE when the client is gone; then a
\* detached thread runs handleClient: its locals are initialised and its four
\* background threads started.
Respond(c) ==
  /\ mainPc = "respond" /\ mainConn = c
  /\ \/ /\ Broken(c)
        /\ CloseRefused(c)
        /\ UNCHANGED in
     \/ /\ Broken(c) /\ SigPipe
        /\ alive' = FALSE
        /\ UNCHANGED <<fds, mainPc, mainConn, clientSock, sessVars, netVars, age>>
     \/ /\ ~Broken(c) /\ Len(out[c]) < SndBuf
        /\ out' = [out EXCEPT ![c] =
                     Append(@, [by |-> c, what |-> "HTTP_101", last |-> TRUE])]
        /\ mainPc' = "accept" /\ mainConn' = NoConn
        /\ active' = [active EXCEPT ![c] = TRUE]
        /\ pc' = [pc EXCEPT ![c] = [t \in Threads |-> IF t = "recv" THEN "loop"
                                                                   ELSE "sleep"]]
        /\ age' = [age EXCEPT ![c] = 0]
        /\ UNCHANGED <<alive, fds, clientSock, sendMutex, reply, left, file, in,
                       peer, shut, msgs>>

Main(c) == Accept(c) \/ ReadRequest(c) \/ Respond(c)

-----------------------------------------------------------------------------
(* sendFrame and sendAll.                                                  *)

\* Mutation: an unknown type is treated like a payload that failed to decode.
AfterSendUnknownDrops(c, t, ok) ==
  IF t # "recv" THEN IF ok THEN "sleep" ELSE "fail"
  ELSE CASE reply[c] = "WS_PONG" -> IF ok THEN "recv" ELSE "cleanup"
         [] reply[c] = "WS_CLOSE" -> "cleanup"
         [] reply[c] \in {"ERR_DECODE", "ERR_UNKNOWN_MSG_TYPE"} -> "drop"
         [] OTHER -> "loop"

\* Where a thread continues when its frame was sent (ok) or could not be.
AfterSend(c, t, ok) ==
  IF t # "recv" THEN IF ok THEN "sleep" ELSE "fail"
  ELSE CASE reply[c] = "WS_PONG" -> IF ok THEN "recv" ELSE "cleanup"
         [] reply[c] = "WS_CLOSE" -> "cleanup"
         [] reply[c] = "ERR_DECODE" -> "drop"
         [] OTHER -> "loop"

\* Mutation: the mutex is released only when the frame was sent.
SendReturnsLeaks(c, t, ok) ==
  /\ Goto(c, t, AfterSend(c, t, ok))
  /\ sendMutex' = IF sendMutex[c] = t /\ ok
                  THEN [sendMutex EXCEPT ![c] = "free"] ELSE sendMutex
  /\ left' = [left EXCEPT ![c][t] = 0]
  /\ file' = [file EXCEPT ![c][t] = NoConn]

\* Return from sendFrame, whose lock_guard releases the mutex, or from
\* wsSendControl, which does not hold it.
SendReturns(c, t, ok) ==
  /\ Goto(c, t, AfterSend(c, t, ok))
  /\ sendMutex' = IF sendMutex[c] = t THEN [sendMutex EXCEPT ![c] = "free"]
                                      ELSE sendMutex
  /\ left' = [left EXCEPT ![c][t] = 0]
  /\ file' = [file EXCEPT ![c][t] = NoConn]

\* Mutation: sendFrame does not wait for the mutex.
LockAndTestUnlocked(c, t) ==
  /\ pc[c][t] = "lock"
  /\ \/ /\ active[c]
        /\ sendMutex' = [sendMutex EXCEPT ![c] = t]
        /\ left' = [left EXCEPT ![c][t] = FrameParts]
        /\ Goto(c, t, "send")
        /\ UNCHANGED file
     \/ ~active[c] /\ SendReturns(c, t, FALSE)
  /\ UNCHANGED <<procVars, active, reply, netVars, age>>

\* Mutation: the frame is one part longer than what was built.
LockAndTestTooLong(c, t) ==
  /\ pc[c][t] = "lock" /\ sendMutex[c] = "free"
  /\ active[c]
  /\ sendMutex' = [sendMutex EXCEPT ![c] = t]
  /\ left' = [left EXCEPT ![c][t] = FrameParts + 1]
  /\ Goto(c, t, "send")
  /\ UNCHANGED <<procVars, active, reply, file, netVars, age>>

\* sendFrame: take the mutex, then look at active.
LockAndTest(c, t) ==
  /\ pc[c][t] = "lock" /\ sendMutex[c] = "free"
  /\ \/ /\ active[c]
        /\ sendMutex' = [sendMutex EXCEPT ![c] = t]
        /\ left' = [left EXCEPT ![c][t] = FrameParts]
        /\ Goto(c, t, "send")
        /\ UNCHANGED file
     \/ ~active[c] /\ SendReturns(c, t, FALSE)
  /\ UNCHANGED <<procVars, active, reply, netVars, age>>

\* The send() call: the kernel looks the descriptor number up.
CallSend(c, t) ==
  /\ pc[c][t] = "send"
  /\ LET k == fds[clientSock[c]] IN
     \/ k = NoConn /\ SendReturns(c, t, FALSE)
     \/ /\ k # NoConn
        /\ file' = [file EXCEPT ![c][t] = k]
        /\ Goto(c, t, "insend")
        /\ UNCHANGED <<sendMutex, left>>
  /\ UNCHANGED <<procVars, active, reply, netVars, age>>

\* Inside send(): a part of the frame fits in the send buffer.
CopyPart(c, t) ==
  /\ pc[c][t] \in {"insend", "partial"}
  /\ LET k == file[c][t] IN
     /\ ~Broken(k) /\ Len(out[k]) < SndBuf
     /\ out' = [out EXCEPT ![k] =
                  Append(@, [by   |-> c,
                             what |-> IF t = "recv" THEN reply[c] ELSE t,
                             last |-> left[c][t] = 1])]
  /\ \/ left[c][t] = 1 /\ SendReturns(c, t, TRUE)
     \/ /\ left[c][t] > 1
        /\ left' = [left EXCEPT ![c][t] = @ - 1]
        /\ Goto(c, t, "partial")
        /\ UNCHANGED <<sendMutex, file>>
  /\ UNCHANGED <<procVars, active, reply, in, peer, shut, msgs, age>>

\* Inside send(): the connection is gone.  A call that copied a part already
\* returns the short count and sendAll calls send() again for the rest; one
\* that copied nothing fails, and EPIPE comes with a SIGPIPE: always after a
\* local shutdown, sometimes after a reset.
SendError(c, t) ==
  /\ pc[c][t] \in {"insend", "partial"}
  /\ LET k == file[c][t] IN
     /\ Broken(k) \/ (CloseWakes /\ \A f \in FDs : fds[f] # k)
     /\ \/ /\ pc[c][t] = "partial"
           /\ Goto(c, t, "send")
           /\ file' = [file EXCEPT ![c][t] = NoConn]
           /\ UNCHANGED <<alive, sendMutex, left>>
        \/ /\ pc[c][t] = "insend" /\ ~(SigPipe /\ shut[k])
           /\ SendReturns(c, t, FALSE)
           /\ UNCHANGED alive
        \/ /\ pc[c][t] = "insend" /\ SigPipe /\ Broken(k)
           /\ alive' = FALSE
           /\ UNCHANGED <<sendMutex, pc, left, file>>
  /\ UNCHANGED <<fds, mainPc, mainConn, clientSock, active, reply, netVars, age>>

Send(c, t) == \/ LockAndTest(c, t) \/ CallSend(c, t)
              \/ CopyPart(c, t) \/ SendError(c, t)

-----------------------------------------------------------------------------
(* The background threads.                                                 *)

\* pingThread, timeThread, kissThread: after the sleep, look at active.
Wake(c, t) ==
  /\ t \in Tasks /\ pc[c][t] = "sleep"
  /\ Goto(c, t, IF active[c] THEN "lock" ELSE "done")
  /\ UNCHANGED <<procVars, active, sendMutex, reply, left, file, netVars, age>>

\* sendFrame returned false: active = false and leave the loop.
Fail(c, t) ==
  /\ pc[c][t] = "fail"
  /\ active' = [active EXCEPT ![c] = FALSE]
  /\ Goto(c, t, "done")
  /\ UNCHANGED <<procVars, sendMutex, reply, left, file, netVars, age>>

\* timeoutThread: after the sleep, compare the age of the last PONG.  A round
\* that finds nothing to do changes no state.
CheckTimeout(c) ==
  /\ pc[c]["timeout"] = "sleep"
  /\ \/ ~active[c] /\ Goto(c, "timeout", "done")
     \/ active[c] /\ age[c] > Timeout /\ Goto(c, "timeout", "expire")
  /\ UNCHANGED <<procVars, active, sendMutex, reply, left, file, netVars, age>>

Expire(c) ==
  /\ pc[c]["timeout"] = "expire"
  /\ active' = [active EXCEPT ![c] = FALSE]
  /\ Goto(c, "timeout", "shut")
  /\ UNCHANGED <<procVars, sendMutex, reply, left, file, netVars, age>>

\* Mutation: the socket is closed instead of shut down.
ShutdownCloses(c) ==
  /\ pc[c]["timeout"] = "shut"
  /\ fds' = [fds EXCEPT ![clientSock[c]] = NoConn]
  /\ Goto(c, "timeout", "done")
  /\ UNCHANGED <<alive, mainPc, mainConn, clientSock, active, sendMutex, reply,
                 left, file, netVars, age>>

\* Mutation: the flag is cleared and the blocked recv() is left alone.
ShutdownMissing(c) ==
  /\ pc[c]["timeout"] = "shut"
  /\ Goto(c, "timeout", "done")
  /\ UNCHANGED <<procVars, active, sendMutex, reply, left, file, netVars, age>>

\* hws_shutdown(clientSock): whatever connection has that number now.
Shutdown(c) ==
  /\ pc[c]["timeout"] = "shut"
  /\ LET k == fds[clientSock[c]] IN
     shut' = IF k = NoConn THEN shut ELSE [shut EXCEPT ![k] = TRUE]
  /\ Goto(c, "timeout", "done")
  /\ UNCHANGED <<procVars, active, sendMutex, reply, left, file, in, out, peer,
                 msgs, age>>

TimeoutThread(c) == CheckTimeout(c) \/ Expire(c) \/ Shutdown(c)

-----------------------------------------------------------------------------
(* The receive loop and the cleanup.                                       *)

Loop(c) ==
  /\ pc[c]["recv"] = "loop"
  /\ Goto(c, "recv", IF active[c] THEN "recv" ELSE "cleanup")
  /\ UNCHANGED <<procVars, active, sendMutex, reply, left, file, netVars, age>>

\* wsRecvFrame finds no further message: the client closed or reset the
\* connection, or it was shut down.
Eof(c) ==
  /\ pc[c]["recv"] = "recv" /\ NoMoreInput(c)
  /\ Goto(c, "recv", "cleanup")
  /\ UNCHANGED <<procVars, active, sendMutex, reply, left, file, netVars, age>>

\* One message is taken from the connection and handled by the switch of the
\* receive loop, or by wsRecvFrame itself when it is a control frame.
Receive(c) ==
  /\ pc[c]["recv"] = "recv" /\ in[c] # <<>>
  /\ in' = [in EXCEPT ![c] = Tail(@)]
  /\ LET m == Head(in[c]) IN
     \/ /\ m \in DOMAIN Answer
        /\ reply' = [reply EXCEPT ![c] = Answer[m]]
        /\ Goto(c, "recv", "lock")
        /\ UNCHANGED <<active, left, age>>
     \/ /\ m \in DOMAIN ControlAnswer
        /\ reply' = [reply EXCEPT ![c] = ControlAnswer[m]]
        /\ left' = [left EXCEPT ![c]["recv"] = FrameParts]
        /\ Goto(c, "recv", "send")
        /\ UNCHANGED <<active, age>>
     \/ /\ m \notin DOMAIN Answer \cup DOMAIN ControlAnswer
        /\ reply' = [reply EXCEPT ![c] = "none"]
        /\ active' = [active EXCEPT ![c] = @ /\ m # "DISCONNECT"]
        /\ age' = IF m = "PONG" THEN [age EXCEPT ![c] = 0] ELSE age
        /\ Goto(c, "recv", CASE m = "INVALID" -> "cleanup"
                             [] m = "WSPONG" -> "recv"
                             [] OTHER -> "loop")
        /\ UNCHANGED left
  /\ UNCHANGED <<procVars, sendMutex, file, out, peer, shut, msgs>>

\* After the ERROR for a payload that failed to decode.
Drop(c) ==
  /\ pc[c]["recv"] = "drop"
  /\ active' = [active EXCEPT ![c] = FALSE]
  /\ Goto(c, "recv", "loop")
  /\ UNCHANGED <<procVars, sendMutex, reply, left, file, netVars, age>>

Cleanup(c) ==
  /\ pc[c]["recv"] = "cleanup"
  /\ active' = [active EXCEPT ![c] = FALSE]
  /\ Goto(c, "recv", "close")
  /\ UNCHANGED <<procVars, sendMutex, reply, left, file, netVars, age>>

\* hws_close(clientSock), outside sendMutex.
Close(c) ==
  /\ pc[c]["recv"] = "close"
  /\ fds' = [fds EXCEPT ![clientSock[c]] = NoConn]
  /\ Goto(c, "recv", "join")
  /\ UNCHANGED <<alive, mainPc, mainConn, clientSock, active, sendMutex, reply,
                 left, file, netVars, age>>

\* The four joins; then the handler returns and its locals are gone.
Join(c) ==
  /\ pc[c]["recv"] = "join"
  /\ \A t \in Threads \ {"recv"} : pc[c][t] = "done"
  /\ Goto(c, "recv", "done")
  /\ UNCHANGED <<procVars, active, sendMutex, reply, left, file, netVars, age>>

RecvThread(c) == \/ Loop(c) \/ Eof(c) \/ Receive(c) \/ Drop(c)
                 \/ Cleanup(c) \/ Close(c) \/ Join(c)

-----------------------------------------------------------------------------
Peers(c) == \/ PeerConnect(c) \/ PeerRequest(c) \/ PeerSend(c)
            \/ PeerRead(c) \/ PeerClose(c) \/ PeerReset(c)

Thread(c, t) == Send(c, t) \/ Wake(c, t) \/ Fail(c, t)

Next ==
  /\ alive
  /\ \/ Tick
     \/ \E c \in Conns : \/ Peers(c) \/ Main(c)
                         \/ RecvThread(c) \/ TimeoutThread(c)
                         \/ \E t \in Threads : Thread(c, t)

Spec == Init /\ [][Next]_vars

\* Every thread that can run does run, and time passes.  Nothing is assumed of
\* the clients, only of their kernels: what is sent to a closed socket is
\* answered with a reset.
Fairness ==
  /\ WF_vars(alive /\ Tick)
  /\ \A c \in Conns :
       /\ WF_vars(alive /\ peer[c] = "fin" /\ out[c] # <<>> /\ PeerReset(c))
       /\ WF_vars(alive /\ Main(c))
       /\ WF_vars(alive /\ RecvThread(c))
       /\ WF_vars(alive /\ TimeoutThread(c))
       /\ \A t \in Threads : WF_vars(alive /\ Thread(c, t))

FairSpec == Spec /\ Fairness

-----------------------------------------------------------------------------
(* Properties.                                                             *)

\* Thread t is between the active test of sendFrame and its return.
InFrame(c, t) ==
  pc[c][t] \in SendPCs /\ ~(t = "recv" /\ reply[c] \in ControlKinds)

\* sendFrame is exclusive: of all the threads of a session (three senders and
\* the receive loop's answers) at most one is writing a binary frame.
SendExclusive ==
  \A c \in Conns : \A t, u \in Threads : InFrame(c, t) /\ InFrame(c, u) => t = u

\* Until the handler has closed it, clientSock denotes the handler's own
\* connection: the receive loop never reads another client's stream and
\* hws_close never closes another client's descriptor.
OwnDescriptor ==
  \A c \in Conns : Live(c) /\ pc[c]["recv"] # "join" => fds[clientSock[c]] = c

\* No descriptor is lost: each one in use is that of the handshake main is at, or
\* of a session whose handler has still to close it.  A refused request, a failed
\* response and every way out of the receive loop give theirs back.
NoDescriptorLeak ==
  \A f \in FDs, c \in Conns : fds[f] = c =>
    /\ clientSock[c] = f
    /\ mainConn = c \/ (Live(c) /\ pc[c]["recv"] # "join")

\* In a sequence of frame parts, the part that continues a frame directly follows
\* the part that opened it.
Contiguous(s) ==
  \A i \in 1..Len(s) - 1 :
    ~s[i].last => s[i + 1].by = s[i].by /\ s[i + 1].what = s[i].what

\* In a sequence of frame parts, a session's next binary part after one that leaves
\* its frame unfinished is the one that ends that frame.
Unmixed(s) ==
  \A i, j \in 1..Len(s) :
    /\ i < j /\ ~s[i].last /\ s[j].by = s[i].by
    /\ s[i].what \notin ControlKinds /\ s[j].what \notin ControlKinds
    /\ \A h \in i + 1..j - 1 : s[h].by = s[i].by => s[h].what \in ControlKinds
    => s[j].last /\ s[j].what = s[i].what

\* No two binary frames of a session are mixed on their way to a client, whichever
\* threads send them and however short the kernel's writes are: they all go through
\* sendFrame.
BinaryContiguous == \A c \in Conns : Unmixed(out[c])

\* What a client reads is a sequence of whole frames, control frames included.
FramesContiguous == \A c \in Conns : Contiguous(out[c])

\* A client is only ever sent what its own session wrote.
OnlyOwnFrames ==
  \A c \in Conns : \A i \in 1..Len(out[c]) : out[c][i].by = c

\* The session is over or ending: the flag is down, its loop was left, or the
\* whole process is gone.
Ending(c) ==
  \/ ~alive
  \/ ~active[c]
  \/ pc[c]["recv"] \in {"cleanup", "close", "join", "done"}

Fatal == {"DISCONNECT", "WSCLOSE", "INVALID", "BAD"}

\* How far a connection is in the life SessionLifecycle describes.
Phase(c) ==
  IF peer[c] = "none" THEN "none"
  ELSE IF Live(c) THEN IF Ending(c) THEN "ending" ELSE "active"
  ELSE IF pc[c]["recv"] = "off" /\ (clientSock[c] = INVALID_SOCKET \/ mainConn = c)
       THEN "connecting"
  ELSE "removed"

\* The reasons its session has for ending.
Reason(c) ==
  {r \in {"timeout", "disconnect", "dropped"} :
     CASE r = "dropped" -> peer[c] \in {"fin", "rst"}
       [] r = "timeout" -> age[c] > Timeout \/ pc[c]["timeout"] = "expire"
       [] r = "disconnect" -> \/ in[c] # <<>> /\ Head(in[c]) \in Fatal
                              \/ reply[c] \in {"ERR_DECODE", "WS_CLOSE"}}

\* A session only ends for a reason of its own.
SessionEndsForCause ==
  [][\A c \in Conns : Live(c) /\ ~Ending(c) /\ Ending(c)' => Reason(c) # {}]_vars

Lifecycle == INSTANCE SessionLifecycle
               WITH phase <- [c \in Conns |-> Phase(c)],
                    reason <- [c \in Conns |-> Reason(c)]

\* Every connection goes through the session life the protocol describes.
LifecycleSpec == Lifecycle!Spec

\* A session whose PONG is overdue gives its connection up, unless a PONG comes
\* after all, and whether or not its client reads: timeoutThread's shutdown gets the
\* receive loop out of recv() or of a send(), and the senders out of theirs.
TimeoutCloses ==
  \A c \in Conns : Live(c) /\ age[c] > Timeout
                    ~> age[c] = 0 \/ pc[c]["recv"] \in {"join", "done"}

\* Once the receive loop has been left, the handler closes the socket, joins its
\* threads and returns.
EndingRemoves ==
  \A c \in Conns : pc[c]["recv"] \in {"cleanup", "close", "join"} ~> ~Live(c)

\* The clients read what they are sent as long as they are open.
Readers == \A c \in Conns : WF_vars(alive /\ PeerRead(c))

\* It does so for clients that read: no sender is left with the mutex, none waits
\* for it for ever, and all joins return.
ReadersReleased == Readers => EndingRemoves
=============================================================================
