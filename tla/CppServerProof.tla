---------------------------- MODULE CppServerProof ----------------------------
(***************************************************************************)
(* What CppServer guarantees for any number of connections, descriptors    *)
(* and background senders, and for any bounds.                             *)
(* The session life it implements is at the end.                           *)
(***************************************************************************)
EXTENDS CppServer, TLAPS

USE DEF INVALID_SOCKET, FrameParts

\* Assignments keep the type of what they assign to.
LEMMA Assign ==
  ASSUME NEW S, NEW V, NEW f \in [S -> V], NEW i \in S, NEW v \in V
  PROVE  [f EXCEPT ![i] = v] \in [S -> V]
BY Zenon

LEMMA Assign2 ==
  ASSUME NEW S, NEW T, NEW V, NEW f \in [S -> [T -> V]],
         NEW i \in S, NEW j \in T, NEW v \in V
  PROVE  [f EXCEPT ![i][j] = v] \in [S -> [T -> V]]
BY Zenon

LEMMA Enqueue ==
  ASSUME NEW S, NEW V, NEW f \in [S -> Seq(V)], NEW i, NEW v \in V
  PROVE  [f EXCEPT ![i] = Append(@, v)] \in [S -> Seq(V)]
<1>1. \A j \in S : (IF j = i THEN Append(f[i], v) ELSE f[j]) \in Seq(V)
  OBVIOUS
<1>. QED
  BY <1>1, Zenon

LEMMA Dequeue ==
  ASSUME NEW S, NEW V, NEW f \in [S -> Seq(V)], NEW i \in S, f[i] # <<>>
  PROVE  [f EXCEPT ![i] = Tail(@)] \in [S -> Seq(V)]
OBVIOUS

\* What the receive loop answers with is something, and of the right kind.
LEMMA AnswerFacts ==
  /\ \A m \in DOMAIN Answer : Answer[m] # "none"
  /\ \A m \in DOMAIN ControlAnswer :
       ControlAnswer[m] # "none" /\ ControlAnswer[m] \in ControlKinds
BY DEF Answer, ControlAnswer, ControlKinds

\* The control states of the threads are the ones their kind allows.
PcOK ==
  /\ pc \in [Conns -> [Threads -> AllPCs]]
  /\ \A c \in Conns : \A t \in Threads : pc[c][t] \in PCs(t)

\* A jump moves one thread of one session and no other.
LEMMA GotoEffect ==
  ASSUME PcOK, NEW c \in Conns, NEW t \in Threads, NEW l \in PCs(t),
         Goto(c, t, l)
  PROVE  /\ PcOK'
         /\ \A d \in Conns : \A u \in Threads :
              pc'[d][u] = IF d = c /\ u = t THEN l ELSE pc[d][u]
<1>1. l \in AllPCs
  BY Zenon DEF AllPCs
<1>2. pc' \in [Conns -> [Threads -> AllPCs]]
  BY <1>1, Zenon DEF PcOK, Goto
<1>3. \A d \in Conns : \A u \in Threads :
        pc'[d][u] = IF d = c /\ u = t THEN l ELSE pc[d][u]
  BY Zenon DEF PcOK, Goto
<1>. QED
  BY <1>2, <1>3, Zenon DEF PcOK

\* The threads of a session, and the control states each kind has.
LEMMA ThreadFacts ==
  /\ "recv" \in Threads /\ "timeout" \in Threads
  /\ Tasks \subseteq Threads
  /\ \A t \in Threads : t \in Tasks \/ t = "recv" \/ t = "timeout"
  /\ "recv" \notin Tasks /\ "timeout" \notin Tasks
BY TaskAssumption, Zenon DEF Threads, AllTasks

LEMMA PcFacts ==
  /\ PCs("recv") = {"off", "done", "send", "insend", "partial", "loop", "recv",
                    "lock", "drop", "cleanup", "close", "join"}
  /\ PCs("timeout") = {"off", "done", "sleep", "expire", "shut"}
  /\ \A t \in Tasks : PCs(t) = {"off", "done", "send", "insend", "partial",
                                "sleep", "lock", "fail"}
BY ThreadFacts, Zenon DEF PCs, SendPCs

\* A session that has started, or whose handshake main is performing, was given
\* a descriptor; its threads start together, and not before the handshake ends.
Started ==
  /\ mainPc = "accept" <=> mainConn = NoConn
  /\ \A c \in Conns :
       /\ mainConn = c => pc[c]["recv"] = "off"
       /\ mainConn = c \/ pc[c]["recv"] # "off" => clientSock[c] \in FDs
       /\ \A t \in Threads : pc[c][t] = "off" <=> pc[c]["recv"] = "off"

\* While the receive thread is sending, it has something to send.
Answering ==
  \A c \in Conns : pc[c]["recv"] \in SendPCs \cup {"lock"} => reply[c] # "none"

\* What SendReturns does to the variables of the session.
LEMMA SendReturnsType ==
  ASSUME TypeOK, NEW c \in Conns, NEW t \in Threads, NEW ok \in BOOLEAN,
         pc[c][t] \in SendPCs \cup {"lock"},
         SendReturns(c, t, ok)
  PROVE  /\ AfterSend(c, t, ok) \in PCs(t)
         /\ PcOK'
         /\ sendMutex' \in [Conns -> Threads \cup {"free"}]
         /\ left' \in [Conns -> [Threads -> 0..FrameParts]]
         /\ file' \in [Conns -> [Threads -> Conns \cup {NoConn}]]
<1>1. PcOK
  BY Zenon DEF TypeOK, PcOK
<1>2. t # "timeout"
  BY <1>1, PcFacts, Zenon DEF PcOK, SendPCs
<1>3. AfterSend(c, t, ok) \in PCs(t)
  BY <1>2, ThreadFacts, PcFacts, Zenon DEF AfterSend
<1>4. PcOK'
  BY <1>1, <1>3, GotoEffect, Zenon DEF SendReturns
<1>5. sendMutex' \in [Conns -> Threads \cup {"free"}]
  BY Zenon DEF SendReturns, TypeOK
<1>6. left' \in [Conns -> [Threads -> 0..FrameParts]]
  BY DEF SendReturns, TypeOK
<1>7. file' \in [Conns -> [Threads -> Conns \cup {NoConn}]]
  BY Zenon DEF SendReturns, TypeOK
<1>. QED
  BY <1>3, <1>4, <1>5, <1>6, <1>7, Zenon

\* TypeOK is kept by every step (the two other invariants say which sends and
\* answers can be under way).
LEMMA TypeStep ==
  ASSUME TypeOK, Started, Answering, [Next]_vars
  PROVE  TypeOK'
<1>. USE DEF procVars, sessVars, netVars
<1>pc. PcOK
  BY Zenon DEF TypeOK, PcOK
<1>1. CASE Tick
  <2>1. age' \in [Conns -> 0..Timeout + 1]
    <3>1. \A c \in Conns : (IF Live(c) /\ age[c] <= Timeout THEN age[c] + 1
                                                           ELSE age[c])
                            \in 0..Timeout + 1
      <4>1. \A c \in Conns : age[c] \in 0..Timeout + 1
        BY Zenon DEF TypeOK
      <4>2. \A i \in 0..Timeout + 1 : i <= Timeout => i + 1 \in 0..Timeout + 1
        BY BoundAssumption
      <4>. QED
        BY <4>1, <4>2, Zenon
    <3>. QED
      BY <1>1, <3>1, Zenon DEF Tick
  <2>. QED
    BY <1>1, <2>1, Zenon DEF TypeOK, Tick
<1>2. ASSUME NEW c \in Conns, Peers(c)
      PROVE  TypeOK'
  <2>1. CASE PeerConnect(c) \/ PeerClose(c) \/ PeerReset(c)
    BY <2>1, Zenon DEF TypeOK, PeerConnect, PeerClose, PeerReset
  <2>2. CASE PeerRequest(c)
    <3>1. in' \in [Conns -> Seq(Received)]
      BY <2>2 DEF TypeOK, PeerRequest, Received
    <3>2. msgs' \in [Conns -> 0..MaxMsgs + 1]
      BY <2>2, BoundAssumption DEF TypeOK, PeerRequest
    <3>. QED
      BY <2>2, <3>1, <3>2, Zenon DEF TypeOK, PeerRequest
  <2>3. CASE PeerSend(c)
    <3>1. in' \in [Conns -> Seq(Received)]
      BY <2>3 DEF TypeOK, PeerSend, Received
    <3>2. msgs' \in [Conns -> 0..MaxMsgs + 1]
      <4>1. /\ msgs \in [Conns -> 0..MaxMsgs + 1] /\ msgs[c] <= MaxMsgs
            /\ msgs' = [msgs EXCEPT ![c] = msgs[c] + 1]
        BY <2>3, Zenon DEF TypeOK, PeerSend
      <4>2. msgs[c] + 1 \in 0..MaxMsgs + 1
        BY <4>1, BoundAssumption
      <4>. QED
        BY <4>1, <4>2, Zenon
    <3>. QED
      BY <2>3, <3>1, <3>2, Zenon DEF TypeOK, PeerSend
  <2>4. CASE PeerRead(c)
    <3>1. out' \in [Conns -> Seq(Parts)]
      BY <2>4 DEF TypeOK, PeerRead
    <3>. QED
      BY <2>4, <3>1, Zenon DEF TypeOK, PeerRead
  <2>. QED
    BY <1>2, <2>1, <2>2, <2>3, <2>4, Zenon DEF Peers
<1>3. ASSUME NEW c \in Conns, Main(c)
      PROVE  TypeOK'
  <2>1. CASE Accept(c)
    BY <2>1 DEF TypeOK, Accept
  <2>2. CASE ReadRequest(c)
    <3>1. in' \in [Conns -> Seq(Received)]
      <4>1. \/ in[c] # <<>> /\ in' = [in EXCEPT ![c] = Tail(@)]
            \/ in' = in
        BY <2>2, Zenon DEF ReadRequest
      <4>2. in \in [Conns -> Seq(Received)]
        BY Zenon DEF TypeOK
      <4>3. CASE in[c] # <<>> /\ in' = [in EXCEPT ![c] = Tail(@)]
        BY <4>2, <4>3, Dequeue, Zenon
      <4>. QED
        BY <4>1, <4>2, <4>3, Zenon
    <3>2. fds' \in [FDs -> Conns \cup {NoConn}]
      BY <2>2, Zenon DEF TypeOK, ReadRequest, CloseRefused
    <3>3. /\ mainPc' \in {"accept", "headers", "respond"}
          /\ mainConn' \in Conns \cup {NoConn}
          /\ UNCHANGED <<alive, clientSock, sessVars, out, peer, shut, msgs, age>>
      BY <2>2, Zenon DEF TypeOK, ReadRequest, CloseRefused
    <3>. QED
      BY <3>1, <3>2, <3>3, Zenon DEF TypeOK
  <2>3. CASE Respond(c)
    <3>1. CASE Broken(c) /\ CloseRefused(c) /\ UNCHANGED in
      BY <3>1, Zenon DEF TypeOK, CloseRefused
    <3>2. CASE ~Broken(c)
      <4>1. /\ out' = [out EXCEPT ![c] =
                         Append(@, [by |-> c, what |-> "HTTP_101", last |-> TRUE])]
            /\ mainPc' = "accept" /\ mainConn' = NoConn
            /\ active' = [active EXCEPT ![c] = TRUE]
            /\ pc' = [pc EXCEPT ![c] = [t \in Threads |-> IF t = "recv" THEN "loop"
                                                                       ELSE "sleep"]]
            /\ age' = [age EXCEPT ![c] = 0]
            /\ UNCHANGED <<alive, fds, clientSock, sendMutex, reply, left, file, in,
                           peer, shut, msgs>>
        BY <2>3, <3>2, Zenon DEF Respond
      <4>2. PcOK'
        <5>1. \A t \in Threads :
                (IF t = "recv" THEN "loop" ELSE "sleep") \in PCs(t)
          BY ThreadFacts, PcFacts, Zenon
        <5>2. [t \in Threads |-> IF t = "recv" THEN "loop" ELSE "sleep"]
                \in [Threads -> AllPCs]
          BY <5>1, Zenon DEF AllPCs
        <5>3. pc' \in [Conns -> [Threads -> AllPCs]]
          BY <1>pc, <4>1, <5>2, Assign, Zenon DEF PcOK
        <5>4. \A d \in Conns : \A t \in Threads :
                pc'[d][t] = IF d # c THEN pc[d][t]
                            ELSE IF t = "recv" THEN "loop" ELSE "sleep"
          BY <1>pc, <4>1, Zenon DEF PcOK
        <5>. QED
          BY <1>pc, <5>1, <5>3, <5>4, Zenon DEF PcOK
      <4>3. out' \in [Conns -> Seq(Parts)]
        <5>1. [by |-> c, what |-> "HTTP_101", last |-> TRUE] \in Parts
          BY Zenon DEF Parts
        <5>. QED
          BY <4>1, <5>1, Enqueue DEF TypeOK
      <4>4. active' \in [Conns -> BOOLEAN] /\ age' \in [Conns -> 0..Timeout + 1]
        <5>1. 0 \in 0..Timeout + 1
          BY BoundAssumption
        <5>. QED
          BY <4>1, <5>1, Assign, Zenon DEF TypeOK
      <4>. QED
        BY <4>1, <4>2, <4>3, <4>4, Zenon DEF TypeOK, PcOK
    <3>3. CASE /\ alive' = FALSE
               /\ UNCHANGED <<fds, mainPc, mainConn, clientSock, sessVars, netVars, age>>
      BY <3>3, Zenon DEF TypeOK
    <3>. QED
      BY <2>3, <3>1, <3>2, <3>3, Zenon DEF Respond
  <2>. QED
    BY <1>3, <2>1, <2>2, <2>3, Zenon DEF Main
<1>4. ASSUME NEW c \in Conns, RecvThread(c)
      PROVE  TypeOK'
  <2>0. "recv" \in Threads
    BY ThreadFacts, Zenon
  <2>1. CASE Loop(c)
    <3>1. PcOK'
      BY <1>pc, <2>0, <2>1, PcFacts, GotoEffect, Zenon DEF Loop
    <3>. QED
      BY <2>1, <3>1, Zenon DEF Loop, TypeOK, PcOK
  <2>2. CASE Eof(c)
    <3>1. PcOK'
      BY <1>pc, <2>0, <2>2, PcFacts, GotoEffect, Zenon DEF Eof
    <3>. QED
      BY <2>2, <3>1, Zenon DEF Eof, TypeOK, PcOK
  <2>3. CASE Receive(c)
    <3>. DEFINE m == Head(in[c])
    <3>1. /\ in' \in [Conns -> Seq(Received)]
          /\ UNCHANGED <<procVars, sendMutex, file, out, peer, shut, msgs>>
      BY <2>3 DEF Receive, TypeOK
    <3>2. CASE m \in DOMAIN Answer
      <4>1. Answer[m] \in AnswerKinds
        BY <3>2, Zenon DEF AnswerKinds
      <4>2. PcOK' /\ reply' = [reply EXCEPT ![c] = Answer[m]] /\ UNCHANGED <<active, left, age>>
        BY <1>pc, <2>0, <2>3, <3>2, PcFacts, GotoEffect, Zenon DEF Receive, Answer, ControlAnswer
      <4>. QED
        BY <3>1, <4>1, <4>2, Zenon DEF TypeOK, PcOK
    <3>3. CASE m \in DOMAIN ControlAnswer
      <4>1. ControlAnswer[m] \in ControlKinds
        BY <3>3, Zenon DEF ControlKinds
      <4>2. /\ PcOK' /\ reply' = [reply EXCEPT ![c] = ControlAnswer[m]]
            /\ left' = [left EXCEPT ![c]["recv"] = FrameParts]
            /\ UNCHANGED <<active, age>>
        BY <1>pc, <2>0, <2>3, <3>3, PcFacts, GotoEffect, Zenon DEF Receive, Answer, ControlAnswer
      <4>3. left' \in [Conns -> [Threads -> 0..FrameParts]]
        BY <2>0, <4>2, Assign2 DEF TypeOK
      <4>. QED
        BY <3>1, <4>1, <4>2, <4>3, Zenon DEF TypeOK, PcOK
    <3>4. CASE m \notin DOMAIN Answer \cup DOMAIN ControlAnswer
      <4>1. /\ PcOK' /\ reply' = [reply EXCEPT ![c] = "none"]
            /\ active' = [active EXCEPT ![c] = @ /\ m # "DISCONNECT"]
            /\ age' = IF m = "PONG" THEN [age EXCEPT ![c] = 0] ELSE age
            /\ UNCHANGED left
        BY <1>pc, <2>0, <2>3, <3>4, PcFacts, GotoEffect, Zenon DEF Receive
      <4>2. active' \in [Conns -> BOOLEAN] /\ age' \in [Conns -> 0..Timeout + 1]
        BY <4>1, BoundAssumption DEF TypeOK
      <4>. QED
        BY <3>1, <4>1, <4>2, Zenon DEF TypeOK, PcOK
    <3>. QED
      BY <3>2, <3>3, <3>4, Zenon
  <2>4. CASE Drop(c)
    <3>1. PcOK'
      BY <1>pc, <2>0, <2>4, PcFacts, GotoEffect, Zenon DEF Drop
    <3>. QED
      BY <2>4, <3>1, Zenon DEF Drop, TypeOK, PcOK
  <2>5. CASE Cleanup(c)
    <3>1. PcOK'
      BY <1>pc, <2>0, <2>5, PcFacts, GotoEffect, Zenon DEF Cleanup
    <3>. QED
      BY <2>5, <3>1, Zenon DEF Cleanup, TypeOK, PcOK
  <2>6. CASE Close(c)
    <3>1. PcOK'
      BY <1>pc, <2>0, <2>6, PcFacts, GotoEffect, Zenon DEF Close
    <3>. QED
      BY <2>6, <3>1, Zenon DEF Close, TypeOK, PcOK
  <2>7. CASE Join(c)
    <3>1. PcOK'
      BY <1>pc, <2>0, <2>7, PcFacts, GotoEffect, Zenon DEF Join
    <3>. QED
      BY <2>7, <3>1, Zenon DEF Join, TypeOK, PcOK
  <2>. QED
    BY <1>4, <2>1, <2>2, <2>3, <2>4, <2>5, <2>6, <2>7, Zenon DEF RecvThread
<1>5. ASSUME NEW c \in Conns, TimeoutThread(c)
      PROVE  TypeOK'
  <2>0. "timeout" \in Threads
    BY ThreadFacts, Zenon
  <2>1. CASE CheckTimeout(c)
    <3>1. PcOK'
      BY <1>pc, <2>0, <2>1, PcFacts, GotoEffect, Zenon DEF CheckTimeout
    <3>. QED
      BY <2>1, <3>1, Zenon DEF CheckTimeout, TypeOK, PcOK
  <2>2. CASE Expire(c)
    <3>1. PcOK'
      BY <1>pc, <2>0, <2>2, PcFacts, GotoEffect, Zenon DEF Expire
    <3>. QED
      BY <2>2, <3>1, Zenon DEF Expire, TypeOK, PcOK
  <2>3. CASE Shutdown(c)
    <3>1. PcOK'
      BY <1>pc, <2>0, <2>3, PcFacts, GotoEffect, Zenon DEF Shutdown
    <3>. QED
      BY <2>3, <3>1, Zenon DEF Shutdown, TypeOK, PcOK
  <2>. QED
    BY <1>5, <2>1, <2>2, <2>3, Zenon DEF TimeoutThread
<1>6. ASSUME NEW c \in Conns, NEW t \in Threads, Thread(c, t)
      PROVE  TypeOK'
  <2>1. CASE LockAndTest(c, t)
    <3>1. t # "timeout"
      BY <1>pc, <2>1, PcFacts, Zenon DEF PcOK, LockAndTest
    <3>2. CASE active[c]
      <4>1. PcOK'
        BY <1>pc, <2>1, <3>1, <3>2, ThreadFacts, PcFacts, GotoEffect, Zenon DEF LockAndTest
      <4>2. /\ sendMutex' = [sendMutex EXCEPT ![c] = t]
            /\ left' = [left EXCEPT ![c][t] = FrameParts]
            /\ UNCHANGED <<procVars, active, reply, file, netVars, age>>
        BY <2>1, <3>2, Zenon DEF LockAndTest
      <4>3. left' \in [Conns -> [Threads -> 0..FrameParts]]
        BY <4>2, Assign2 DEF TypeOK
      <4>4. sendMutex' \in [Conns -> Threads \cup {"free"}]
        BY <4>2, Assign, Zenon DEF TypeOK
      <4>. QED
        BY <4>1, <4>2, <4>3, <4>4, Zenon DEF TypeOK, PcOK
    <3>3. CASE ~active[c]
      BY <2>1, <3>3, SendReturnsType, Zenon DEF LockAndTest, TypeOK, PcOK
    <3>. QED
      BY <3>2, <3>3, Zenon
  <2>2. CASE CallSend(c, t)
    <3>. DEFINE k == fds[clientSock[c]]
    <3>1. t # "timeout" /\ pc[c][t] # "off" /\ pc[c][t] \in SendPCs
      BY <1>pc, <2>2, PcFacts, Zenon DEF PcOK, CallSend, SendPCs
    <3>2. k \in Conns \cup {NoConn}
      BY <3>1, ThreadFacts, Zenon DEF Started, TypeOK
    <3>3. CASE k = NoConn
      BY <2>2, <3>1, <3>3, SendReturnsType, Zenon DEF CallSend, TypeOK, PcOK
    <3>4. CASE k # NoConn
      <4>1. PcOK'
        BY <1>pc, <2>2, <3>1, <3>4, ThreadFacts, PcFacts, GotoEffect, Zenon DEF CallSend
      <4>2. file' \in [Conns -> [Threads -> Conns \cup {NoConn}]]
        <5>1. file' = [file EXCEPT ![c][t] = k]
          BY <2>2, <3>4, Zenon DEF CallSend
        <5>. QED
          BY <3>2, <5>1, Assign2 DEF TypeOK
      <4>. QED
        BY <2>2, <3>4, <4>1, <4>2, Zenon DEF CallSend, TypeOK, PcOK
    <3>. QED
      BY <3>3, <3>4, Zenon
  <2>3. CASE CopyPart(c, t)
    <3>. DEFINE k == file[c][t]
                part == [by |-> c, what |-> IF t = "recv" THEN reply[c] ELSE t,
                         last |-> left[c][t] = 1]
    <3>1. t # "timeout" /\ pc[c][t] \in SendPCs
      BY <1>pc, <2>3, PcFacts, Zenon DEF PcOK, CopyPart, SendPCs
    <3>2. part \in Parts
      BY <3>1, ThreadFacts, Zenon DEF Answering, TypeOK, Parts
    <3>3. out' \in [Conns -> Seq(Parts)]
      <4>1. out' = [out EXCEPT ![k] = Append(@, part)]
        BY <2>3, Zenon DEF CopyPart
      <4>. HIDE DEF part
      <4>. QED
        BY <3>2, <4>1, Enqueue, Zenon DEF TypeOK
    <3>00. \/ left[c][t] = 1 /\ SendReturns(c, t, TRUE)
           \/ /\ left[c][t] > 1
              /\ left' = [left EXCEPT ![c][t] = left[c][t] - 1]
              /\ Goto(c, t, "partial")
              /\ UNCHANGED <<sendMutex, file>>
      BY <2>3, Zenon DEF CopyPart
    <3>0. UNCHANGED <<procVars, active, reply, in, peer, shut, msgs, age>>
      BY <2>3, Zenon DEF CopyPart
    <3>4. CASE left[c][t] = 1
      <4>1. SendReturns(c, t, TRUE)
        <5>1. ~(left[c][t] > 1)
          BY <3>4
        <5>. QED
          BY <3>00, <5>1, Zenon
      <4>. QED
        BY <3>0, <3>1, <3>3, <4>1, SendReturnsType, Zenon DEF TypeOK, PcOK
    <3>5. CASE left[c][t] > 1
      <4>0. /\ left' = [left EXCEPT ![c][t] = left[c][t] - 1]
            /\ Goto(c, t, "partial")
            /\ UNCHANGED <<sendMutex, file>>
        <5>1. left[c][t] # 1
          BY <3>5
        <5>. QED
          BY <3>00, <5>1, Zenon
      <4>1. PcOK'
        BY <1>pc, <3>1, <4>0, ThreadFacts, PcFacts, GotoEffect, Zenon
      <4>2. left' \in [Conns -> [Threads -> 0..FrameParts]]
        <5>1. left[c][t] - 1 \in 0..FrameParts
          BY <3>5 DEF TypeOK
        <5>. QED
          BY <4>0, <5>1, Assign2, Zenon DEF TypeOK
      <4>. QED
        BY <3>0, <3>3, <4>0, <4>1, <4>2, Zenon DEF TypeOK, PcOK
    <3>. QED
      BY <2>3, <3>4, <3>5, Zenon DEF CopyPart
  <2>4. CASE SendError(c, t)
    <3>1. t # "timeout" /\ pc[c][t] \in SendPCs
      BY <1>pc, <2>4, PcFacts, Zenon DEF PcOK, SendError, SendPCs
    <3>2. CASE pc[c][t] = "partial"
      <4>1. PcOK'
        BY <1>pc, <2>4, <3>1, <3>2, ThreadFacts, PcFacts, GotoEffect, Zenon DEF SendError
      <4>2. file' \in [Conns -> [Threads -> Conns \cup {NoConn}]]
        <5>1. file' = [file EXCEPT ![c][t] = NoConn]
          BY <2>4, <3>2, Zenon DEF SendError
        <5>. QED
          BY <5>1, Assign2 DEF TypeOK
      <4>. QED
        BY <2>4, <3>2, <4>1, <4>2, Zenon DEF SendError, TypeOK, PcOK
    <3>3. CASE SendReturns(c, t, FALSE) /\ UNCHANGED alive
      BY <2>4, <3>1, <3>3, SendReturnsType, Zenon DEF SendError, TypeOK, PcOK
    <3>4. CASE alive' = FALSE /\ UNCHANGED <<sendMutex, pc, left, file>>
      BY <2>4, <3>4, Zenon DEF SendError, TypeOK
    <3>. QED
      BY <2>4, <3>2, <3>3, <3>4, Zenon DEF SendError
  <2>5. CASE Wake(c, t)
    <3>1. PcOK'
      BY <1>pc, <2>5, ThreadFacts, PcFacts, GotoEffect, Zenon DEF Wake
    <3>. QED
      BY <2>5, <3>1, Zenon DEF Wake, TypeOK, PcOK
  <2>6. CASE Fail(c, t)
    <3>1. PcOK'
      BY <1>pc, <2>6, ThreadFacts, PcFacts, GotoEffect DEF Fail, PcOK
    <3>. QED
      BY <2>6, <3>1, Zenon DEF Fail, TypeOK, PcOK
  <2>. QED
    BY <1>6, <2>1, <2>2, <2>3, <2>4, <2>5, <2>6, Zenon DEF Thread, Send
<1>7. CASE UNCHANGED vars
  BY <1>7, Zenon DEF TypeOK, vars
<1>. QED
  BY <1>1, <1>2, <1>3, <1>4, <1>5, <1>6, <1>7, Zenon DEF Next
-----------------------------------------------------------------------------
\* A thread that is writing a binary frame holds the session's mutex.
MutexHeld ==
  \A c \in Conns : \A t \in Threads : InFrame(c, t) => sendMutex[c] = t

\* handleClient has returned only when all the threads that refer to its locals
\* have ended.
JoinBeforeReturn ==
  \A c \in Conns : pc[c]["recv"] = "done" => \A t \in Threads : pc[c][t] = "done"

\* The connections whose descriptor is open: main's, and those of the handlers
\* that have not reached their joins.
Owner(c) == mainConn = c \/ (Live(c) /\ pc[c]["recv"] # "join")

\* A connection has a descriptor exactly as long as it has an owner, and only one.
Descriptors ==
  /\ \A f \in FDs : \A c \in Conns : fds[f] = c => clientSock[c] = f /\ Owner(c)
  /\ \A c \in Conns : Owner(c) => fds[clientSock[c]] = c

\* The inductive invariant.
Inv == /\ TypeOK /\ Started /\ Answering
       /\ MutexHeld /\ JoinBeforeReturn /\ Descriptors

\* Closing the descriptor of a session leaves the others theirs.
LEMMA CloseKeeps ==
  ASSUME Descriptors, NEW c \in Conns, clientSock' = clientSock,
         fds[clientSock[c]] = c,
         \A g \in FDs : fds'[g] = IF g = clientSock[c] THEN NoConn ELSE fds[g],
         \A d \in Conns : Owner(d)' <=> d # c /\ Owner(d),
         \A d \in Conns : Owner(d) => clientSock[d] \in FDs
  PROVE  Descriptors'
<1>1. \A g \in FDs : \A d \in Conns : fds'[g] = d => fds[g] = d /\ g # clientSock[c]
  BY ConnAssumption, Zenon
<1>2. ASSUME NEW d \in Conns, Owner(d)' PROVE fds'[clientSock[d]] = d
  <2>1. d # c /\ clientSock[d] \in FDs /\ fds[clientSock[d]] = d
    BY <1>2, Zenon DEF Descriptors
  <2>2. clientSock[d] # clientSock[c]
    BY <2>1, Zenon
  <2>. QED
    BY <2>1, <2>2, Zenon
<1>3. ASSUME NEW g \in FDs, NEW d \in Conns, fds'[g] = d
      PROVE  clientSock'[d] = g /\ Owner(d)'
  <2>1. fds[g] = d /\ g # clientSock[c] /\ clientSock[d] = g /\ Owner(d)
    BY <1>1, <1>3, Zenon DEF Descriptors
  <2>. QED
    BY <2>1, Zenon
<1>4. \A d \in Conns : Owner(d)' => fds'[clientSock'[d]] = d
  BY <1>2, Zenon
<1>. QED
  BY <1>3, <1>4, Zenon DEF Descriptors

\* What TypeOK leaves of the invariant.
Rest == Started /\ Answering /\ MutexHeld /\ JoinBeforeReturn /\ Descriptors

\* Thread t of session c moves on to l without touching the descriptors, another
\* thread's hold of the mutex or another's reply; it sends only with the mutex,
\* or to answer a control frame, and the receive loop is the last to be done.
MayMove(c, t, l) ==
  /\ l \in PCs(t) /\ Goto(c, t, l)
  /\ UNCHANGED <<fds, mainPc, mainConn, clientSock>>
  /\ \A d \in Conns : \A u \in Threads :
       ~(d = c /\ u = t) /\ sendMutex[d] = u => sendMutex'[d] = u
  /\ \A d \in Conns : ~(d = c /\ t = "recv") => reply'[d] = reply[d]
  /\ pc[c][t] \notin {"off", "done"} /\ l # "off"
  /\ t = "recv" /\ l \in SendPCs \cup {"lock"} => reply'[c] # "none"
  /\ l \in SendPCs /\ ~(t = "recv" /\ reply'[c] \in ControlKinds)
       => sendMutex'[c] = t
  /\ t = "recv" => (pc[c][t] = "join" <=> l \in {"join", "done"})
  /\ t = "recv" /\ l = "done" => \A u \in Threads \ {"recv"} : pc[c][u] = "done"

\* Such a step keeps the rest of the invariant.
LEMMA Move ==
  ASSUME Inv, NEW c \in Conns, NEW t \in Threads, NEW l, MayMove(c, t, l)
  PROVE  Rest'
<1>1. PcOK
  BY Zenon DEF Inv, TypeOK, PcOK
<1>2. \A d \in Conns : \A u \in Threads :
        pc'[d][u] = IF d = c /\ u = t THEN l ELSE pc[d][u]
  <2>1. l \in PCs(t) /\ Goto(c, t, l)
    BY Zenon DEF MayMove
  <2>. QED
    BY <1>1, <2>1, GotoEffect
<1>3. Started'
  <2>1. /\ Started /\ "recv" \in Threads
        /\ UNCHANGED <<mainPc, mainConn, clientSock>>
        /\ pc[c][t] # "off" /\ l # "off"
    BY ThreadFacts, Zenon DEF Inv, MayMove
  <2>2. \A d \in Conns : \A u \in Threads : pc'[d][u] = "off" <=> pc[d][u] = "off"
    BY <1>2, <2>1, Zenon
  <2>. QED
    BY <2>1, <2>2, Zenon DEF Started
<1>4. Answering'
  <2>1. Answering /\ "recv" \in Threads
    BY ThreadFacts, Zenon DEF Inv
  <2>2. ASSUME NEW d \in Conns, pc'[d]["recv"] \in SendPCs \cup {"lock"}
        PROVE  reply'[d] # "none"
    <3>1. CASE d = c /\ t = "recv"
      <4>1. pc'[d]["recv"] = l
        BY <1>2, <2>1, <3>1, Zenon
      <4>. QED
        BY <2>2, <3>1, <4>1, Zenon DEF MayMove
    <3>2. CASE ~(d = c /\ t = "recv")
      <4>1. pc'[d]["recv"] = pc[d]["recv"]
        BY <1>2, <2>1, <3>2, Zenon
      <4>2. reply'[d] = reply[d]
        BY <3>2, Zenon DEF MayMove
      <4>. QED
        BY <2>1, <2>2, <4>1, <4>2, Zenon DEF Answering
    <3>. QED
      BY <3>1, <3>2, Zenon
  <2>. QED
    BY <2>2, Zenon DEF Answering
<1>5. MutexHeld'
  <2>1. ASSUME NEW d \in Conns, NEW u \in Threads, InFrame(d, u)'
        PROVE  sendMutex'[d] = u
    <3>1. CASE d = c /\ u = t
      <4>1. pc'[d][u] = l
        BY <1>2, <3>1, Zenon
      <4>. QED
        BY <2>1, <3>1, <4>1, Zenon DEF InFrame, MayMove
    <3>2. CASE ~(d = c /\ u = t)
      <4>1. pc'[d][u] = pc[d][u]
        BY <1>2, <3>2, Zenon
      <4>2. u = "recv" => reply'[d] = reply[d]
        BY <3>2, Zenon DEF MayMove
      <4>3. sendMutex[d] = u
        BY <2>1, <4>1, <4>2, Zenon DEF Inv, MutexHeld, InFrame
      <4>. QED
        BY <3>2, <4>3, Zenon DEF MayMove
    <3>. QED
      BY <3>1, <3>2, Zenon
  <2>. QED
    BY <2>1, Zenon DEF MutexHeld
<1>6. JoinBeforeReturn'
  <2>1. JoinBeforeReturn /\ "recv" \in Threads
    BY ThreadFacts, Zenon DEF Inv
  <2>2. ASSUME NEW d \in Conns, pc'[d]["recv"] = "done", NEW u \in Threads
        PROVE  pc'[d][u] = "done"
    <3>1. CASE d = c /\ t = "recv"
      <4>1. l = "done"
        BY <1>2, <2>1, <2>2, <3>1, Zenon
      <4>2. u # "recv" => pc[c][u] = "done"
        BY <3>1, <4>1, Zenon DEF MayMove
      <4>. QED
        BY <1>2, <3>1, <4>1, <4>2, Zenon
    <3>2. CASE ~(d = c /\ t = "recv")
      <4>1. pc[d]["recv"] = "done"
        BY <1>2, <2>1, <2>2, <3>2, Zenon
      <4>2. \A v \in Threads : pc[d][v] = "done"
        BY <2>1, <4>1, Zenon DEF JoinBeforeReturn
      <4>3. d # c
        BY <4>2, Zenon DEF MayMove
      <4>. QED
        BY <1>2, <4>2, <4>3, Zenon
    <3>. QED
      BY <3>1, <3>2, Zenon
  <2>. QED
    BY <2>2, Zenon DEF JoinBeforeReturn
<1>7. Descriptors'
  <2>1. ASSUME NEW d \in Conns PROVE Owner(d)' <=> Owner(d)
    <3>1. /\ mainConn' = mainConn /\ pc[c][t] \notin {"off", "done"} /\ l # "off"
          /\ t = "recv" => (pc[c][t] = "join" <=> l \in {"join", "done"})
      BY Zenon DEF MayMove
    <3>2. pc'[d]["recv"] = IF d = c /\ t = "recv" THEN l ELSE pc[d]["recv"]
      BY <1>2, ThreadFacts, Zenon
    <3>. QED
      BY <2>1, <3>1, <3>2, Zenon DEF Owner, Live
  <2>. QED
    BY <2>1, Zenon DEF Inv, Descriptors, MayMove
<1>. QED
  BY <1>3, <1>4, <1>5, <1>6, <1>7, Zenon DEF Rest

\* What is left of the invariant is kept by every step.
LEMMA RestStep ==
  ASSUME Inv, [Next]_vars
  PROVE  Rest'
<1>. USE DEF procVars, sessVars, netVars
<1>pc. PcOK
  BY Zenon DEF Inv, TypeOK, PcOK
<1>ty. TypeOK
  BY Zenon DEF Inv
<1>0. CASE UNCHANGED <<fds, mainPc, mainConn, clientSock, sendMutex, pc, reply>>
  <2>1. Started' /\ Answering' /\ JoinBeforeReturn'
    BY <1>0, Zenon DEF Inv, Started, Answering, JoinBeforeReturn
  <2>2. MutexHeld'
    BY <1>0, Zenon DEF Inv, MutexHeld, InFrame
  <2>3. Descriptors'
    BY <1>0, Zenon DEF Inv, Descriptors, Owner, Live
  <2> QED
    BY <2>1, <2>2, <2>3, Zenon DEF Rest
<1>1. CASE Tick
  BY <1>0, <1>1, Zenon DEF Tick
<1>2. ASSUME NEW c \in Conns, Peers(c)
      PROVE  Rest'
  BY <1>0, <1>2, Zenon DEF Peers, PeerConnect, PeerRequest, PeerSend, PeerRead,
                    PeerClose, PeerReset
<1>3. ASSUME NEW c \in Conns, Main(c)
      PROVE  Rest'
  <2>1. CASE Accept(c)
    <3>1. PICK f \in FDs : /\ fds[f] = NoConn
                           /\ fds' = [fds EXCEPT ![f] = c]
                           /\ clientSock' = [clientSock EXCEPT ![c] = f]
      BY <2>1, Zenon DEF Accept, Lowest
    <3>2. /\ mainPc = "accept" /\ clientSock[c] = INVALID_SOCKET
          /\ mainPc' = "headers" /\ mainConn' = c
          /\ UNCHANGED <<sendMutex, pc, reply>>
      BY <2>1, Zenon DEF Accept
    <3>3. clientSock[c] \notin FDs
      BY <3>2, FDAssumption
    <3>4. pc[c]["recv"] = "off" /\ \A g \in FDs : fds[g] # c
      BY <3>3 DEF Inv, Started, Descriptors
    <3>5. /\ \A g \in FDs : fds'[g] = IF g = f THEN c ELSE fds[g]
          /\ \A d \in Conns : clientSock'[d] = IF d = c THEN f ELSE clientSock[d]
      BY <3>1, Zenon DEF Inv, TypeOK
    <3>6. Started'
      BY <3>2, <3>4, <3>5, ConnAssumption, Zenon DEF Inv, Started
    <3>7. Answering' /\ MutexHeld' /\ JoinBeforeReturn'
      BY <3>2, Zenon DEF Inv, Answering, MutexHeld, InFrame, JoinBeforeReturn
    <3>8. \A d \in Conns : Owner(d)' <=> d = c \/ Owner(d)
      BY <3>2, ConnAssumption, Zenon DEF Owner, Live, Inv, Started
    <3>9. \A d \in Conns : Owner(d) => clientSock[d] \in FDs /\ clientSock[d] # f
      BY <3>1, ConnAssumption DEF Inv, Started, Descriptors, Owner, Live
    <3>10. Descriptors'
      BY <3>1, <3>4, <3>5, <3>8, <3>9, ConnAssumption DEF Inv, Descriptors
    <3>. QED
      BY <3>6, <3>7, <3>10, Zenon DEF Rest
  <2>2. ASSUME mainPc # "accept", mainConn = c, CloseRefused(c)
        PROVE  Rest'
    <3>1. /\ fds' = [fds EXCEPT ![clientSock[c]] = NoConn]
          /\ mainPc' = "accept" /\ mainConn' = NoConn
          /\ UNCHANGED <<clientSock, sendMutex, pc, reply>>
      BY <2>2, Zenon DEF CloseRefused
    <3>2. clientSock[c] \in FDs /\ fds[clientSock[c]] = c
      BY <2>2, Zenon DEF Inv, Started, Descriptors, Owner
    <3>3. \A g \in FDs : fds'[g] = IF g = clientSock[c] THEN NoConn ELSE fds[g]
      BY <3>1, Zenon DEF Inv, TypeOK
    <3>4. Started'
      BY <3>1, ConnAssumption, Zenon DEF Inv, Started
    <3>5. Answering' /\ MutexHeld' /\ JoinBeforeReturn'
      BY <3>1, Zenon DEF Inv, Answering, MutexHeld, InFrame, JoinBeforeReturn
    <3>6. \A d \in Conns : Owner(d)' <=> d # c /\ Owner(d)
      BY <2>2, <3>1, ConnAssumption, Zenon DEF Owner, Live, Inv, Started
    <3>7. \A d \in Conns : Owner(d) => clientSock[d] \in FDs
      BY Zenon DEF Inv, Started, Owner, Live
    <3>8. Descriptors'
      <4>1. Descriptors /\ clientSock' = clientSock
        BY <3>1, Zenon DEF Inv
      <4>. QED
        BY <3>2, <3>3, <3>6, <3>7, <4>1, CloseKeeps, Zenon
    <3>. QED
      BY <3>4, <3>5, <3>8, Zenon DEF Rest
  <2>3. CASE ReadRequest(c)
    <3>1. CASE mainPc' = "respond"
      <4>1. /\ mainPc = "headers" /\ mainConn = c
            /\ UNCHANGED <<fds, mainConn, clientSock, sendMutex, pc, reply>>
        BY <2>3, <3>1, Zenon DEF ReadRequest, CloseRefused
      <4>2. Started'
        BY <3>1, <4>1, ConnAssumption, Zenon DEF Inv, Started
      <4>3. Answering' /\ MutexHeld' /\ JoinBeforeReturn'
        BY <4>1, Zenon DEF Inv, Answering, MutexHeld, InFrame, JoinBeforeReturn
      <4>4. Descriptors'
        BY <4>1, Zenon DEF Inv, Descriptors, Owner, Live
      <4>. QED
        BY <4>2, <4>3, <4>4, Zenon DEF Rest
    <3>. QED
      BY <2>2, <2>3, <3>1, Zenon DEF ReadRequest
  <2>4. CASE Respond(c)
    <3>1. CASE ~Broken(c)
      <4>1. /\ mainPc = "respond" /\ mainConn = c
            /\ mainPc' = "accept" /\ mainConn' = NoConn
            /\ pc' = [pc EXCEPT ![c] = [t \in Threads |-> IF t = "recv" THEN "loop"
                                                                       ELSE "sleep"]]
            /\ UNCHANGED <<fds, clientSock, sendMutex, reply>>
        BY <2>4, <3>1, Zenon DEF Respond
      <4>2. \A d \in Conns : \A t \in Threads :
              pc'[d][t] = IF d # c THEN pc[d][t]
                          ELSE IF t = "recv" THEN "loop" ELSE "sleep"
        BY <1>pc, <4>1, Zenon DEF PcOK
      <4>3. Started'
        <5>0. Started /\ "recv" \in Threads
          BY ThreadFacts, Zenon DEF Inv
        <5>1. ASSUME NEW d \in Conns
              PROVE  /\ mainConn' # d
                     /\ pc'[d]["recv"] # "off" => clientSock'[d] \in FDs
                     /\ \A t \in Threads : pc'[d][t] = "off" <=> pc'[d]["recv"] = "off"
          <6>1. mainConn' # d
            BY <4>1, ConnAssumption, Zenon
          <6>2. CASE d = c
            <7>1. clientSock[c] \in FDs
              BY <4>1, <5>0, Zenon DEF Started
            <7>2. \A t \in Threads : pc'[d][t] # "off"
              BY <4>2, <6>2, Zenon
            <7>. QED
              BY <4>1, <5>0, <6>1, <6>2, <7>1, <7>2, Zenon
          <6>3. CASE d # c
            <7>1. \A t \in Threads : pc'[d][t] = pc[d][t]
              BY <4>2, <6>3, Zenon
            <7>. QED
              BY <4>1, <5>0, <6>1, <7>1, Zenon DEF Started
          <6>. QED
            BY <6>2, <6>3, Zenon
        <5>. QED
          BY <4>1, <5>1, Zenon DEF Started
      <4>4. Answering' /\ JoinBeforeReturn'
        <5>1. /\ Answering /\ JoinBeforeReturn /\ "recv" \in Threads
              /\ "loop" \notin SendPCs \cup {"lock", "done"}
          BY ThreadFacts, Zenon DEF Inv, SendPCs
        <5>2. /\ pc'[c]["recv"] = "loop"
              /\ \A d \in Conns \ {c} : \A t \in Threads : pc'[d][t] = pc[d][t]
          BY <4>2, <5>1, Zenon
        <5>3. Answering'
          <6>1. reply' = reply
            BY <4>1, Zenon
          <6>2. ASSUME NEW d \in Conns, pc'[d]["recv"] \in SendPCs \cup {"lock"}
                PROVE  reply[d] # "none"
            <7>1. d \in Conns \ {c} /\ pc'[d]["recv"] = pc[d]["recv"]
              BY <5>1, <5>2, <6>2, Zenon
            <7>. QED
              BY <5>1, <6>2, <7>1, Zenon DEF Answering
          <6>. QED
            BY <6>1, <6>2, Zenon DEF Answering
        <5>4. JoinBeforeReturn'
          <6>1. ASSUME NEW d \in Conns, pc'[d]["recv"] = "done", NEW t \in Threads
                PROVE  pc'[d][t] = "done"
            <7>1. d \in Conns \ {c}
              BY <5>1, <5>2, <6>1, Zenon
            <7>2. pc'[d]["recv"] = pc[d]["recv"] /\ pc'[d][t] = pc[d][t]
              BY <5>1, <5>2, <7>1, Zenon
            <7>. QED
              BY <5>1, <6>1, <7>2, Zenon DEF JoinBeforeReturn
          <6>. QED
            BY <6>1, Zenon DEF JoinBeforeReturn
        <5>. QED
          BY <5>3, <5>4, Zenon
      <4>5. MutexHeld'
        <5>1. \A d \in Conns : \A t \in Threads :
                pc'[d][t] \in SendPCs => pc[d][t] \in SendPCs
          BY <4>2, Zenon DEF SendPCs
        <5>. QED
          BY <4>1, <5>1, Zenon DEF Inv, MutexHeld, InFrame
      <4>6. \A d \in Conns : Owner(d)' <=> Owner(d)
        BY <4>1, <4>2, ThreadFacts, ConnAssumption DEF Owner, Live
      <4>7. Descriptors'
        BY <4>1, <4>6, Zenon DEF Inv, Descriptors
      <4>. QED
        BY <4>3, <4>4, <4>5, <4>7, Zenon DEF Rest
    <3>2. CASE UNCHANGED <<fds, mainPc, mainConn, clientSock, sessVars>>
      <4>1. UNCHANGED <<fds, mainPc, mainConn, clientSock, sendMutex, pc, reply>>
        BY <3>2, Zenon
      <4>. QED
        BY <1>0, <4>1, Zenon
    <3>. QED
      BY <2>2, <2>4, <3>1, <3>2, Zenon DEF Respond
  <2>. QED
    BY <1>3, <2>1, <2>3, <2>4, Zenon DEF Main
<1>4. ASSUME NEW c \in Conns, RecvThread(c)
      PROVE  Rest'
  <2>1. CASE Loop(c)
    <3>1. MayMove(c, "recv", IF active[c] THEN "recv" ELSE "cleanup")
      BY <2>1, ThreadFacts, PcFacts, Zenon DEF Loop, SendPCs, MayMove
    <3>. QED
      BY <3>1, ThreadFacts, Move, Zenon
  <2>2. CASE Eof(c)
    <3>1. MayMove(c, "recv", "cleanup")
      BY <2>2, ThreadFacts, PcFacts, Zenon DEF Eof, SendPCs, MayMove
    <3>. QED
      BY <3>1, ThreadFacts, Move, Zenon
  <2>3. CASE Receive(c)
    <3>. DEFINE m == Head(in[c])
    <3>1. /\ pc[c]["recv"] = "recv"
          /\ UNCHANGED <<fds, mainPc, mainConn, clientSock, sendMutex>>
      BY <2>3, Zenon DEF Receive
    <3>2. CASE m \in DOMAIN Answer
      <4>1. Goto(c, "recv", "lock") /\ reply' = [reply EXCEPT ![c] = Answer[m]]
        BY <2>3, <3>2, Zenon DEF Receive, Answer, ControlAnswer
      <4>2. Answer[m] # "none"
        BY <3>2, AnswerFacts, Zenon
      <4>3. \A d \in Conns : reply'[d] = IF d = c THEN Answer[m] ELSE reply[d]
        BY <1>ty, <4>1, Zenon DEF TypeOK
      <4>. HIDE DEF m
      <4>4. /\ "lock" \in PCs("recv") /\ "lock" \notin SendPCs
            /\ pc[c]["recv"] \notin {"off", "done", "join"}
        BY <3>1, PcFacts, Zenon DEF SendPCs
      <4>5. \A d \in Conns : d # c => reply'[d] = reply[d]
        BY <4>3, Zenon
      <4>6. reply'[c] # "none"
        BY <4>2, <4>3, Zenon
      <4>7. MayMove(c, "recv", "lock")
        BY <3>1, <4>1, <4>4, <4>5, <4>6, Zenon DEF MayMove
      <4>. QED
        BY <4>7, ThreadFacts, Move, Zenon
    <3>3. CASE m \in DOMAIN ControlAnswer
      <4>1. /\ Goto(c, "recv", "send")
            /\ reply' = [reply EXCEPT ![c] = ControlAnswer[m]]
        BY <2>3, <3>3, Zenon DEF Receive, Answer, ControlAnswer
      <4>2. ControlAnswer[m] # "none" /\ ControlAnswer[m] \in ControlKinds
        BY <3>3, AnswerFacts, Zenon
      <4>3. \A d \in Conns : reply'[d] = IF d = c THEN ControlAnswer[m] ELSE reply[d]
        BY <1>ty, <4>1, Zenon DEF TypeOK
      <4>. HIDE DEF m
      <4>4. "send" \in PCs("recv") /\ pc[c]["recv"] \notin {"off", "done", "join"}
        BY <3>1, PcFacts, Zenon
      <4>5. \A d \in Conns : d # c => reply'[d] = reply[d]
        BY <4>3, Zenon
      <4>6. reply'[c] # "none" /\ reply'[c] \in ControlKinds
        BY <4>2, <4>3, Zenon
      <4>7. MayMove(c, "recv", "send")
        BY <3>1, <4>1, <4>4, <4>5, <4>6, Zenon DEF MayMove
      <4>. QED
        BY <4>7, ThreadFacts, Move, Zenon
    <3>4. CASE m \notin DOMAIN Answer \cup DOMAIN ControlAnswer
      <4>1. /\ reply' = [reply EXCEPT ![c] = "none"]
            /\ Goto(c, "recv", CASE m = "INVALID" -> "cleanup"
                                 [] m = "WSPONG" -> "recv"
                                 [] OTHER -> "loop")
        BY <2>3, <3>4, Zenon DEF Receive
      <4>2. PICK l \in {"cleanup", "recv", "loop"} : Goto(c, "recv", l)
        BY <4>1, Zenon
      <4>3. \A d \in Conns : d # c => reply'[d] = reply[d]
        BY <1>ty, <4>1, Zenon DEF TypeOK
      <4>4. MayMove(c, "recv", l)
        BY <3>1, <4>2, <4>3, ThreadFacts, PcFacts, Zenon DEF SendPCs, MayMove
      <4>. QED
        BY <4>4, ThreadFacts, Move, Zenon
    <3>. QED
      BY <3>2, <3>3, <3>4, Zenon DEF Rest
  <2>4. CASE Drop(c)
    <3>1. MayMove(c, "recv", "loop")
      BY <2>4, ThreadFacts, PcFacts, Zenon DEF Drop, SendPCs, MayMove
    <3>. QED
      BY <3>1, ThreadFacts, Move, Zenon
  <2>5. CASE Cleanup(c)
    <3>1. MayMove(c, "recv", "close")
      BY <2>5, ThreadFacts, PcFacts, Zenon DEF Cleanup, SendPCs, MayMove
    <3>. QED
      BY <3>1, ThreadFacts, Move, Zenon
  <2>6. CASE Close(c)
    <3>1. /\ pc[c]["recv"] = "close" /\ Goto(c, "recv", "join")
          /\ fds' = [fds EXCEPT ![clientSock[c]] = NoConn]
          /\ UNCHANGED <<mainPc, mainConn, clientSock, sendMutex, reply>>
      BY <2>6, Zenon DEF Close
    <3>2. \A d \in Conns : \A u \in Threads :
            pc'[d][u] = IF d = c /\ u = "recv" THEN "join" ELSE pc[d][u]
      <4>1. "recv" \in Threads /\ "join" \in PCs("recv")
        BY ThreadFacts, PcFacts, Zenon
      <4>. QED
        BY <1>pc, <3>1, <4>1, GotoEffect
    <3>3. clientSock[c] \in FDs /\ fds[clientSock[c]] = c /\ mainConn # c
      BY <3>1, Zenon DEF Inv, Started, Descriptors, Owner, Live
    <3>4. \A g \in FDs : fds'[g] = IF g = clientSock[c] THEN NoConn ELSE fds[g]
      BY <3>1, Zenon DEF Inv, TypeOK
    <3>5. Started'
      <4>1. Started /\ "recv" \in Threads
        BY ThreadFacts, Zenon DEF Inv
      <4>2. \A d \in Conns : \A u \in Threads :
              pc'[d][u] = "off" <=> pc[d][u] = "off"
        BY <3>1, <3>2, Zenon
      <4>. QED
        BY <3>1, <4>1, <4>2, Zenon DEF Started
    <3>6. Answering' /\ JoinBeforeReturn'
      <4>1. \A d \in Conns : pc'[d]["recv"] = IF d = c THEN "join" ELSE pc[d]["recv"]
        BY <3>2, ThreadFacts, Zenon
      <4>2. Answering'
        BY <3>1, <4>1, Zenon DEF Inv, Answering, SendPCs
      <4>3. \A d \in Conns : pc'[d]["recv"] = "done" =>
              d # c /\ pc[d]["recv"] = "done" /\ \A u \in Threads : pc'[d][u] = pc[d][u]
        BY <3>2, <4>1, Zenon
      <4>4. JoinBeforeReturn'
        BY <4>3, Zenon DEF Inv, JoinBeforeReturn
      <4>. QED
        BY <4>2, <4>4, Zenon
    <3>7. MutexHeld'
      <4>1. \A d \in Conns : \A u \in Threads :
              pc'[d][u] \in SendPCs => pc[d][u] \in SendPCs
        BY <3>2, Zenon DEF SendPCs
      <4>. QED
        BY <3>1, <4>1, Zenon DEF Inv, MutexHeld, InFrame
    <3>8. \A d \in Conns : Owner(d)' <=> d # c /\ Owner(d)
      BY <3>1, <3>2, <3>3, ThreadFacts, Zenon DEF Owner, Live
    <3>9. \A d \in Conns : Owner(d) => clientSock[d] \in FDs
      BY Zenon DEF Inv, Started, Owner, Live
    <3>10. Descriptors'
      <4>1. Descriptors /\ clientSock' = clientSock
        BY <3>1, Zenon DEF Inv
      <4>. QED
        BY <3>3, <3>4, <3>8, <3>9, <4>1, CloseKeeps, Zenon
    <3>. QED
      BY <3>5, <3>6, <3>7, <3>10, Zenon DEF Rest
  <2>7. CASE Join(c)
    <3>1. MayMove(c, "recv", "done")
      BY <2>7, ThreadFacts, PcFacts, Zenon DEF Join, SendPCs, MayMove
    <3>. QED
      BY <3>1, ThreadFacts, Move, Zenon
  <2>. QED
    BY <1>4, <2>1, <2>2, <2>3, <2>4, <2>5, <2>6, <2>7, Zenon DEF RecvThread
<1>5. ASSUME NEW c \in Conns, TimeoutThread(c)
      PROVE  Rest'
  <2>1. CASE CheckTimeout(c)
    <3>1. MayMove(c, "timeout", "done") \/ MayMove(c, "timeout", "expire")
      BY <2>1, ThreadFacts, PcFacts, Zenon DEF CheckTimeout, SendPCs, MayMove
    <3>. QED
      BY <3>1, ThreadFacts, Move, Zenon
  <2>2. CASE Expire(c)
    <3>1. MayMove(c, "timeout", "shut")
      BY <2>2, ThreadFacts, PcFacts, Zenon DEF Expire, SendPCs, MayMove
    <3>. QED
      BY <3>1, ThreadFacts, Move, Zenon
  <2>3. CASE Shutdown(c)
    <3>1. MayMove(c, "timeout", "done")
      BY <2>3, ThreadFacts, PcFacts, Zenon DEF Shutdown, SendPCs, MayMove
    <3>. QED
      BY <3>1, ThreadFacts, Move, Zenon
  <2>. QED
    BY <1>5, <2>1, <2>2, <2>3, Zenon DEF TimeoutThread
<1>6. ASSUME NEW c \in Conns, NEW t \in Threads, Thread(c, t)
      PROVE  Rest'
  <2>1. ASSUME NEW ok \in BOOLEAN, SendReturns(c, t, ok),
               pc[c][t] \in SendPCs \cup {"lock"},
               UNCHANGED <<fds, mainPc, mainConn, clientSock, reply>>
        PROVE  Rest'
    <3>. DEFINE l == AfterSend(c, t, ok)
    <3>1. l \in PCs(t) /\ Goto(c, t, l)
      BY <1>ty, <2>1, SendReturnsType, Zenon DEF SendReturns
    <3>2. l \notin SendPCs \cup {"off", "done", "lock", "join"}
      BY Zenon DEF AfterSend, SendPCs
    <3>3. \A d \in Conns : \A u \in Threads :
            ~(d = c /\ u = t) /\ sendMutex[d] = u => sendMutex'[d] = u
      BY <1>ty, <2>1, Zenon DEF SendReturns, TypeOK
    <3>4. /\ pc[c][t] \notin {"off", "done", "join"}
          /\ l # "off" /\ l # "done" /\ l # "join" /\ l # "lock" /\ l \notin SendPCs
      BY <2>1, <3>2, Zenon DEF SendPCs
    <3>5. \A d \in Conns : reply'[d] = reply[d]
      BY <2>1, Zenon
    <3>. HIDE DEF l
    <3>6. MayMove(c, t, l)
      BY <2>1, <3>1, <3>3, <3>4, <3>5, Zenon DEF MayMove
    <3>. QED
      BY <3>6, Move, Zenon
  <2>2. CASE LockAndTest(c, t)
    <3>1. CASE active[c]
      <4>1. /\ pc[c][t] = "lock" /\ sendMutex[c] = "free" /\ Goto(c, t, "send")
            /\ sendMutex' = [sendMutex EXCEPT ![c] = t]
            /\ UNCHANGED <<fds, mainPc, mainConn, clientSock, reply>>
        BY <2>2, <3>1, Zenon DEF LockAndTest
      <4>2. "send" \in PCs(t) /\ (t = "recv" => reply[c] # "none")
        BY <1>pc, <4>1, ThreadFacts, PcFacts DEF PcOK, Inv, Answering
      <4>3. \A d \in Conns : sendMutex'[d] = IF d = c THEN t ELSE sendMutex[d]
        BY <1>ty, <4>1, Zenon DEF TypeOK
      <4>4. "free" \notin Threads
        BY TaskAssumption, Zenon DEF Threads, AllTasks
      <4>5. MayMove(c, t, "send")
        BY <4>1, <4>2, <4>3, <4>4, Zenon DEF SendPCs, MayMove
      <4>. QED
        BY <4>5, Move, Zenon
    <3>2. CASE ~active[c]
      BY <2>1, <2>2, <3>2, Zenon DEF LockAndTest
    <3>. QED
      BY <3>1, <3>2, Zenon
  <2>3. ASSUME pc[c][t] \in SendPCs, NEW l \in SendPCs, Goto(c, t, l),
               UNCHANGED <<fds, mainPc, mainConn, clientSock, sendMutex, reply>>
        PROVE  Rest'
    <3>1. l \in PCs(t)
      BY <1>pc, <2>3, ThreadFacts, PcFacts DEF PcOK, SendPCs
    <3>2. t = "recv" => reply[c] # "none"
      BY <2>3, Zenon DEF Inv, Answering
    <3>3. ~(t = "recv" /\ reply[c] \in ControlKinds) => sendMutex[c] = t
      BY <2>3, Zenon DEF Inv, MutexHeld, InFrame
    <3>4. MayMove(c, t, l)
      BY <2>3, <3>1, <3>2, <3>3, Zenon DEF SendPCs, MayMove
    <3>. QED
      BY <3>4, Move, Zenon
  <2>4. CASE CallSend(c, t)
    BY <2>1, <2>3, <2>4, Zenon DEF CallSend, SendPCs
  <2>5. CASE CopyPart(c, t)
    BY <2>1, <2>3, <2>5, Zenon DEF CopyPart, SendPCs
  <2>6. CASE SendError(c, t)
    BY <1>0, <2>1, <2>3, <2>6, Zenon DEF SendError, SendPCs
  <2>7. CASE Wake(c, t)
    <3>1. MayMove(c, t, IF active[c] THEN "lock" ELSE "done")
      BY <2>7, ThreadFacts, PcFacts, Zenon DEF Wake, SendPCs, MayMove
    <3>. QED
      BY <3>1, ThreadFacts, Move, Zenon
  <2>8. CASE Fail(c, t)
    <3>1. t \in Tasks
      BY <1>pc, <2>8, ThreadFacts, PcFacts, Zenon DEF Fail, PcOK
    <3>2. MayMove(c, t, "done")
      BY <2>8, <3>1, ThreadFacts, PcFacts, Zenon DEF Fail, SendPCs, MayMove
    <3>. QED
      BY <3>2, Move, Zenon
  <2>. QED
    BY <1>6, <2>2, <2>4, <2>5, <2>6, <2>7, <2>8, Zenon DEF Thread, Send
<1>7. CASE UNCHANGED vars
  BY <1>0, <1>7, Zenon DEF vars
<1>. QED
  BY <1>1, <1>2, <1>3, <1>4, <1>5, <1>6, <1>7, Zenon DEF Next
-----------------------------------------------------------------------------
LEMMA InitInv == Init => Inv
<1>. SUFFICES ASSUME Init PROVE Inv
  BY Zenon
<1>1. \A c \in Conns : \A t \in Threads : pc[c][t] = "off"
  BY Zenon DEF Init
<1>2. TypeOK
  <2>1. \A t \in Threads : "off" \in PCs(t)
    BY Zenon DEF PCs
  <2>2. "off" \in AllPCs
    BY <2>1, ThreadFacts, Zenon DEF AllPCs
  <2>3. PcOK
    BY <2>1, <2>2, Zenon DEF Init, PcOK
  <2>4. left \in [Conns -> [Threads -> 0..FrameParts]]
    BY DEF Init
  <2>5. file \in [Conns -> [Threads -> Conns \cup {NoConn}]]
    BY Zenon DEF Init
  <2>6. in \in [Conns -> Seq(Received)] /\ out \in [Conns -> Seq(Parts)]
    BY DEF Init
  <2>7. msgs \in [Conns -> 0..MaxMsgs + 1] /\ age \in [Conns -> 0..Timeout + 1]
    BY BoundAssumption DEF Init
  <2>. QED
    BY <2>3, <2>4, <2>5, <2>6, <2>7, Zenon DEF Init, TypeOK, PcOK
<1>3. Started /\ Answering /\ JoinBeforeReturn
  BY <1>1, ThreadFacts, ConnAssumption, Zenon DEF Init, Started, Answering,
                                           JoinBeforeReturn, SendPCs
<1>4. MutexHeld
  BY <1>1, Zenon DEF MutexHeld, InFrame, SendPCs
<1>5. Descriptors
  BY <1>1, ThreadFacts, ConnAssumption, Zenon DEF Init, Descriptors, Owner, Live
<1>. QED
  BY <1>2, <1>3, <1>4, <1>5, Zenon DEF Inv

\* Every reachable state of the server satisfies the inductive invariant.
THEOREM Invariance == Spec => []Inv
<1>1. Inv /\ [Next]_vars => Inv'
  BY TypeStep, RestStep, Zenon DEF Inv, Rest
<1>. QED
  BY InitInv, <1>1, PTL DEF Spec

\* The state of the server process and of its sessions is always well formed:
\* in particular every thread is in a control state of its kind, and a send in
\* progress works on a connection.
THEOREM TypeCorrect == Spec => []TypeOK
BY Invariance, PTL DEF Inv

\* sendFrame is exclusive for any number of background senders: two threads of
\* a session never write binary frames at the same time.
THEOREM Exclusion == Spec => []SendExclusive
<1>1. Inv => SendExclusive
  BY Zenon DEF Inv, MutexHeld, SendExclusive
<1>. QED
  BY Invariance, <1>1, PTL

\* For any number of connections and of descriptor numbers, a handler that has
\* not closed its socket yet reads from and closes its own connection.
THEOREM Ownership == Spec => []OwnDescriptor
<1>1. Inv => OwnDescriptor
  BY Zenon DEF Inv, Descriptors, Owner, OwnDescriptor
<1>. QED
  BY Invariance, <1>1, PTL

\* For any number of connections and of descriptor numbers, accept and handleClient
\* lose no descriptor, on whichever path a handshake fails or a session ends.
THEOREM NothingLeaks == Spec => []NoDescriptorLeak
<1>1. Inv => NoDescriptorLeak
  BY Zenon DEF Inv, Descriptors, Owner, NoDescriptorLeak
<1>. QED
  BY Invariance, <1>1, PTL

-----------------------------------------------------------------------------
(* The frames on their way to the clients.                                 *)

\* What thread t is sending, and the connection on which it is.
What(c, t) == IF t = "recv" THEN reply[c] ELSE t
Sending(c, t, k) ==
  InFrame(c, t) /\ pc[c][t] \in {"insend", "partial"} /\ file[c][t] = k

\* A connection that was accepted and has no descriptor any more.
Gone(k) == clientSock[k] # INVALID_SOCKET /\ \A f \in FDs : fds[f] # k

\* The last binary part that session c wrote to connection k has place i.
LastBinary(k, c, i) ==
  /\ out[k][i].by = c /\ out[k][i].what \notin ControlKinds
  /\ \A h \in i + 1..Len(out[k]) : out[k][h].by = c => out[k][h].what \in ControlKinds

\* A frame w that session c has begun on k is being finished, or never will be.
Unfinished(k, c, w) ==
  \/ \E t \in Threads : Sending(c, t, k) /\ left[c][t] = 1 /\ What(c, t) = w
  \/ Broken(k)
  \/ Gone(k) /\ \A t \in Threads : ~Sending(c, t, k)

OpenFrame ==
  \A k, c \in Conns : \A i \in 1..Len(out[k]) :
    LastBinary(k, c, i) /\ ~out[k][i].last => Unfinished(k, c, out[k][i].what)

\* Only a session that has started has written anything.
Origin ==
  \A k \in Conns : \A i \in 1..Len(out[k]) : pc[out[k][i].by]["recv"] # "off"

\* A send in progress works on a connection, and that one was accepted.
Accepted ==
  \A c \in Conns : \A t \in Threads :
    /\ file[c][t] # NoConn => clientSock[file[c][t]] # INVALID_SOCKET
    /\ pc[c][t] \in {"insend", "partial"} => file[c][t] # NoConn

\* The inductive invariant for the frames, on top of Inv.
Wires == BinaryContiguous /\ OpenFrame /\ Origin /\ Accepted

\* No connection recovers from a reset or a shutdown, gets a second descriptor or
\* goes back to before its session.
Stable ==
  \A k \in Conns :
    /\ Broken(k) => Broken(k)'
    /\ Gone(k) => Gone(k)'
    /\ clientSock[k] # INVALID_SOCKET => clientSock'[k] # INVALID_SOCKET
    /\ pc[k]["recv"] # "off" => pc'[k]["recv"] # "off"

\* A step of thread t of session c touches no other thread's frame,
OthersKeep(c, t) ==
  /\ \A d \in Conns : \A u \in Threads :
       ~(d = c /\ u = t) => /\ pc'[d][u] = pc[d][u]
                            /\ left'[d][u] = left[d][u]
                            /\ file'[d][u] = file[d][u]
  /\ \A d \in Conns : ~(d = c /\ t = "recv") => reply'[d] = reply[d]

\* and its own goes on where it was, is given up with its connection, or begins on
\* a connection that has a descriptor.
OwnGoesOn(c, t, k) ==
  /\ Sending(c, t, k)' => Sending(c, t, k) \/ ~Gone(k)
  /\ Sending(c, t, k) => \/ Broken(k)'
                         \/ Gone(k)' /\ ~Sending(c, t, k)'
                         \/ /\ Sending(c, t, k)' /\ left'[c][t] = left[c][t]
                            /\ What(c, t)' = What(c, t)

\* What such a step does to the sends of the session's other threads.
LEMMA OthersSend ==
  ASSUME NEW c \in Conns, NEW t \in Threads, OthersKeep(c, t),
         NEW d \in Conns, NEW u \in Threads, ~(d = c /\ u = t), NEW k \in Conns
  PROVE  /\ Sending(d, u, k)' <=> Sending(d, u, k)
         /\ left'[d][u] = left[d][u] /\ What(d, u)' = What(d, u)
<1>1. /\ pc'[d][u] = pc[d][u] /\ left'[d][u] = left[d][u] /\ file'[d][u] = file[d][u]
      /\ u = "recv" => reply'[d] = reply[d]
  BY Zenon DEF OthersKeep
<1> QED
  BY <1>1, Zenon DEF Sending, InFrame, What

\* So an unfinished frame stays one.
LEMMA UnfinishedKept ==
  ASSUME Inv, NEW c \in Conns, NEW t \in Threads, Stable, OthersKeep(c, t),
         NEW k \in Conns, OwnGoesOn(c, t, k), NEW d \in Conns, NEW w, Unfinished(k, d, w)
  PROVE  Unfinished(k, d, w)'
<1>1. CASE Broken(k)
  BY <1>1, Zenon DEF Stable, Unfinished
<1>2. CASE Gone(k) /\ \A u \in Threads : ~Sending(d, u, k)
  <2>1. Gone(k)'
    BY <1>2, Zenon DEF Stable
  <2>2. ASSUME NEW u \in Threads PROVE ~Sending(d, u, k)'
    <3>1. CASE d = c /\ u = t
      BY <1>2, <3>1, Zenon DEF OwnGoesOn
    <3>2. CASE ~(d = c /\ u = t)
      BY <1>2, <3>2, OthersSend, Zenon
    <3> QED
      BY <3>1, <3>2, Zenon
  <2> QED
    BY <2>1, <2>2, Zenon DEF Unfinished
<1>3. ASSUME NEW u \in Threads, Sending(d, u, k), left[d][u] = 1, What(d, u) = w
      PROVE  Unfinished(k, d, w)'
  <2>1. CASE ~(d = c /\ u = t)
    <3>0. /\ Sending(d, u, k)' <=> Sending(d, u, k)
          /\ left'[d][u] = left[d][u] /\ What(d, u)' = What(d, u)
      BY <2>1, OthersSend
    <3>1. Sending(d, u, k)' /\ left'[d][u] = 1 /\ What(d, u)' = w
      BY <1>3, <3>0, Zenon
    <3> QED
      BY <3>1, Zenon DEF Unfinished
  <2>2. CASE d = c /\ u = t
    <3>1. CASE Broken(k)'
      BY <3>1, Zenon DEF Unfinished
    <3>2. CASE Gone(k)' /\ ~Sending(c, t, k)'
      <4>1. ASSUME NEW v \in Threads PROVE ~Sending(c, v, k)'
        <5>1. CASE v = t
          BY <3>2, <5>1, Zenon
        <5>2. CASE v # t
          <6>1. ~Sending(c, v, k)
            BY <1>3, <2>2, <5>2, Zenon DEF Sending, Inv, MutexHeld
          <6> QED
            BY <5>2, <6>1, OthersSend, Zenon
        <5> QED
          BY <5>1, <5>2, Zenon
      <4> QED
        BY <2>2, <3>2, <4>1, Zenon DEF Unfinished
    <3>3. CASE /\ Sending(c, t, k)' /\ left'[c][t] = left[c][t]
               /\ What(c, t)' = What(c, t)
      BY <1>3, <2>2, <3>3, Zenon DEF Unfinished
    <3> QED
      BY <1>3, <2>2, <3>1, <3>2, <3>3, Zenon DEF OwnGoesOn
  <2> QED
    BY <2>1, <2>2, Zenon
<1> QED
  BY <1>1, <1>2, <1>3, Zenon DEF Unfinished

\* Frames are not mixed by a client's read,
LEMMA UnmixedTail ==
  ASSUME NEW s \in Seq(Parts), s # <<>>, Unmixed(s)
  PROVE  Unmixed(Tail(s))
<1> DEFINE v == Tail(s)
<1>1. /\ Len(s) \in Nat /\ Len(v) = Len(s) - 1
      /\ \A i \in 1..Len(v) : v[i] = s[i + 1]
  OBVIOUS
<1> HIDE DEF v
<1> SUFFICES ASSUME NEW i \in 1..Len(v), NEW j \in 1..Len(v),
                    i < j, ~v[i].last, v[j].by = v[i].by,
                    v[i].what \notin ControlKinds, v[j].what \notin ControlKinds,
                    \A h \in i + 1..j - 1 : v[h].by = v[i].by => v[h].what \in ControlKinds
             PROVE  v[j].last /\ v[j].what = v[i].what
  BY Zenon DEF Unmixed, v
<1>2. /\ i + 1 \in 1..Len(s) /\ j + 1 \in 1..Len(s) /\ i + 1 < j + 1
      /\ v[i] = s[i + 1] /\ v[j] = s[j + 1]
  BY <1>1
<1>3. ASSUME NEW h \in i + 1 + 1..j + 1 - 1, s[h].by = s[i + 1].by
      PROVE  s[h].what \in ControlKinds
  <2>1. h - 1 \in i + 1..j - 1 /\ h - 1 \in 1..Len(v) /\ (h - 1) + 1 = h
    BY <1>1
  <2>2. v[h - 1] = s[h]
    BY <1>1, <2>1, Zenon
  <2> QED
    BY <1>2, <1>3, <2>1, <2>2, Zenon
<1>4. s[j + 1].last /\ s[j + 1].what = s[i + 1].what
  BY <1>2, <1>3 DEF Unmixed
<1> QED
  BY <1>2, <1>4, Zenon

\* nor by a part that goes on where the session's last binary part stopped.
LEMMA UnmixedAppend ==
  ASSUME NEW s \in Seq(Parts), NEW p \in Parts, Unmixed(s),
         p.what \notin ControlKinds =>
           \A i \in 1..Len(s) :
             /\ ~s[i].last /\ s[i].what \notin ControlKinds /\ s[i].by = p.by
             /\ \A h \in i + 1..Len(s) : s[h].by = p.by => s[h].what \in ControlKinds
             => p.last /\ p.what = s[i].what
  PROVE  Unmixed(Append(s, p))
<1> DEFINE v == Append(s, p)
           n == Len(s)
<1>1. /\ n \in Nat /\ Len(v) = n + 1 /\ v[n + 1] = p
      /\ \A i \in 1..n : v[i] = s[i]
  OBVIOUS
<1> HIDE DEF v
<1> SUFFICES ASSUME NEW i \in 1..Len(v), NEW j \in 1..Len(v),
                    i < j, ~v[i].last, v[j].by = v[i].by,
                    v[i].what \notin ControlKinds, v[j].what \notin ControlKinds,
                    \A h \in i + 1..j - 1 : v[h].by = v[i].by => v[h].what \in ControlKinds
             PROVE  v[j].last /\ v[j].what = v[i].what
  BY Zenon DEF Unmixed, v
<1>2. i \in 1..n /\ v[i] = s[i] /\ \A h \in i + 1..j - 1 : v[h] = s[h]
  BY <1>1
<1>3. CASE j \in 1..n
  <2>1. v[j] = s[j]
    BY <1>1, <1>3, Zenon
  <2>2. \A h \in i + 1..j - 1 : s[h].by = s[i].by => s[h].what \in ControlKinds
    BY <1>2, Zenon
  <2>3. s[j].last /\ s[j].what = s[i].what
    BY <1>2, <1>3, <2>1, <2>2 DEF Unmixed
  <2> QED
    BY <1>2, <2>1, <2>3, Zenon
<1>4. CASE j = n + 1
  <2>1. v[j] = p /\ j - 1 = n
    BY <1>1, <1>4
  <2>2. \A h \in i + 1..n : s[h].by = p.by => s[h].what \in ControlKinds
    BY <1>2, <2>1, Zenon
  <2> QED
    BY <1>2, <2>1, <2>2, Zenon
<1> QED
  BY <1>1, <1>3, <1>4

\* Every part was written by a session.
LEMMA PartsBy ==
  ASSUME Inv, NEW k \in Conns, NEW i \in 1..Len(out[k])
  PROVE  out[k][i].by \in Conns
<1>1. out[k] \in Seq(Parts)
  BY Zenon DEF Inv, TypeOK
<1>2. out[k][i] \in Parts
  BY <1>1
<1> QED
  BY <1>2, Zenon DEF Parts

\* Three kinds of steps, by what they do to the parts under way.  None:
LEMMA WiresKept ==
  ASSUME Inv, Wires, Stable, out' = out, Accepted',
         \A k, d \in Conns : \A w : Unfinished(k, d, w) => Unfinished(k, d, w)'
  PROVE  Wires'
<1>0. BinaryContiguous'
  BY Zenon DEF Wires, BinaryContiguous
<1>1. Origin'
  <2>1. \A k \in Conns : \A i \in 1..Len(out[k]) : out[k][i].by \in Conns
    BY PartsBy, Zenon
  <2> QED
    BY <2>1, Zenon DEF Wires, Origin, Stable
<1>2. OpenFrame'
  BY Zenon DEF Wires, OpenFrame, LastBinary
<1> QED
  BY <1>0, <1>1, <1>2, Zenon DEF Wires

\* The client reads one part:
LEMMA WiresRead ==
  ASSUME Inv, Wires, NEW r \in Conns, PeerRead(r)
  PROVE  Wires'
<1>1. /\ out[r] # <<>> /\ out' = [out EXCEPT ![r] = Tail(@)]
      /\ UNCHANGED <<alive, fds, clientSock, pc, reply, left, file, peer, shut>>
  BY Zenon DEF PeerRead, procVars, sessVars
<1>2. out \in [Conns -> Seq(Parts)]
  BY Zenon DEF Inv, TypeOK
<1>3. ASSUME NEW k \in Conns
      PROVE  \E n \in {0, 1} : /\ Len(out[k]) \in Nat /\ Len(out'[k]) = Len(out[k]) - n
                               /\ \A i \in 1..Len(out'[k]) : out'[k][i] = out[k][i + n]
  <2>1. CASE k = r
    BY <1>1, <1>2, <2>1
  <2>2. CASE k # r
    BY <1>1, <1>2, <2>2
  <2> QED
    BY <2>1, <2>2, Zenon
<1>4. BinaryContiguous'
  <2>1. \A k \in Conns : out'[k] = IF k = r THEN Tail(out[r]) ELSE out[k]
    BY <1>1, <1>2, Zenon
  <2>2. Unmixed(Tail(out[r])) /\ \A k \in Conns : Unmixed(out[k])
    BY <1>1, <1>2, UnmixedTail, Zenon DEF Wires, BinaryContiguous
  <2> QED
    BY <2>1, <2>2, Zenon DEF BinaryContiguous
<1>5. \A k, d \in Conns : \A w : Unfinished(k, d, w)' <=> Unfinished(k, d, w)
  <2>1. \A k, d \in Conns : \A t \in Threads : Sending(d, t, k)' <=> Sending(d, t, k)
    BY <1>1, Zenon DEF Sending, InFrame
  <2>2. \A d \in Conns : \A t \in Threads : left'[d][t] = left[d][t] /\ What(d, t)' = What(d, t)
    BY <1>1, Zenon DEF What
  <2>3. \A k \in Conns : (Gone(k)' <=> Gone(k)) /\ (Broken(k)' <=> Broken(k))
    BY <1>1, Zenon DEF Gone, Broken
  <2> QED
    BY <2>1, <2>2, <2>3 DEF Unfinished
<1>6. OpenFrame'
  <2> SUFFICES ASSUME NEW k \in Conns, NEW d \in Conns, NEW i \in 1..Len(out'[k]),
                      LastBinary(k, d, i)', ~out'[k][i].last
               PROVE  Unfinished(k, d, out[k][i].what)'
    BY Zenon DEF OpenFrame
  <2>1. PICK n \in {0, 1} : /\ Len(out[k]) \in Nat /\ Len(out'[k]) = Len(out[k]) - n
                            /\ \A h \in 1..Len(out'[k]) : out'[k][h] = out[k][h + n]
    BY <1>3, Zenon
  <2>2. i + n \in 1..Len(out[k]) /\ out'[k][i] = out[k][i + n]
    BY <2>1
  <2>3. ASSUME NEW h \in i + n + 1..Len(out[k]), out[k][h].by = d
        PROVE  out[k][h].what \in ControlKinds
    <3>1. h - n \in i + 1..Len(out'[k]) /\ h - n \in 1..Len(out'[k]) /\ (h - n) + n = h
      BY <2>1
    <3>2. out'[k][h - n] = out[k][h]
      BY <2>1, <3>1, Zenon
    <3> QED
      BY <2>3, <3>1, <3>2, Zenon DEF LastBinary
  <2>4. LastBinary(k, d, i + n) /\ ~out[k][i + n].last
    BY <2>2, <2>3, Zenon DEF LastBinary
  <2>5. Unfinished(k, d, out[k][i + n].what)
    BY <2>2, <2>4, Zenon DEF Wires, OpenFrame
  <2> QED
    BY <1>5, <2>2, <2>5, Zenon
<1>7. Origin'
  BY <1>1, <1>3 DEF Wires, Origin
<1>8. Accepted'
  BY <1>1, Zenon DEF Wires, Accepted
<1> QED
  BY <1>4, <1>6, <1>7, <1>8, Zenon DEF Wires

\* A part is added, which does not break into a frame of its session.
LEMMA WiresAppend ==
  ASSUME Inv, Wires, NEW k \in Conns, NEW p \in Parts,
         out' = [out EXCEPT ![k] = Append(@, p)], Accepted',
         \A j, d \in Conns : \A w :
           j # k \/ d # p.by \/ p.what \in ControlKinds
             => (Unfinished(j, d, w) => Unfinished(j, d, w)'),
         Stable, pc'[p.by]["recv"] # "off",
         p.what \notin ControlKinds /\ ~p.last => Unfinished(k, p.by, p.what)',
         p.what \notin ControlKinds =>
           \A i \in 1..Len(out[k]) : LastBinary(k, p.by, i) /\ ~out[k][i].last
                                       => p.last /\ p.what = out[k][i].what
  PROVE  Wires'
<1> DEFINE n == Len(out[k])
<1>1. out \in [Conns -> Seq(Parts)] /\ n \in Nat
  BY DEF Inv, TypeOK
<1>2. /\ \A j \in Conns \ {k} : out'[j] = out[j]
      /\ Len(out'[k]) = n + 1 /\ out'[k][n + 1] = p
      /\ \A i \in 1..n : out'[k][i] = out[k][i]
  BY <1>1
<1> HIDE DEF n
<1>3. BinaryContiguous'
  <2>1. \A c \in Conns : out'[c] = IF c = k THEN Append(out[k], p) ELSE out[c]
    BY <1>1, Zenon
  <2>2. \A c \in Conns : Unmixed(out[c])
    BY Zenon DEF Wires, BinaryContiguous
  <2>3. Unmixed(Append(out[k], p))
    <3>1. ASSUME p.what \notin ControlKinds, NEW i \in 1..Len(out[k]), ~out[k][i].last,
                 out[k][i].what \notin ControlKinds, out[k][i].by = p.by,
                 \A h \in i + 1..Len(out[k]) :
                   out[k][h].by = p.by => out[k][h].what \in ControlKinds
          PROVE  p.last /\ p.what = out[k][i].what
      <4>1. LastBinary(k, p.by, i)
        BY <3>1, Zenon DEF LastBinary
      <4> QED
        BY <3>1, <4>1, Zenon
    <3> QED
      BY <1>1, <2>2, <3>1, UnmixedAppend, Zenon
  <2> QED
    BY <2>1, <2>2, <2>3, Zenon DEF BinaryContiguous
<1>4. OpenFrame'
  <2> SUFFICES ASSUME NEW j \in Conns, NEW d \in Conns, NEW i \in 1..Len(out'[j]),
                      LastBinary(j, d, i)', ~out'[j][i].last
               PROVE  Unfinished(j, d, out[j][i].what)'
    BY Zenon DEF OpenFrame
  <2>0. OpenFrame
    BY Zenon DEF Wires
  <2>1. CASE j # k
    <3>1. out'[j] = out[j]
      BY <1>2, <2>1, Zenon
    <3>2. LastBinary(j, d, i)
      BY <3>1, Zenon DEF LastBinary
    <3>3. Unfinished(j, d, out[j][i].what)
      BY <2>0, <3>1, <3>2, Zenon DEF OpenFrame
    <3>4. Unfinished(j, d, out[j][i].what) => Unfinished(j, d, out[j][i].what)'
      <4>1. \A x : Unfinished(j, d, x) => Unfinished(j, d, x)'
        BY <2>1, Zenon
      <4> QED
        BY <3>1, <4>1, Zenon DEF Unfinished
    <3> QED
      BY <3>3, <3>4, Zenon
  <2>2. CASE j = k /\ i \in 1..n
    <3>1. out'[k][i] = out[k][i] /\ n + 1 \in i + 1..Len(out'[k])
      BY <1>1, <1>2, <2>2
    <3>2. d = p.by => p.what \in ControlKinds
      BY <1>2, <2>2, <3>1 DEF LastBinary
    <3>3. LastBinary(k, d, i)
      <4>1. \A h \in i + 1..n : h \in i + 1..Len(out'[k]) /\ out'[k][h] = out[k][h]
        BY <1>1, <1>2, <2>2
      <4> QED
        BY <2>2, <3>1, <4>1, Zenon DEF LastBinary, n
    <3>4. Unfinished(k, d, out[k][i].what)
      BY <2>0, <2>2, <3>1, <3>3, Zenon DEF OpenFrame, n
    <3>5. Unfinished(k, d, out[k][i].what) => Unfinished(k, d, out[k][i].what)'
      <4>1. \A x : Unfinished(k, d, x) => Unfinished(k, d, x)'
        BY <3>2, Zenon
      <4> QED
        BY <3>1, <4>1, Zenon DEF Unfinished
    <3> QED
      BY <2>2, <3>4, <3>5, Zenon
  <2>3. CASE j = k /\ i = n + 1
    <3>1. out'[j][i] = p /\ d = p.by /\ p.what \notin ControlKinds
      BY <1>2, <2>3, Zenon DEF LastBinary
    <3>2. Unfinished(k, p.by, p.what)'
      BY <2>3, <3>1, Zenon
    <3> QED
      BY <2>3, <3>1, <3>2, Zenon DEF Unfinished
  <2> QED
    BY <1>1, <1>2, <2>1, <2>2, <2>3
<1>5. Origin'
  <2> SUFFICES ASSUME NEW j \in Conns, NEW i \in 1..Len(out'[j])
               PROVE  pc'[out'[j][i].by]["recv"] # "off"
    BY Zenon DEF Origin
  <2>0. \A d \in Conns : \A h \in 1..Len(out[d]) :
          out[d][h].by \in Conns /\ pc'[out[d][h].by]["recv"] # "off"
    BY PartsBy, Zenon DEF Wires, Origin, Stable
  <2>1. CASE j # k
    BY <1>2, <2>0, <2>1
  <2>2. CASE j = k /\ i \in 1..n
    BY <1>2, <2>0, <2>2 DEF n
  <2>3. CASE j = k /\ i = n + 1
    BY <1>2, <2>3, Zenon
  <2> QED
    BY <1>1, <1>2, <2>1, <2>2, <2>3
<1> QED
  BY <1>3, <1>4, <1>5, Zenon DEF Wires

\* Session d goes on with whatever it is sending to connection j.
Same(j, d) ==
  \A u \in Threads :
    /\ Sending(d, u, j)' <=> Sending(d, u, j)
    /\ Sending(d, u, j) => left'[d][u] = left[d][u] /\ What(d, u)' = What(d, u)

LEMMA UnfinishedSame ==
  ASSUME Stable, NEW j \in Conns, NEW d \in Conns, Same(j, d), NEW w, Unfinished(j, d, w)
  PROVE  Unfinished(j, d, w)'
<1>1. CASE Broken(j)
  BY <1>1, Zenon DEF Stable, Unfinished
<1>2. CASE Gone(j) /\ \A u \in Threads : ~Sending(d, u, j)
  <2>1. Gone(j)' /\ \A u \in Threads : ~Sending(d, u, j)'
    BY <1>2, Zenon DEF Stable, Same
  <2> QED
    BY <2>1, Zenon DEF Unfinished
<1>3. ASSUME NEW u \in Threads, Sending(d, u, j), left[d][u] = 1, What(d, u) = w
      PROVE  Unfinished(j, d, w)'
  <2>1. Sending(d, u, j)' /\ left'[d][u] = left[d][u] /\ What(d, u)' = What(d, u)
    BY <1>3, Zenon DEF Same
  <2>2. left'[d][u] = 1 /\ What(d, u)' = w
    BY <1>3, <2>1, Zenon
  <2> QED
    BY <2>1, <2>2, Zenon DEF Unfinished
<1> QED
  BY <1>1, <1>2, <1>3, Zenon DEF Unfinished

\* Accepted is kept when no send begins.
LEMMA AcceptedKept ==
  ASSUME Inv, Accepted, Stable,
         \A c \in Conns : \A t \in Threads :
           \/ file'[c][t] = file[c][t] /\ pc'[c][t] = pc[c][t]
           \/ file'[c][t] \in {file[c][t], NoConn} /\ pc'[c][t] \notin {"insend", "partial"}
           \/ file'[c][t] = file[c][t] /\ pc[c][t] \in {"insend", "partial"}
  PROVE  Accepted'
<1> SUFFICES ASSUME NEW c \in Conns, NEW t \in Threads
             PROVE  /\ file'[c][t] # NoConn => clientSock'[file'[c][t]] # INVALID_SOCKET
                    /\ pc'[c][t] \in {"insend", "partial"} => file'[c][t] # NoConn
  BY Zenon DEF Accepted
<1>1. file[c][t] # NoConn => /\ file[c][t] \in Conns
                             /\ clientSock[file[c][t]] # INVALID_SOCKET
  <2>1. file[c][t] \in Conns \cup {NoConn}
    BY DEF Inv, TypeOK
  <2> QED
    BY <2>1, Zenon DEF Accepted
<1>2. file[c][t] # NoConn => clientSock'[file[c][t]] # INVALID_SOCKET
  BY <1>1, Zenon DEF Stable
<1>3. pc[c][t] \in {"insend", "partial"} => file[c][t] # NoConn
  BY Zenon DEF Accepted
<1>4. \/ file'[c][t] = file[c][t] /\ pc'[c][t] = pc[c][t]
      \/ file'[c][t] \in {file[c][t], NoConn} /\ pc'[c][t] \notin {"insend", "partial"}
      \/ file'[c][t] = file[c][t] /\ pc[c][t] \in {"insend", "partial"}
  BY Zenon
<1> HIDE DEF INVALID_SOCKET
<1>5. CASE file'[c][t] = file[c][t] /\ pc'[c][t] = pc[c][t]
  BY <1>2, <1>3, <1>5, Zenon
<1>6. CASE file'[c][t] \in {file[c][t], NoConn} /\ pc'[c][t] \notin {"insend", "partial"}
  BY <1>2, <1>6, Zenon
<1>7. CASE file'[c][t] = file[c][t] /\ pc[c][t] \in {"insend", "partial"}
  BY <1>2, <1>3, <1>7, Zenon
<1> QED
  BY <1>4, <1>5, <1>6, <1>7, Zenon

\* A step of the clients, of main or of time: no session sends.
LEMMA WiresPassive ==
  ASSUME Inv, Wires, Stable, UNCHANGED <<out, pc, reply, left, file>>
  PROVE  Wires'
<1>1. ASSUME NEW j \in Conns, NEW d \in Conns PROVE Same(j, d)
  <2>1. ASSUME NEW u \in Threads
        PROVE  (Sending(d, u, j)' <=> Sending(d, u, j)) /\ What(d, u)' = What(d, u)
    BY Zenon DEF Sending, InFrame, What
  <2> QED
    BY <2>1, Zenon DEF Same
<1>2. Accepted'
  BY AcceptedKept, Zenon DEF Wires
<1> QED
  BY <1>1, <1>2, UnfinishedSame, WiresKept, Zenon

\* A step of a thread that is not in send().
LEMMA WiresQuiet ==
  ASSUME Inv, Wires, Stable, out' = out, NEW c \in Conns, NEW t \in Threads, NEW l \in PCs(t),
         Goto(c, t, l), pc[c][t] \notin {"insend", "partial"}, l \notin {"insend", "partial"},
         \A d \in Conns : \A u \in Threads : ~(d = c /\ u = t) => left'[d][u] = left[d][u],
         \A d \in Conns : \A u \in Threads :
           \/ file'[d][u] = file[d][u]
           \/ d = c /\ u = t /\ file'[d][u] = NoConn,
         \A d \in Conns : ~(d = c /\ t = "recv") => reply'[d] = reply[d]
  PROVE  Wires'
<1>1. \A d \in Conns : \A u \in Threads :
        pc'[d][u] = IF d = c /\ u = t THEN l ELSE pc[d][u]
  <2>1. PcOK
    BY Zenon DEF Inv, TypeOK, PcOK
  <2> QED
    BY <2>1, GotoEffect
<1>2. OthersKeep(c, t)
  BY <1>1, Zenon DEF OthersKeep
<1>3. ASSUME NEW j \in Conns, NEW d \in Conns PROVE Same(j, d)
  <2>1. ASSUME NEW u \in Threads
        PROVE  /\ Sending(d, u, j)' <=> Sending(d, u, j)
               /\ Sending(d, u, j) => left'[d][u] = left[d][u] /\ What(d, u)' = What(d, u)
    <3>1. CASE d = c /\ u = t
      <4>1. pc'[d][u] = l /\ pc[d][u] = pc[c][t]
        BY <1>1, <3>1, Zenon
      <4>2. ~Sending(d, u, j) /\ ~Sending(d, u, j)'
        BY <4>1, Zenon DEF Sending
      <4> QED
        BY <4>2, Zenon
    <3>2. CASE ~(d = c /\ u = t)
      <4>1. /\ Sending(d, u, j)' <=> Sending(d, u, j)
            /\ left'[d][u] = left[d][u] /\ What(d, u)' = What(d, u)
        BY <1>2, <3>2, OthersSend
      <4> QED
        BY <4>1, Zenon
    <3> QED
      BY <3>1, <3>2, Zenon
  <2> QED
    BY <2>1, Zenon DEF Same
<1>4. Accepted'
  <2>1. \A d \in Conns : \A u \in Threads :
          \/ file'[d][u] = file[d][u] /\ pc'[d][u] = pc[d][u]
          \/ file'[d][u] \in {file[d][u], NoConn} /\ pc'[d][u] \notin {"insend", "partial"}
    <3> TAKE d \in Conns
    <3> TAKE u \in Threads
    <3>1. CASE d = c /\ u = t
      BY <1>1, <3>1, Zenon
    <3>2. CASE ~(d = c /\ u = t)
      BY <1>1, <3>2, Zenon
    <3> QED
      BY <3>1, <3>2, Zenon
  <2> QED
    BY <2>1, AcceptedKept, Zenon DEF Wires
<1> QED
  BY <1>3, <1>4, UnfinishedSame, WiresKept, Zenon

\* What the kernel knows of a connection is kept by every step,
Settled ==
  \A k \in Conns :
    /\ Broken(k) => Broken(k)'
    /\ Gone(k) => Gone(k)'
    /\ clientSock[k] # INVALID_SOCKET => clientSock'[k] # INVALID_SOCKET

LEMMA SettledStep ==
  ASSUME Inv, [Next]_vars
  PROVE  Settled
<1> USE DEF procVars, sessVars, netVars
<1>0. CASE UNCHANGED <<fds, clientSock, peer, shut>>
  BY <1>0, Zenon DEF Settled, Broken, Gone
<1>1. ASSUME UNCHANGED <<fds, clientSock>>, \A k \in Conns : Broken(k) => Broken(k)'
      PROVE  Settled
  BY <1>1, Zenon DEF Settled, Gone
<1>2. ASSUME UNCHANGED <<clientSock, peer, shut>>,
             NEW f, fds' = [fds EXCEPT ![f] = NoConn]
      PROVE  Settled
  <2>1. fds \in [FDs -> Conns \cup {NoConn}]
    BY Zenon DEF Inv, TypeOK
  <2>2. \A g \in FDs : \A k \in Conns : fds'[g] = k => fds[g] = k
    BY <1>2, <2>1, ConnAssumption, Zenon
  <2> QED
    BY <1>2, <2>2, Zenon DEF Settled, Broken, Gone
<1>3. CASE Tick \/ UNCHANGED vars
  BY <1>0, <1>3, Zenon DEF Tick, vars
<1>4. ASSUME NEW c \in Conns, Peers(c) PROVE Settled
  <2>1. CASE PeerRequest(c) \/ PeerSend(c) \/ PeerRead(c)
    BY <1>0, <2>1, Zenon DEF PeerRequest, PeerSend, PeerRead
  <2>2. CASE PeerConnect(c) \/ PeerClose(c) \/ PeerReset(c)
    <3>1. /\ UNCHANGED <<fds, clientSock, shut>> /\ peer[c] # "rst"
          /\ \E x : peer' = [peer EXCEPT ![c] = x]
      BY <2>2, Zenon DEF PeerConnect, PeerClose, PeerReset
    <3>2. \A k \in Conns : Broken(k) => Broken(k)'
      BY <3>1, Zenon DEF Broken, Inv, TypeOK
    <3> QED
      BY <1>1, <3>1, <3>2, Zenon
  <2> QED
    BY <1>4, <2>1, <2>2, Zenon DEF Peers
<1>5. ASSUME NEW c \in Conns, Main(c) PROVE Settled
  <2>1. CASE Accept(c)
    <3>1. PICK f \in FDs : /\ fds' = [fds EXCEPT ![f] = c]
                           /\ clientSock' = [clientSock EXCEPT ![c] = f]
      BY <2>1, Zenon DEF Accept
    <3>2. clientSock[c] = INVALID_SOCKET /\ UNCHANGED <<peer, shut>>
      BY <2>1, Zenon DEF Accept
    <3>3. /\ \A g \in FDs : fds'[g] = IF g = f THEN c ELSE fds[g]
          /\ \A k \in Conns : clientSock'[k] = IF k = c THEN f ELSE clientSock[k]
      BY <3>1, Zenon DEF Inv, TypeOK
    <3>4. \A k \in Conns : clientSock[k] # INVALID_SOCKET => clientSock'[k] = clientSock[k]
      BY <3>2, <3>3, Zenon
    <3>5. \A k \in Conns : Gone(k) => Gone(k)'
      BY <3>2, <3>3, <3>4, Zenon DEF Gone
    <3>6. \A k \in Conns : Broken(k) => Broken(k)'
      BY <3>2, Zenon DEF Broken
    <3> QED
      BY <3>4, <3>5, <3>6, Zenon DEF Settled
  <2>2. CASE CloseRefused(c)
    BY <1>2, <2>2, Zenon DEF CloseRefused
  <2>3. CASE ReadRequest(c) \/ Respond(c)
    BY <1>0, <2>2, <2>3, Zenon DEF ReadRequest, Respond
  <2> QED
    BY <1>5, <2>1, <2>3, Zenon DEF Main
<1>6. ASSUME NEW c \in Conns, RecvThread(c) PROVE Settled
  <2>1. CASE Close(c)
    BY <1>2, <2>1, Zenon DEF Close
  <2>2. CASE Loop(c) \/ Eof(c) \/ Receive(c) \/ Drop(c) \/ Cleanup(c) \/ Join(c)
    <3>1. UNCHANGED <<fds, clientSock, peer, shut>>
      BY <2>2, Zenon DEF Loop, Eof, Receive, Drop, Cleanup, Join
    <3> QED
      BY <1>0, <3>1, Zenon
  <2> QED
    BY <1>6, <2>1, <2>2, Zenon DEF RecvThread
<1>7. ASSUME NEW c \in Conns, TimeoutThread(c) PROVE Settled
  <2>1. CASE CheckTimeout(c) \/ Expire(c)
    BY <1>0, <2>1, Zenon DEF CheckTimeout, Expire
  <2>2. CASE Shutdown(c)
    <3>1. /\ UNCHANGED <<fds, clientSock, peer>>
          /\ shut' = shut \/ \E k : shut' = [shut EXCEPT ![k] = TRUE]
      BY <2>2, Zenon DEF Shutdown
    <3>2. \A k \in Conns : shut[k] => shut'[k]
      BY <3>1, Zenon DEF Inv, TypeOK
    <3> QED
      BY <1>1, <3>1, <3>2, Zenon DEF Broken
  <2> QED
    BY <1>7, <2>1, <2>2, Zenon DEF TimeoutThread
<1>8. ASSUME NEW c \in Conns, NEW t \in Threads, Thread(c, t) PROVE Settled
  <2>1. UNCHANGED <<fds, clientSock, peer, shut>>
    BY <1>8, Zenon DEF Thread, Send, LockAndTest, CallSend, CopyPart, SendError, Wake, Fail
  <2> QED
    BY <1>0, <2>1, Zenon
<1> QED
  BY <1>3, <1>4, <1>5, <1>6, <1>7, <1>8, Zenon DEF Next

\* and a session that has started stays started.
LEMMA StartedStep ==
  ASSUME Inv, [Next]_vars, NEW k \in Conns, pc[k]["recv"] # "off"
  PROVE  pc'[k]["recv"] # "off"
<1> USE DEF procVars, sessVars, netVars
<1>0. PcOK /\ "recv" \in Threads
  BY ThreadFacts, Zenon DEF Inv, TypeOK, PcOK
<1>1. ASSUME NEW c \in Conns, NEW t \in Threads, NEW l, l # "off", Goto(c, t, l)
      PROVE  pc'[k]["recv"] # "off"
  BY <1>0, <1>1, Zenon DEF Goto, PcOK
<1>2. CASE pc' = pc
  BY <1>2, Zenon
<1>3. CASE Tick \/ UNCHANGED vars
  BY <1>2, <1>3, Zenon DEF Tick, vars
<1>4. ASSUME NEW c \in Conns, Peers(c) PROVE pc'[k]["recv"] # "off"
  BY <1>2, <1>4, Zenon DEF Peers, PeerConnect, PeerRequest, PeerSend, PeerRead, PeerClose, PeerReset
<1>5. ASSUME NEW c \in Conns, Main(c) PROVE pc'[k]["recv"] # "off"
  <2>1. \/ pc' = pc
        \/ pc' = [pc EXCEPT ![c] = [t \in Threads |-> IF t = "recv" THEN "loop" ELSE "sleep"]]
    BY <1>5, Zenon DEF Main, Accept, ReadRequest, Respond, CloseRefused
  <2> QED
    BY <1>0, <2>1, Zenon DEF PcOK
<1>6. ASSUME NEW c \in Conns, RecvThread(c) PROVE pc'[k]["recv"] # "off"
  <2>1. \E l : l # "off" /\ Goto(c, "recv", l)
    BY <1>6, Zenon DEF RecvThread, Loop, Eof, Receive, Drop, Cleanup, Close, Join
  <2> QED
    BY <1>0, <1>1, <2>1, Zenon
<1>7. ASSUME NEW c \in Conns, TimeoutThread(c) PROVE pc'[k]["recv"] # "off"
  <2>1. \E l : l # "off" /\ Goto(c, "timeout", l)
    BY <1>7, Zenon DEF TimeoutThread, CheckTimeout, Expire, Shutdown
  <2> QED
    BY <1>1, <2>1, ThreadFacts, Zenon
<1>8. ASSUME NEW c \in Conns, NEW t \in Threads, Thread(c, t) PROVE pc'[k]["recv"] # "off"
  <2>1. \A ok : AfterSend(c, t, ok) # "off"
    BY Zenon DEF AfterSend
  <2>2. CASE \E ok : SendReturns(c, t, ok)
    BY <1>1, <2>1, <2>2, Zenon DEF SendReturns
  <2>3. CASE Wake(c, t) \/ Fail(c, t)
    BY <1>1, <2>3, Zenon DEF Wake, Fail
  <2>4. CASE LockAndTest(c, t)
    BY <1>1, <2>2, <2>4, Zenon DEF LockAndTest
  <2>5. CASE CallSend(c, t)
    BY <1>1, <2>2, <2>5, Zenon DEF CallSend
  <2>6. CASE CopyPart(c, t)
    BY <1>1, <2>2, <2>6, Zenon DEF CopyPart
  <2>7. CASE SendError(c, t)
    BY <1>1, <1>2, <2>2, <2>7, Zenon DEF SendError
  <2> QED
    BY <1>8, <2>3, <2>4, <2>5, <2>6, <2>7, Zenon DEF Thread, Send
<1> QED
  BY <1>3, <1>4, <1>5, <1>6, <1>7, <1>8, Zenon DEF Next

LEMMA StableStep ==
  ASSUME Inv, [Next]_vars
  PROVE  Stable
BY SettledStep, StartedStep, Zenon DEF Settled, Stable

\* The 101 response is its session's first part.
LEMMA WiresRespond ==
  ASSUME Inv, Wires, Stable, NEW c \in Conns, Respond(c)
  PROVE  Wires'
<1> USE DEF procVars, sessVars, netVars
<1>1. CASE Broken(c)
  <2>1. UNCHANGED <<out, pc, reply, left, file>>
    BY <1>1, Zenon DEF Respond, CloseRefused
  <2> QED
    BY <2>1, WiresPassive, Zenon
<1>2. CASE ~Broken(c)
  <2> DEFINE p == [by |-> c, what |-> "HTTP_101", last |-> TRUE]
  <2>1. /\ mainConn = c /\ out' = [out EXCEPT ![c] = Append(@, p)]
        /\ pc' = [pc EXCEPT ![c] = [t \in Threads |-> IF t = "recv" THEN "loop" ELSE "sleep"]]
        /\ UNCHANGED <<reply, left, file>>
    BY <1>2, Zenon DEF Respond
  <2>2. p \in Parts /\ p.by = c /\ p.last /\ p.what \notin ControlKinds
    BY DEF Parts, ControlKinds, ControlAnswer
  <2> HIDE DEF p
  <2>3. \A d \in Conns : \A t \in Threads :
          pc'[d][t] = IF d # c THEN pc[d][t] ELSE IF t = "recv" THEN "loop" ELSE "sleep"
    BY <2>1, Zenon DEF Inv, TypeOK
  <2>4. \A t \in Threads : pc[c][t] = "off"
    BY <2>1, Zenon DEF Inv, Started
  <2>5. ASSUME NEW j \in Conns, NEW d \in Conns PROVE Same(j, d)
    <3>1. CASE d = c
      <4>1. \A t \in Threads : pc'[d][t] \notin {"insend", "partial"}
                               /\ pc[d][t] \notin {"insend", "partial"}
        BY <2>3, <2>4, <3>1, Zenon
      <4> QED
        BY <4>1, Zenon DEF Same, Sending
    <3>2. CASE d # c
      <4>1. \A t \in Threads : pc'[d][t] = pc[d][t]
        BY <2>3, <3>2, Zenon
      <4> QED
        BY <2>1, <4>1, Zenon DEF Same, Sending, InFrame, What
    <3> QED
      BY <3>1, <3>2, Zenon
  <2>6. Accepted'
    <3>1. \A d \in Conns : \A t \in Threads :
            \/ file'[d][t] = file[d][t] /\ pc'[d][t] = pc[d][t]
            \/ file'[d][t] \in {file[d][t], NoConn} /\ pc'[d][t] \notin {"insend", "partial"}
      BY <2>1, <2>3
    <3> QED
      BY <3>1, AcceptedKept, Zenon DEF Wires
  <2>7. \A i \in 1..Len(out[c]) : ~LastBinary(c, c, i)
    BY <2>4, ThreadFacts, Zenon DEF Wires, Origin, LastBinary
  <2>8. pc'[c]["recv"] # "off"
    BY <2>3, ThreadFacts, Zenon
  <2>9. \A j, d \in Conns : \A w : Unfinished(j, d, w) => Unfinished(j, d, w)'
    BY <2>5, UnfinishedSame, Zenon
  <2> QED
    BY <2>1, <2>2, <2>6, <2>7, <2>8, <2>9, WiresAppend, Zenon
<1> QED
  BY <1>1, <1>2, Zenon

\* The send() call begins on a connection that has a descriptor.
LEMMA WiresCall ==
  ASSUME Inv, Wires, Stable, NEW c \in Conns, NEW t \in Threads, NEW k \in Conns,
         pc[c][t] = "send", k = fds[clientSock[c]],
         file' = [file EXCEPT ![c][t] = k], Goto(c, t, "insend"),
         UNCHANGED <<left, reply, fds, clientSock, out>>
  PROVE  Wires'
<1>1. \A d \in Conns : \A u \in Threads :
        /\ pc'[d][u] = IF d = c /\ u = t THEN "insend" ELSE pc[d][u]
        /\ file'[d][u] = IF d = c /\ u = t THEN k ELSE file[d][u]
  BY Zenon DEF Goto, Inv, TypeOK
<1>2. OthersKeep(c, t)
  BY <1>1 DEF OthersKeep
<1>3. clientSock[c] \in FDs
  BY ThreadFacts, Zenon DEF Inv, Started
<1>4. ~Gone(k) /\ clientSock[k] = clientSock[c] /\ clientSock[k] # INVALID_SOCKET
  BY <1>3, FDAssumption DEF Gone, Inv, Descriptors
<1>5. ASSUME NEW j \in Conns PROVE OwnGoesOn(c, t, j)
  <2>1. ~Sending(c, t, j)
    BY Zenon DEF Sending
  <2>2. Sending(c, t, j)' => j = k
    BY <1>1, Zenon DEF Sending
  <2> QED
    BY <1>4, <2>1, <2>2, Zenon DEF OwnGoesOn
<1>6. Accepted'
  <2> SUFFICES ASSUME NEW d \in Conns, NEW u \in Threads
               PROVE  /\ file'[d][u] # NoConn => clientSock[file'[d][u]] # INVALID_SOCKET
                      /\ pc'[d][u] \in {"insend", "partial"} => file'[d][u] # NoConn
    BY Zenon DEF Accepted
  <2>1. CASE d = c /\ u = t
    <3>1. file'[d][u] = k
      BY <1>1, <2>1, Zenon
    <3> QED
      BY <1>4, <3>1, ConnAssumption, Zenon
  <2>2. CASE ~(d = c /\ u = t)
    <3>1. file'[d][u] = file[d][u] /\ pc'[d][u] = pc[d][u]
      BY <1>1, <2>2
    <3> QED
      BY <3>1, Zenon DEF Wires, Accepted
  <2> QED
    BY <2>1, <2>2, Zenon
<1> QED
  BY <1>2, <1>5, <1>6, UnfinishedKept, WiresKept, Zenon

\* A send() that fails gives up a frame only with its connection.
LEMMA WiresError ==
  ASSUME Inv, Wires, Stable, NEW c \in Conns, NEW t \in Threads, NEW l \in PCs(t),
         Goto(c, t, l), pc[c][t] \in {"insend", "partial"}, l \notin {"insend", "partial"},
         Broken(file[c][t]) \/ \A f \in FDs : fds[f] # file[c][t],
         \A d \in Conns : \A u \in Threads : ~(d = c /\ u = t) => left'[d][u] = left[d][u],
         file' = [file EXCEPT ![c][t] = NoConn], UNCHANGED <<reply, out>>
  PROVE  Wires'
<1>1. \A d \in Conns : \A u \in Threads :
        /\ pc'[d][u] = IF d = c /\ u = t THEN l ELSE pc[d][u]
        /\ file'[d][u] = IF d = c /\ u = t THEN NoConn ELSE file[d][u]
  BY DEF Goto, Inv, TypeOK
<1>2. OthersKeep(c, t)
  BY <1>1 DEF OthersKeep
<1>3. ASSUME NEW j \in Conns PROVE OwnGoesOn(c, t, j)
  <2>1. ~Sending(c, t, j)'
    <3>1. pc'[c][t] = l
      BY <1>1, Zenon
    <3> QED
      BY <3>1, Zenon DEF Sending
  <2>2. ASSUME Sending(c, t, j) PROVE Broken(j)' \/ Gone(j)'
    <3>1. file[c][t] = j /\ j # NoConn /\ clientSock[j] # INVALID_SOCKET
      BY <2>2, ConnAssumption, Zenon DEF Sending, Wires, Accepted
    <3>2. Broken(j) \/ Gone(j)
      BY <3>1, Zenon DEF Gone
    <3> QED
      BY <3>2, Zenon DEF Stable
  <2> QED
    BY <2>1, <2>2, Zenon DEF OwnGoesOn
<1>4. Accepted'
  <2>1. \A d \in Conns : \A u \in Threads :
          \/ file'[d][u] = file[d][u] /\ pc'[d][u] = pc[d][u]
          \/ file'[d][u] \in {file[d][u], NoConn} /\ pc'[d][u] \notin {"insend", "partial"}
    BY <1>1
  <2> QED
    BY <2>1, AcceptedKept, Zenon DEF Wires
<1> QED
  BY <1>2, <1>3, <1>4, UnfinishedKept, WiresKept, Zenon

\* What a thread in send() writes is a part.
LEMMA PartType ==
  ASSUME Inv, NEW c \in Conns, NEW t \in Threads, pc[c][t] \in SendPCs
  PROVE  /\ [by |-> c, what |-> What(c, t), last |-> left[c][t] = 1] \in Parts
         /\ t # "recv" => What(c, t) \notin ControlKinds
<1>1. t \in Tasks \/ t = "recv"
  <2>1. pc[c][t] \in PCs(t)
    BY Zenon DEF Inv, TypeOK
  <2> QED
    BY <2>1, ThreadFacts, PcFacts, Zenon DEF SendPCs
<1>2. CASE t = "recv"
  <2>1. reply[c] \in AnswerKinds \cup ControlKinds
    BY <1>2, Zenon DEF Inv, TypeOK, Answering
  <2> QED
    BY <1>2, <2>1, Zenon DEF What, Parts
<1>3. CASE t \in Tasks
  <2>1. What(c, t) = t /\ t # "recv"
    BY <1>3, ThreadFacts, Zenon DEF What
  <2>2. t \notin ControlKinds
    BY <1>3, TaskAssumption DEF AllTasks, ControlKinds, ControlAnswer
  <2> QED
    BY <1>3, <2>1, <2>2, Zenon DEF Parts
<1> QED
  BY <1>1, <1>2, <1>3, Zenon

\* A part that send() copies: of a control frame, the first of a binary frame,
\* which finds no frame of its session unfinished, or the last of the one that is.
LEMMA WiresCopy ==
  ASSUME Inv, Wires, Stable, NEW c \in Conns, NEW t \in Threads, CopyPart(c, t)
  PROVE  Wires'
<1>0. PICK k \in Conns : k = file[c][t]
  <2>1. file[c][t] \in Conns \cup {NoConn} /\ file[c][t] # NoConn
    BY DEF CopyPart, Inv, TypeOK, Wires, Accepted
  <2> QED
    BY <2>1, Zenon
<1>1. pc[c][t] \in {"insend", "partial"} /\ ~Broken(k) /\ UNCHANGED reply
  BY <1>0, Zenon DEF CopyPart
<1>2. PICK p \in Parts : p = [by |-> c, what |-> What(c, t), last |-> left[c][t] = 1]
  BY <1>1, PartType, Zenon DEF SendPCs
<1>3. /\ t # "recv" => What(c, t) \notin ControlKinds
      /\ out' = [out EXCEPT ![k] = Append(@, p)]
  BY <1>0, <1>1, <1>2, PartType, Zenon DEF SendPCs, CopyPart, What
<1>4. p.by = c /\ p.what = What(c, t) /\ p.last = (left[c][t] = 1)
  BY <1>2, Zenon
<1>5. \/ /\ left[c][t] = 1 /\ pc'[c][t] \notin {"off", "insend", "partial"}
         /\ file'[c][t] = NoConn
      \/ /\ left[c][t] = 2 /\ left'[c][t] = 1 /\ pc'[c][t] = "partial" /\ file'[c][t] = k
  <2>1. CASE left[c][t] = 1 /\ SendReturns(c, t, TRUE)
    <3>1. AfterSend(c, t, TRUE) \notin {"off", "insend", "partial"}
      BY Zenon DEF AfterSend
    <3>2. pc'[c][t] = AfterSend(c, t, TRUE) /\ file'[c][t] = NoConn
      BY <2>1, Zenon DEF SendReturns, Goto, Inv, TypeOK
    <3> QED
      BY <2>1, <3>1, <3>2, Zenon
  <2>2. CASE /\ left[c][t] > 1 /\ left' = [left EXCEPT ![c][t] = @ - 1]
             /\ Goto(c, t, "partial") /\ UNCHANGED file
    <3>1. left[c][t] = 2
      <4>1. left[c][t] \in 0..FrameParts
        BY DEF Inv, TypeOK
      <4> QED
        BY <2>2, <4>1
    <3> QED
      BY <1>0, <2>2, <3>1 DEF Goto, Inv, TypeOK
  <2> QED
    BY <2>1, <2>2, Zenon DEF CopyPart
<1>6. OthersKeep(c, t)
  <2>1. \/ SendReturns(c, t, TRUE)
        \/ left' = [left EXCEPT ![c][t] = @ - 1] /\ Goto(c, t, "partial") /\ UNCHANGED file
    BY Zenon DEF CopyPart
  <2>2. \E l : pc' = [pc EXCEPT ![c][t] = l]
    BY <2>1, Zenon DEF SendReturns, Goto
  <2>3. (\E x : left' = [left EXCEPT ![c][t] = x]) /\ \E x : \/ file' = file
                                                             \/ file' = [file EXCEPT ![c][t] = x]
    BY <2>1, Zenon DEF SendReturns
  <2>4. \A d \in Conns : \A u \in Threads : ~(d = c /\ u = t) => pc'[d][u] = pc[d][u]
    BY <2>2 DEF Inv, TypeOK
  <2>5. \A d \in Conns : \A u \in Threads : ~(d = c /\ u = t) => left'[d][u] = left[d][u]
    BY <2>3 DEF Inv, TypeOK
  <2>6. \A d \in Conns : \A u \in Threads : ~(d = c /\ u = t) => file'[d][u] = file[d][u]
    <3>1. PICK x : file' = file \/ file' = [file EXCEPT ![c][t] = x]
      BY <2>3, Zenon
    <3>2. file \in [Conns -> [Threads -> Conns \cup {NoConn}]]
      BY Zenon DEF Inv, TypeOK
    <3> QED
      BY <3>1, <3>2
  <2> QED
    BY <1>1, <2>4, <2>5, <2>6, Zenon DEF OthersKeep
<1>7. ASSUME NEW j \in Conns, NEW d \in Conns, j # k \/ d # c \/ p.what \in ControlKinds
      PROVE  Same(j, d)
  <2>1. ASSUME NEW u \in Threads
        PROVE  /\ Sending(d, u, j)' <=> Sending(d, u, j)
               /\ Sending(d, u, j) => left'[d][u] = left[d][u] /\ What(d, u)' = What(d, u)
    <3>1. CASE d = c /\ u = t
      <4>1. CASE j # k
        <5>1. file[c][t] # j /\ file'[c][t] # j
          BY <1>0, <1>5, <4>1, ConnAssumption, Zenon
        <5> QED
          BY <3>1, <5>1, Zenon DEF Sending
      <4>2. CASE p.what \in ControlKinds
        <5>1. t = "recv" /\ reply[c] \in ControlKinds /\ reply'[c] \in ControlKinds
          BY <1>1, <1>3, <1>4, <4>2, Zenon DEF What
        <5> QED
          BY <3>1, <5>1, Zenon DEF Sending, InFrame
      <4> QED
        BY <1>7, <3>1, <4>1, <4>2, Zenon
    <3>2. CASE ~(d = c /\ u = t)
      <4>1. /\ Sending(d, u, j)' <=> Sending(d, u, j)
            /\ left'[d][u] = left[d][u] /\ What(d, u)' = What(d, u)
        BY <1>6, <3>2, OthersSend
      <4> QED
        BY <4>1, Zenon
    <3> QED
      BY <3>1, <3>2, Zenon
  <2> QED
    BY <2>1, Zenon DEF Same
<1>8. \A j, d \in Conns : \A w :
        j # k \/ d # p.by \/ p.what \in ControlKinds
          => (Unfinished(j, d, w) => Unfinished(j, d, w)')
  BY <1>4, <1>7, UnfinishedSame, Zenon
<1>9. Accepted'
  <2>1. \A d \in Conns : \A u \in Threads :
          \/ file'[d][u] = file[d][u] /\ pc'[d][u] = pc[d][u]
          \/ file'[d][u] \in {file[d][u], NoConn} /\ pc'[d][u] \notin {"insend", "partial"}
          \/ file'[d][u] = file[d][u] /\ pc[d][u] \in {"insend", "partial"}
    <3> TAKE d \in Conns
    <3> TAKE u \in Threads
    <3>1. CASE d = c /\ u = t
      BY <1>0, <1>1, <1>5, <3>1, Zenon
    <3>2. CASE ~(d = c /\ u = t)
      BY <1>6, <3>2, Zenon DEF OthersKeep
    <3> QED
      BY <3>1, <3>2, Zenon
  <2> QED
    BY <2>1, AcceptedKept, Zenon DEF Wires
<1>10. p.what \notin ControlKinds => Sending(c, t, k)
  BY <1>0, <1>1, <1>4, Zenon DEF Sending, InFrame, What, SendPCs
<1>11. ASSUME p.what \notin ControlKinds, ~p.last PROVE Unfinished(k, p.by, p.what)'
  <2>1. left'[c][t] = 1 /\ pc'[c][t] = "partial" /\ file'[c][t] = k
    BY <1>4, <1>5, <1>11, Zenon
  <2>2. What(c, t)' = p.what
    BY <1>1, <1>4, Zenon DEF What
  <2>3. InFrame(c, t)'
    BY <1>1, <1>4, <1>11, <2>1, Zenon DEF InFrame, What, SendPCs
  <2>4. Sending(c, t, k)'
    BY <2>1, <2>3, Zenon DEF Sending
  <2> QED
    BY <1>4, <2>1, <2>2, <2>4, Zenon DEF Unfinished
<1>12. ASSUME p.what \notin ControlKinds, NEW i \in 1..Len(out[k]),
              LastBinary(k, p.by, i), ~out[k][i].last
       PROVE  p.last /\ p.what = out[k][i].what
  <2>1. Unfinished(k, c, out[k][i].what)
    BY <1>4, <1>12, Zenon DEF Wires, OpenFrame
  <2>2. Sending(c, t, k)
    BY <1>10, <1>12, Zenon
  <2>3. PICK u \in Threads : Sending(c, u, k) /\ left[c][u] = 1 /\ What(c, u) = out[k][i].what
    BY <1>1, <2>1, <2>2, Zenon DEF Unfinished
  <2>4. u = t
    BY <2>2, <2>3, Zenon DEF Sending, Inv, MutexHeld
  <2> QED
    BY <1>4, <2>3, <2>4, Zenon
<1>13. pc'[p.by]["recv"] # "off"
  <2>1. pc[c]["recv"] # "off"
    BY <1>1, Zenon DEF Inv, Started
  <2> QED
    BY <1>4, <2>1, Zenon DEF Stable
<1>14. /\ p.what \notin ControlKinds /\ ~p.last => Unfinished(k, p.by, p.what)'
       /\ p.what \notin ControlKinds =>
            \A i \in 1..Len(out[k]) : LastBinary(k, p.by, i) /\ ~out[k][i].last
                                        => p.last /\ p.what = out[k][i].what
  BY <1>11, <1>12, Zenon
<1> QED
  BY <1>3, <1>8, <1>9, <1>13, <1>14, WiresAppend, Zenon

\* Return from a send() or from the test before it.
LEMMA ReturnEffect ==
  ASSUME Inv, NEW c \in Conns, NEW t \in Threads, NEW ok \in BOOLEAN,
         pc[c][t] \in SendPCs \cup {"lock"}, SendReturns(c, t, ok)
  PROVE  /\ \E l \in PCs(t) : Goto(c, t, l) /\ l \notin {"insend", "partial"}
         /\ file' = [file EXCEPT ![c][t] = NoConn]
         /\ \A d \in Conns : \A u \in Threads : ~(d = c /\ u = t) => left'[d][u] = left[d][u]
         /\ \A d \in Conns : \A u \in Threads :
              \/ file'[d][u] = file[d][u]
              \/ d = c /\ u = t /\ file'[d][u] = NoConn
<1>1. AfterSend(c, t, ok) \in PCs(t)
  BY SendReturnsType, Zenon DEF Inv
<1>2. AfterSend(c, t, ok) \notin {"insend", "partial"}
  BY Zenon DEF AfterSend
<1>3. /\ Goto(c, t, AfterSend(c, t, ok)) /\ file' = [file EXCEPT ![c][t] = NoConn]
      /\ left' = [left EXCEPT ![c][t] = 0]
  BY Zenon DEF SendReturns
<1>4. \A d \in Conns : \A u \in Threads : ~(d = c /\ u = t) => left'[d][u] = left[d][u]
  BY <1>3, Zenon DEF Inv, TypeOK
<1>5. \A d \in Conns : \A u \in Threads :
        \/ file'[d][u] = file[d][u]
        \/ d = c /\ u = t /\ file'[d][u] = NoConn
  BY <1>3, Zenon DEF Inv, TypeOK
<1> QED
  BY <1>1, <1>2, <1>3, <1>4, <1>5, Zenon

\* Every step keeps the frames apart.
LEMMA WiresStep ==
  ASSUME Inv, Wires, [Next]_vars
  PROVE  Wires'
<1> USE DEF procVars, sessVars, netVars
<1>0. Stable
  BY StableStep, Zenon
<1>1. CASE UNCHANGED <<out, pc, reply, left, file>>
  BY <1>0, <1>1, WiresPassive, Zenon
<1>2. ASSUME NEW c \in Conns, NEW t \in Threads, NEW l \in PCs(t), Goto(c, t, l),
             pc[c][t] \notin {"insend", "partial"}, l \notin {"insend", "partial"},
             UNCHANGED <<out, left, file, reply>>
      PROVE  Wires'
  BY <1>0, <1>2, WiresQuiet, Zenon
<1>3. CASE Tick \/ UNCHANGED vars
  BY <1>1, <1>3, Zenon DEF Tick, vars
<1>4. ASSUME NEW c \in Conns, Peers(c) PROVE Wires'
  <2>1. CASE PeerRead(c)
    BY <2>1, WiresRead, Zenon
  <2>2. CASE ~PeerRead(c)
    BY <1>1, <1>4, <2>2, Zenon DEF Peers, PeerConnect, PeerRequest, PeerSend, PeerClose, PeerReset
  <2> QED
    BY <2>1, <2>2, Zenon
<1>5. ASSUME NEW c \in Conns, Main(c) PROVE Wires'
  <2>1. CASE Accept(c) \/ ReadRequest(c)
    <3>1. UNCHANGED <<out, pc, reply, left, file>>
      BY <2>1, Zenon DEF Accept, ReadRequest, CloseRefused
    <3> QED
      BY <1>1, <3>1, Zenon
  <2> QED
    BY <1>0, <1>5, <2>1, WiresRespond, Zenon DEF Main
<1>6. ASSUME NEW c \in Conns, RecvThread(c) PROVE Wires'
  <2>0. "recv" \in Threads
    BY ThreadFacts, Zenon
  <2>1. CASE ~Receive(c)
    <3>1. /\ UNCHANGED <<out, left, file, reply>>
          /\ pc[c]["recv"] \in {"loop", "recv", "drop", "cleanup", "close", "join"}
          /\ \E l \in {"recv", "cleanup", "loop", "close", "join", "done"} : Goto(c, "recv", l)
      BY <1>6, <2>1, Zenon DEF RecvThread, Loop, Eof, Drop, Cleanup, Close, Join
    <3>2. \A l \in {"recv", "cleanup", "loop", "close", "join", "done"} :
            l \in PCs("recv") /\ l \notin {"insend", "partial"}
      BY PcFacts, Zenon
    <3> QED
      BY <1>2, <2>0, <3>1, <3>2, Zenon
  <2>2. CASE Receive(c)
    <3>1. /\ UNCHANGED <<out, file>> /\ pc[c]["recv"] = "recv"
          /\ \E x : reply' = [reply EXCEPT ![c] = x]
          /\ left' = left \/ left' = [left EXCEPT ![c]["recv"] = FrameParts]
      BY <2>2, Zenon DEF Receive
    <3>2. PICK l \in {"lock", "send", "cleanup", "recv", "loop"} : Goto(c, "recv", l)
      BY <2>2, Zenon DEF Receive
    <3>3. l \in PCs("recv") /\ l \notin {"insend", "partial"}
      BY PcFacts, Zenon
    <3>4. \A d \in Conns : \A u \in Threads :
            ~(d = c /\ u = "recv") => left'[d][u] = left[d][u]
      BY <3>1 DEF Inv, TypeOK
    <3>5. \A d \in Conns : ~(d = c /\ "recv" = "recv") => reply'[d] = reply[d]
      BY <3>1, Zenon DEF Inv, TypeOK
    <3>6. pc[c]["recv"] \notin {"insend", "partial"}
      BY <3>1, Zenon
    <3> QED
      BY <1>0, <2>0, <3>1, <3>2, <3>3, <3>4, <3>5, <3>6, WiresQuiet, Zenon
  <2> QED
    BY <2>1, <2>2, Zenon
<1>7. ASSUME NEW c \in Conns, TimeoutThread(c) PROVE Wires'
  <2>1. /\ UNCHANGED <<out, left, file, reply>>
        /\ pc[c]["timeout"] \in {"sleep", "expire", "shut"}
        /\ \E l \in {"done", "expire", "shut"} : Goto(c, "timeout", l)
    BY <1>7, Zenon DEF TimeoutThread, CheckTimeout, Expire, Shutdown
  <2>2. \A l \in {"done", "expire", "shut"} :
          l \in PCs("timeout") /\ l \notin {"insend", "partial"}
    BY PcFacts, Zenon
  <2> QED
    BY <1>2, <2>1, <2>2, ThreadFacts, Zenon
<1>8. ASSUME NEW c \in Conns, NEW t \in Threads, Thread(c, t) PROVE Wires'
  <2>0. pc[c][t] \in PCs(t)
    BY Zenon DEF Inv, TypeOK
  <2>1. CASE Wake(c, t) \/ Fail(c, t)
    <3>1. /\ UNCHANGED <<out, left, file, reply>> /\ pc[c][t] \in {"sleep", "fail"}
          /\ \E l \in PCs(t) : Goto(c, t, l) /\ l \notin {"insend", "partial"}
      <4>1. \E l \in {"lock", "done"} : Goto(c, t, l) /\ (l = "lock" => t \in Tasks)
        BY <2>1, Zenon DEF Wake, Fail
      <4>2. "done" \in PCs(t) /\ (t \in Tasks => "lock" \in PCs(t))
        BY ThreadFacts, PcFacts, Zenon
      <4>3. UNCHANGED <<out, left, file, reply>> /\ pc[c][t] \in {"sleep", "fail"}
        BY <2>1, Zenon DEF Wake, Fail
      <4> QED
        BY <4>1, <4>2, <4>3, Zenon
    <3> QED
      BY <1>2, <3>1, Zenon
  <2>2. ASSUME NEW ok \in BOOLEAN, SendReturns(c, t, ok), pc[c][t] \in {"lock", "send"},
               UNCHANGED <<out, reply>>
        PROVE  Wires'
    <3>1. pc[c][t] \in SendPCs \cup {"lock"} /\ pc[c][t] \notin {"insend", "partial"}
      BY <2>2, Zenon DEF SendPCs
    <3>2. PICK l \in PCs(t) : Goto(c, t, l) /\ l \notin {"insend", "partial"}
      BY <2>2, <3>1, ReturnEffect
    <3>3. /\ \A d \in Conns : \A u \in Threads :
               ~(d = c /\ u = t) => left'[d][u] = left[d][u]
          /\ \A d \in Conns : \A u \in Threads :
               \/ file'[d][u] = file[d][u]
               \/ d = c /\ u = t /\ file'[d][u] = NoConn
      BY <2>2, <3>1, ReturnEffect
    <3> QED
      BY <1>0, <2>2, <3>1, <3>2, <3>3, WiresQuiet, Zenon
  <2>3. CASE LockAndTest(c, t)
    <3>1. CASE active[c]
      <4>1. /\ pc[c][t] = "lock" /\ Goto(c, t, "send")
            /\ left' = [left EXCEPT ![c][t] = FrameParts]
            /\ UNCHANGED <<out, file, reply>>
        BY <2>3, <3>1, Zenon DEF LockAndTest
      <4>2. "send" \in PCs(t)
        BY <2>0, <4>1, ThreadFacts, PcFacts
      <4>3. \A d \in Conns : \A u \in Threads : ~(d = c /\ u = t) => left'[d][u] = left[d][u]
        BY <4>1, Zenon DEF Inv, TypeOK
      <4> QED
        BY <1>0, <4>1, <4>2, <4>3, WiresQuiet, Zenon
    <3>2. CASE ~active[c]
      BY <2>2, <2>3, <3>2, Zenon DEF LockAndTest
    <3> QED
      BY <3>1, <3>2, Zenon
  <2>4. CASE CallSend(c, t)
    <3>1. CASE fds[clientSock[c]] = NoConn
      BY <2>2, <2>4, <3>1, Zenon DEF CallSend
    <3>2. CASE fds[clientSock[c]] # NoConn
      <4>1. /\ pc[c][t] = "send" /\ Goto(c, t, "insend")
            /\ file' = [file EXCEPT ![c][t] = fds[clientSock[c]]]
            /\ UNCHANGED <<left, reply, fds, clientSock, out>>
        BY <2>4, <3>2, Zenon DEF CallSend
      <4>2. fds[clientSock[c]] \in Conns
        BY <3>2, <4>1, ThreadFacts DEF Inv, Started, TypeOK
      <4> QED
        BY <1>0, <4>1, <4>2, WiresCall, Zenon
    <3> QED
      BY <3>1, <3>2, Zenon
  <2>5. CASE CopyPart(c, t)
    BY <1>0, <2>5, WiresCopy, Zenon
  <2>6. CASE SendError(c, t)
    <3>1. /\ pc[c][t] \in {"insend", "partial"} /\ UNCHANGED <<reply, out>>
          /\ Broken(file[c][t]) \/ \A f \in FDs : fds[f] # file[c][t]
      BY <2>6, Zenon DEF SendError
    <3>2. CASE /\ Goto(c, t, "send") /\ file' = [file EXCEPT ![c][t] = NoConn]
               /\ UNCHANGED left
      <4>1. "send" \in PCs(t) /\ "send" \notin {"insend", "partial"}
        BY <2>0, <3>1, ThreadFacts, PcFacts
      <4> QED
        BY <1>0, <3>1, <3>2, <4>1, WiresError, Zenon
    <3>3. CASE SendReturns(c, t, FALSE)
      <4>1. pc[c][t] \in SendPCs \cup {"lock"} /\ FALSE \in BOOLEAN
        BY <3>1, Zenon DEF SendPCs
      <4>2. PICK l \in PCs(t) : Goto(c, t, l) /\ l \notin {"insend", "partial"}
        BY <3>3, <4>1, ReturnEffect, Zenon
      <4>3. file' = [file EXCEPT ![c][t] = NoConn] /\ left' = [left EXCEPT ![c][t] = 0]
        BY <3>3, Zenon DEF SendReturns
      <4>4. \A d \in Conns : \A u \in Threads : ~(d = c /\ u = t) => left'[d][u] = left[d][u]
        BY <4>3, Zenon DEF Inv, TypeOK
      <4> QED
        BY <1>0, <3>1, <4>2, <4>3, <4>4, WiresError, Zenon
    <3>4. CASE UNCHANGED <<sendMutex, pc, left, file>>
      BY <1>1, <3>1, <3>4, Zenon
    <3> QED
      BY <2>6, <3>2, <3>3, <3>4, Zenon DEF SendError
  <2> QED
    BY <1>8, <2>1, <2>3, <2>4, <2>5, <2>6, Zenon DEF Thread, Send
<1> QED
  BY <1>3, <1>4, <1>5, <1>6, <1>7, <1>8, Zenon DEF Next

\* sendFrame keeps the binary frames of a session apart, on every connection and
\* with any number of sessions: also where one still writes to the descriptor
\* number of a connection that is closed, and reaches another client with it.
THEOREM WholeFrames == Spec => []BinaryContiguous
<1>1. Init => Wires
  <2>1. ASSUME Init, NEW c \in Conns PROVE 1..Len(out[c]) = {}
    <3>1. out[c] = <<>>
      BY <2>1, Zenon DEF Init
    <3> QED
      BY <3>1
  <2>2. Init => BinaryContiguous /\ OpenFrame /\ Origin
    BY <2>1, Zenon DEF BinaryContiguous, Unmixed, OpenFrame, Origin
  <2>3. Init => Accepted
    BY DEF Init, Accepted
  <2> QED
    BY <2>2, <2>3, Zenon DEF Wires
<1>2. Inv /\ Wires /\ [Next]_vars => Wires'
  BY WiresStep, Zenon
<1>3. Wires => BinaryContiguous
  BY Zenon DEF Wires
<1> QED
  BY Invariance, <1>1, <1>2, <1>3, PTL DEF Spec

-----------------------------------------------------------------------------
(* CppServer implements SessionLifecycle, for a session that shares no     *)
(* descriptor number with another one and a process that EPIPE does not    *)
(* kill: for all inputs, background senders, bounds and time-outs, and     *)
(* whether or not close() wakes a send in progress.                        *)

\* Why a session may be on its way to its end: what each control state, and a
\* socket that was shut down, say about the flag, the client and the answer.
Cause(c) ==
  /\ alive
  /\ peer[c] = "none" => clientSock[c] = INVALID_SOCKET
  /\ shut[c] \/ pc[c]["timeout"] = "shut" => ~active[c]
  /\ pc[c]["recv"] \in {"close", "join", "done"} => ~active[c]
  /\ pc[c]["recv"] = "drop" => reply[c] = "ERR_DECODE"
  /\ \A t \in Threads : pc[c][t] = "fail" => ~active[c] \/ peer[c] = "rst"
  /\ \A t \in Threads : pc[c][t] \in {"insend", "partial"} => file[c][t] = c

\* The receive loop was left.
Left == {"cleanup", "close", "join", "done"}

\* One step of SessionLifecycle, or none, seen from connection c.
PhaseStep(c) ==
  \/ Phase(c)' = Phase(c)
  \/ Phase(c) = "none" /\ Phase(c)' = "connecting"
  \/ Phase(c) = "connecting" /\ Phase(c)' \in {"active", "removed"}
  \/ Phase(c) = "active" /\ Phase(c)' = "ending" /\ Reason(c) # {}
  \/ Phase(c) = "ending" /\ Phase(c)' = "removed"

\* A step of thread t to l that leaves the session as it is, or ends it for a
\* reason.
SessionMove(c, t, l) ==
  /\ l \in PCs(t) /\ Goto(c, t, l)
  /\ pc[c][t] \notin {"off", "done"} /\ l # "off"
  /\ alive' /\ UNCHANGED <<clientSock, mainConn, peer>>
  /\ active'[c] => active[c]
  /\ shut'[c] \/ l = "shut" => shut[c] \/ ~active'[c]
  /\ t # "recv" => reply'[c] = reply[c]
  /\ l = "drop" => reply'[c] = "ERR_DECODE"
  /\ l = "fail" => ~active[c] \/ peer[c] = "rst"
  /\ l \in {"insend", "partial"} => file'[c][t] = c
  /\ \A u \in Threads \ {t} : file'[c][u] = file[c][u]
  /\ ~active'[c] \/ (t = "recv" /\ l \in Left) => Ending(c) \/ Reason(c) # {}
  /\ t = "recv" => /\ pc[c][t] \in Left => l \in Left
                   /\ l \in {"close", "join", "done"} => ~active'[c]
                   /\ l = "done" => pc[c][t] = "join"

\* A session that lives on, and the reasons for its end.
LEMMA LivePhase ==
  ASSUME NEW c \in Conns, peer[c] # "none", peer'[c] # "none", Live(c),
         Live(c)' \/ (pc[c]["recv"] = "join" /\ pc'[c]["recv"] = "done"),
         Ending(c) => Ending(c)', Ending(c)' => Ending(c) \/ Reason(c) # {}
  PROVE  PhaseStep(c)
<1>1. pc[c]["recv"] # "done" /\ (Live(c)' => pc'[c]["recv"] # "done")
  BY DEF Live
<1>2. (Ending(c) => Phase(c) = "ending") /\ (~Ending(c) => Phase(c) = "active")
  BY <1>1 DEF Phase, Ending, Live
<1>3. CASE Live(c)'
  <2>1. (Ending(c)' => Phase(c)' = "ending") /\ (~Ending(c)' => Phase(c)' = "active")
    BY <1>1, <1>3 DEF Phase, Ending, Live
  <2> QED
    BY <1>2, <2>1, Zenon DEF PhaseStep
<1>4. CASE pc[c]["recv"] = "join" /\ pc'[c]["recv"] = "done"
  <2>1. Ending(c) /\ Phase(c)' = "removed"
    BY <1>4 DEF Ending, Phase, Live
  <2> QED
    BY <1>2, <2>1, Zenon DEF PhaseStep
<1> QED
  BY <1>3, <1>4

\* Such a step keeps Cause and is a step of the session life.
LEMMA SessionMoves ==
  ASSUME Inv, NEW c \in Conns, Cause(c), NEW t \in Threads, NEW l, SessionMove(c, t, l)
  PROVE  Cause(c)' /\ PhaseStep(c)
<1>1. PcOK
  BY DEF Inv, TypeOK, PcOK
<1>2. \A u \in Threads : pc'[c][u] = IF u = t THEN l ELSE pc[c][u]
  <2>1. l \in PCs(t) /\ Goto(c, t, l)
    BY DEF SessionMove
  <2> QED
    BY <1>1, <2>1, GotoEffect
<1>3. "recv" \in Threads /\ "timeout" \in Threads
  BY ThreadFacts
<1>4. Live(c)
  <2>1. pc[c][t] # "off" /\ pc[c][t] # "done"
    BY DEF SessionMove
  <2>2. pc[c]["recv"] # "off"
    BY <2>1 DEF Inv, Started
  <2>3. pc[c]["recv"] # "done"
    BY <2>1 DEF Inv, JoinBeforeReturn
  <2> QED
    BY <2>2, <2>3 DEF Live
<1>5. peer[c] # "none"
  <2>1. clientSock[c] \in FDs
    BY <1>4 DEF Inv, Started, Live
  <2>2. clientSock[c] # INVALID_SOCKET
    BY <2>1, FDAssumption DEF INVALID_SOCKET
  <2> QED
    BY <2>2 DEF Cause
<1>6. l = "fail" => ~active'[c] \/ peer'[c] = "rst"
  BY Zenon DEF SessionMove
<1>7. Cause(c)'
  <2>1. alive' /\ (peer'[c] = "none" => clientSock'[c] = INVALID_SOCKET)
    BY <1>5, Zenon DEF SessionMove
  <2>2. shut'[c] \/ pc'[c]["timeout"] = "shut" => ~active'[c]
    BY <1>2, <1>3, Zenon DEF SessionMove, Cause
  <2>3. pc'[c]["recv"] \in {"close", "join", "done"} => ~active'[c]
    BY <1>2, <1>3 DEF SessionMove, Cause
  <2>4. pc'[c]["recv"] = "drop" => reply'[c] = "ERR_DECODE"
    <3>1. CASE t = "recv"
      BY <1>2, <3>1 DEF SessionMove
    <3>2. CASE t # "recv"
      BY <1>2, <1>3, <3>2 DEF SessionMove, Cause
    <3> QED
      BY <3>1, <3>2
  <2>5. ASSUME NEW u \in Threads, pc'[c][u] = "fail" PROVE ~active'[c] \/ peer'[c] = "rst"
    BY <1>2, <1>6, <2>5, Zenon DEF SessionMove, Cause
  <2>6. ASSUME NEW u \in Threads, pc'[c][u] \in {"insend", "partial"} PROVE file'[c][u] = c
    BY <1>2, <2>6, Zenon DEF SessionMove, Cause
  <2> QED
    BY <2>1, <2>2, <2>3, <2>4, <2>5, <2>6, Zenon DEF Cause
<1>8. PhaseStep(c)
  <2>1. Ending(c) => Ending(c)'
    BY <1>2, <1>3, Zenon DEF SessionMove, Ending, Left, Cause
  <2>2. Ending(c)' => Ending(c) \/ Reason(c) # {}
    BY <1>2, <1>3, Zenon DEF SessionMove, Ending, Left
  <2>3. Live(c)' \/ (pc[c]["recv"] = "join" /\ pc'[c]["recv"] = "done")
    BY <1>2, <1>3, <1>4, Zenon DEF SessionMove, Live
  <2>4. peer'[c] # "none"
    BY <1>5, Zenon DEF SessionMove
  <2> QED
    BY <1>4, <1>5, <2>1, <2>2, <2>3, <2>4, LivePhase
<1> QED
  BY <1>7, <1>8

\* What counts as a reason for the end of a session.
LEMMA ReasonFacts ==
  ASSUME NEW c \in Conns,
         \/ peer[c] \in {"fin", "rst"}
         \/ age[c] > Timeout \/ pc[c]["timeout"] = "expire"
         \/ (in[c] # <<>> /\ Head(in[c]) \in Fatal)
         \/ reply[c] \in {"ERR_DECODE", "WS_CLOSE"}
  PROVE  Reason(c) # {}
<1>1. CASE peer[c] \in {"fin", "rst"}
  <2>1. "dropped" \in Reason(c)
    BY <1>1 DEF Reason
  <2> QED
    BY <2>1
<1>2. CASE age[c] > Timeout \/ pc[c]["timeout"] = "expire"
  <2>1. "timeout" \in Reason(c)
    BY <1>2 DEF Reason
  <2> QED
    BY <2>1
<1>3. CASE (in[c] # <<>> /\ Head(in[c]) \in Fatal) \/ reply[c] \in {"ERR_DECODE", "WS_CLOSE"}
  <2>1. "disconnect" \in Reason(c)
    BY <1>3 DEF Reason
  <2> QED
    BY <2>1
<1> QED
  BY <1>1, <1>2, <1>3

\* Without its descriptor a session is already ending.
LEMMA NoDescriptor ==
  ASSUME Inv, NEW c \in Conns, Cause(c), Live(c), fds[clientSock[c]] # c
  PROVE  ~active[c]
<1>1. pc[c]["recv"] = "join"
  BY DEF Inv, Descriptors, Owner
<1> QED
  BY <1>1 DEF Cause

\* A thread that runs belongs to a session that lives.
LEMMA Running ==
  ASSUME Inv, NEW c \in Conns, NEW t \in Threads, pc[c][t] \notin {"off", "done"}
  PROVE  Live(c)
<1>1. pc[c]["recv"] # "off"
  BY DEF Inv, Started
<1>2. pc[c]["recv"] # "done"
  BY DEF Inv, JoinBeforeReturn
<1> QED
  BY <1>1, <1>2 DEF Live

\* The return from a send, which fails only when the flag is down or the client is
\* gone.
LEMMA SendEnds ==
  ASSUME Inv, NEW c \in Conns, Cause(c), NEW t \in Threads, NEW ok \in BOOLEAN,
         pc[c][t] \in SendPCs \cup {"lock"}, SendReturns(c, t, ok),
         ok \/ ~active[c] \/ peer[c] = "rst",
         alive', UNCHANGED <<clientSock, mainConn, peer, active, reply, shut>>
  PROVE  SessionMove(c, t, AfterSend(c, t, ok))
<1> DEFINE l == AfterSend(c, t, ok)
<1>1. l \in PCs(t) /\ Goto(c, t, l)
  BY SendReturnsType, Zenon DEF SendReturns, Inv
<1>2. /\ l = "fail" => ~ok
      /\ l = "drop" => reply[c] = "ERR_DECODE"
      /\ l \in {"sleep", "fail", "recv", "cleanup", "drop", "loop"}
      /\ l = "cleanup" => ~ok \/ reply[c] = "WS_CLOSE"
  BY DEF AfterSend
<1>3. \A u \in Threads \ {t} : file'[c][u] = file[c][u]
  BY DEF SendReturns, Inv, TypeOK
<1>4. l = "cleanup" => Ending(c) \/ Reason(c) # {}
  BY <1>2, ReasonFacts, Zenon DEF Ending
<1>5. pc[c][t] \notin {"off", "done"} \cup Left
  BY DEF SendPCs, Left
<1> HIDE DEF l
<1>6. l \notin {"off", "shut", "insend", "partial", "close", "join", "done"}
      /\ (l \in Left => l = "cleanup")
  BY <1>2 DEF Left
<1>7. ~active'[c] \/ (t = "recv" /\ l \in Left) => Ending(c) \/ Reason(c) # {}
  BY <1>4, <1>6, Zenon DEF Ending
<1>8. SessionMove(c, t, l)
  BY <1>1, <1>2, <1>3, <1>5, <1>6, <1>7, Zenon DEF SessionMove
<1> QED
  BY <1>8 DEF l

\* A step that touches nothing the life of the session is read from, but what the
\* client has sent or done and the time.
LEMMA Quiet ==
  ASSUME NEW c \in Conns, Cause(c),
         UNCHANGED <<alive, clientSock, mainConn, active, pc, reply, file, shut>>,
         peer[c] = "none" <=> peer'[c] = "none", peer[c] = "rst" => peer'[c] = "rst"
  PROVE  Cause(c)' /\ PhaseStep(c)
<1>1. Cause(c)'
  BY Zenon DEF Cause
<1>2. Phase(c)' = Phase(c)
  BY Zenon DEF Phase, Live, Ending
<1> QED
  BY <1>1, <1>2 DEF PhaseStep

\* The clients, the time and the accept loop.
LEMMA OutsideStep ==
  ASSUME NEW c, Conns = {c}, Inv, Cause(c), ~SigPipe, Tick \/ Peers(c) \/ Main(c)
  PROVE  Cause(c)' /\ PhaseStep(c)
<1> USE DEF procVars, sessVars, netVars
<1>0. c \in Conns
  OBVIOUS
<1>1. CASE PeerConnect(c)
  <2>1. /\ peer[c] = "none" /\ peer'[c] = "open"
        /\ UNCHANGED <<alive, clientSock, mainConn, active, pc, reply, file, shut>>
    <3>1. peer \in [Conns -> {"none", "open", "fin", "rst"}]
      BY Zenon DEF Inv, TypeOK
    <3>2. /\ peer[c] = "none" /\ peer' = [peer EXCEPT ![c] = "open"]
          /\ UNCHANGED <<alive, clientSock, mainConn, active, pc, reply, file, shut>>
      BY <1>1, Zenon DEF PeerConnect
    <3> QED
      BY <1>0, <3>1, <3>2, Zenon
  <2>2. clientSock[c] = INVALID_SOCKET /\ clientSock[c] \notin FDs
    BY <2>1, FDAssumption DEF Cause, INVALID_SOCKET
  <2>3. pc[c]["recv"] = "off" /\ \A t \in Threads : pc[c][t] = "off"
    BY <1>0, <2>2 DEF Inv, Started
  <2>4. Cause(c)'
    BY <2>1, <2>3, Zenon DEF Cause
  <2>5. Phase(c) = "none" /\ Phase(c)' = "connecting"
    BY <2>1, <2>2, <2>3 DEF Phase, Live
  <2> QED
    BY <2>4, <2>5 DEF PhaseStep
<1>2. CASE Tick \/ PeerRequest(c) \/ PeerSend(c) \/ PeerRead(c) \/ PeerClose(c) \/ PeerReset(c)
  <2>1. UNCHANGED <<alive, clientSock, mainConn, active, pc, reply, file, shut>>
    BY <1>2, Zenon DEF Tick, PeerRequest, PeerSend, PeerRead, PeerClose, PeerReset
  <2>2. /\ peer[c] = "none" <=> peer'[c] = "none"
        /\ peer[c] = "rst" => peer'[c] = "rst"
    <3>1. CASE peer' = peer
      BY <3>1
    <3>2. CASE PeerClose(c) \/ PeerReset(c)
      BY <1>0, <3>2 DEF PeerClose, PeerReset, Inv, TypeOK
    <3> QED
      BY <1>2, <3>1, <3>2, Zenon DEF Tick, PeerRequest, PeerSend, PeerRead
  <2> QED
    BY <1>0, <2>1, <2>2, Quiet
<1>3. CASE Main(c)
  <2>1. ASSUME mainConn' = c \/ mainConn = c, pc[c]["recv"] = "off", peer[c] # "none",
               UNCHANGED <<alive, active, pc, reply, file, peer, shut>>
        PROVE  Cause(c)'
    BY <2>1, Zenon DEF Cause
  <2>2. CASE Accept(c)
    <3>1. /\ clientSock[c] = INVALID_SOCKET /\ peer[c] # "none" /\ mainConn' = c
          /\ UNCHANGED <<alive, active, pc, reply, file, peer, shut>>
      BY <2>2, Zenon DEF Accept
    <3>2. clientSock[c] \notin FDs
      BY <3>1, FDAssumption DEF INVALID_SOCKET
    <3>3. pc[c]["recv"] = "off"
      BY <1>0, <3>2 DEF Inv, Started
    <3>4. Phase(c) = "connecting" /\ Phase(c)' = "connecting"
      BY <3>1, <3>3 DEF Phase, Live
    <3> QED
      BY <2>1, <3>1, <3>3, <3>4, Zenon DEF PhaseStep
  <2>3. ASSUME mainConn = c PROVE pc[c]["recv"] = "off" /\ peer[c] # "none"
               /\ clientSock[c] # INVALID_SOCKET /\ Phase(c) = "connecting"
    <3>1. pc[c]["recv"] = "off" /\ clientSock[c] \in FDs
      BY <1>0, <2>3 DEF Inv, Started
    <3>2. clientSock[c] # INVALID_SOCKET
      BY <3>1, FDAssumption DEF INVALID_SOCKET
    <3>3. peer[c] # "none"
      BY <3>2 DEF Cause
    <3> QED
      BY <2>3, <3>1, <3>2, <3>3 DEF Phase, Live
  <2>4. ASSUME mainConn = c, CloseRefused(c) PROVE Cause(c)' /\ PhaseStep(c)
    <3>1. mainConn' = NoConn /\ UNCHANGED <<alive, clientSock, active, pc, reply, file, peer, shut>>
      BY <2>4, Zenon DEF CloseRefused
    <3>2. mainConn' # c
      BY <1>0, <3>1, ConnAssumption
    <3>3. Phase(c)' = "removed"
      BY <2>3, <2>4, <3>1, <3>2 DEF Phase, Live
    <3> QED
      BY <2>1, <2>3, <2>4, <3>1, <3>3, Zenon DEF PhaseStep
  <2>5. CASE ReadRequest(c)
    <3>1. CASE CloseRefused(c)
      BY <2>4, <2>5, <3>1, Zenon DEF ReadRequest
    <3>2. CASE UNCHANGED <<alive, fds, mainConn, clientSock, sessVars, out, peer, shut, msgs, age>>
      BY <1>0, <3>2, Quiet
    <3> QED
      BY <2>5, <3>1, <3>2, Zenon DEF ReadRequest
  <2>6. CASE Respond(c)
    <3>1. CASE CloseRefused(c)
      BY <2>4, <2>6, <3>1, Zenon DEF Respond
    <3>2. CASE ~CloseRefused(c)
      <4>1. /\ mainConn = c /\ ~Broken(c) /\ mainConn' = NoConn
            /\ active' = [active EXCEPT ![c] = TRUE]
            /\ pc' = [pc EXCEPT ![c] = [t \in Threads |-> IF t = "recv" THEN "loop" ELSE "sleep"]]
            /\ UNCHANGED <<alive, clientSock, reply, file, peer, shut>>
        BY <2>6, <3>2, Zenon DEF Respond
      <4>2. active'[c] /\ \A t \in Threads : pc'[c][t] = IF t = "recv" THEN "loop" ELSE "sleep"
        BY <1>0, <4>1 DEF Inv, TypeOK
      <4>3. pc'[c]["recv"] = "loop" /\ pc'[c]["timeout"] = "sleep"
        BY <4>2, ThreadFacts
      <4>4. peer[c] # "none" /\ Phase(c) = "connecting"
        BY <2>3, <4>1
      <4>5. Cause(c)'
        <5>1. \A t \in Threads : pc'[c][t] \notin {"fail", "insend", "partial"}
          BY <4>2
        <5> QED
          BY <4>1, <4>3, <4>4, <5>1, Zenon DEF Cause, Broken
      <4>6. Phase(c)' = "active"
        BY <4>1, <4>2, <4>3, <4>4, Zenon DEF Phase, Live, Ending, Cause
      <4> QED
        BY <4>4, <4>5, <4>6 DEF PhaseStep
    <3> QED
      BY <3>1, <3>2
  <2> QED
    BY <1>3, <2>2, <2>5, <2>6 DEF Main
<1> QED
  BY <1>1, <1>2, <1>3 DEF Peers

\* A step that changes no more than the thread's place and the flag, and ends a
\* session only for a reason.
LEMMA Plain ==
  ASSUME Inv, NEW c \in Conns, Cause(c), alive, NEW t \in Threads, NEW l \in PCs(t),
         Goto(c, t, l), pc[c][t] \notin {"off", "done"},
         l \notin {"off", "drop", "fail", "insend", "partial"},
         UNCHANGED <<alive, clientSock, mainConn, peer, reply, file, shut>>,
         active'[c] => active[c],
         l = "shut" => ~active'[c],
         ~active'[c] \/ (t = "recv" /\ l \in Left) => Ending(c) \/ Reason(c) # {},
         t = "recv" => /\ pc[c][t] \in Left => l \in Left
                       /\ l \in {"close", "join", "done"} => ~active'[c]
                       /\ l = "done" => pc[c][t] = "join"
  PROVE  SessionMove(c, t, l)
BY Zenon DEF SessionMove

\* The receive loop and the cleanup.
LEMMA RecvStep ==
  ASSUME Inv, NEW c \in Conns, Cause(c), alive, RecvThread(c)
  PROVE  Cause(c)' /\ PhaseStep(c)
<1> USE DEF procVars, sessVars, netVars
<1>1. "recv" \in Threads
  BY ThreadFacts
<1>2. SUFFICES \E l : SessionMove(c, "recv", l)
  BY <1>1, SessionMoves
<1>3. {"loop", "recv", "lock", "send", "cleanup", "close", "join", "done"} \subseteq PCs("recv")
  BY PcFacts
<1>4. active[c] \in BOOLEAN
  BY DEF Inv, TypeOK
<1>5. CASE Loop(c)
  <2>1. CASE active[c]
    <3>1. /\ pc[c]["recv"] = "loop" /\ Goto(c, "recv", "recv")
          /\ UNCHANGED <<alive, clientSock, mainConn, peer, active, reply, file, shut>>
      BY <1>5, <2>1, Zenon DEF Loop
    <3>2. SessionMove(c, "recv", "recv")
      BY <1>1, <1>3, <2>1, <3>1, Plain DEF Left
    <3> QED
      BY <3>2
  <2>2. CASE ~active[c]
    <3>1. /\ pc[c]["recv"] = "loop" /\ Goto(c, "recv", "cleanup")
          /\ UNCHANGED <<alive, clientSock, mainConn, peer, active, reply, file, shut>>
      BY <1>5, <2>2, Zenon DEF Loop
    <3>2. Ending(c)
      BY <2>2 DEF Ending
    <3>3. SessionMove(c, "recv", "cleanup")
      BY <1>1, <1>3, <2>2, <3>1, <3>2, Plain DEF Left
    <3> QED
      BY <3>3
  <2> QED
    BY <2>1, <2>2
<1>6. CASE Eof(c)
  <2>1. /\ pc[c]["recv"] = "recv" /\ Goto(c, "recv", "cleanup")
        /\ UNCHANGED <<alive, clientSock, mainConn, peer, active, reply, file, shut>>
    BY <1>6, Zenon DEF Eof
  <2>2. Ending(c) \/ Reason(c) # {}
    <3>1. peer[c] \in {"fin", "rst"} \/ shut[c]
      BY <1>6 DEF Eof, NoMoreInput
    <3>2. CASE peer[c] \in {"fin", "rst"}
      BY <3>2, ReasonFacts
    <3>3. CASE shut[c]
      BY <3>3, Zenon DEF Cause, Ending
    <3> QED
      BY <3>1, <3>2, <3>3
  <2>3. SessionMove(c, "recv", "cleanup")
    BY <1>1, <1>3, <1>4, <2>1, <2>2, Plain DEF Left
  <2> QED
    BY <2>3
<1>7. CASE Receive(c)
  <2> DEFINE m == Head(in[c])
  <2>1. /\ pc[c]["recv"] = "recv" /\ in[c] # <<>>
        /\ UNCHANGED <<alive, clientSock, mainConn, peer, file, shut>>
    BY <1>7, Zenon DEF Receive
  <2>2. ASSUME NEW l \in {"lock", "send", "recv", "loop", "cleanup"}, Goto(c, "recv", l),
               active'[c] => active[c],
               ~active'[c] \/ l = "cleanup" => Ending(c) \/ Reason(c) # {}
        PROVE  \E k : SessionMove(c, "recv", k)
    <3>1. l \in PCs("recv")
      BY <1>3, <2>2
    <3>2. l \notin {"off", "shut", "drop", "fail", "insend", "partial", "close", "join", "done"}
          /\ (l \in Left => l = "cleanup") /\ pc[c]["recv"] \notin Left \cup {"off", "done"}
      BY <2>1, <2>2, Zenon DEF Left
    <3>3. shut'[c] => shut[c]
      BY <2>1, Zenon
    <3>4. SessionMove(c, "recv", l)
      BY <2>1, <2>2, <3>1, <3>2, <3>3, Zenon DEF SessionMove
    <3> QED
      BY <3>4
  <2>3. ~active[c] => Ending(c)
    BY DEF Ending
  <2>4. CASE m \in DOMAIN Answer /\ Goto(c, "recv", "lock") /\ active' = active
    BY <2>2, <2>3, <2>4
  <2>5. CASE m \in DOMAIN ControlAnswer /\ Goto(c, "recv", "send") /\ active' = active
    BY <2>2, <2>3, <2>5
  <2>6. CASE /\ active' = [active EXCEPT ![c] = @ /\ m # "DISCONNECT"]
             /\ Goto(c, "recv", CASE m = "INVALID" -> "cleanup"
                                  [] m = "WSPONG" -> "recv"
                                  [] OTHER -> "loop")
    <3>1. active'[c] = (active[c] /\ m # "DISCONNECT")
      BY <2>6 DEF Inv, TypeOK
    <3>2. PICK l \in {"cleanup", "recv", "loop"} :
            Goto(c, "recv", l) /\ (l = "cleanup" => m = "INVALID")
      BY <2>6
    <3>3. m \in {"DISCONNECT", "INVALID"} => Reason(c) # {}
      BY <2>1, ReasonFacts DEF Fatal
    <3>4. ~active'[c] \/ l = "cleanup" => Ending(c) \/ Reason(c) # {}
      BY <2>3, <3>1, <3>2, <3>3, Zenon
    <3>5. active'[c] => active[c]
      BY <3>1, Zenon
    <3> HIDE DEF m
    <3> QED
      BY <2>2, <3>2, <3>4, <3>5
  <2> QED
    BY <1>7, <2>4, <2>5, <2>6, Zenon DEF Receive
<1>8. CASE Drop(c)
  <2>1. /\ pc[c]["recv"] = "drop" /\ Goto(c, "recv", "loop")
        /\ UNCHANGED <<alive, clientSock, mainConn, peer, reply, file, shut>>
    BY <1>8, Zenon DEF Drop
  <2>2. ~active'[c]
    BY <1>8, Zenon DEF Drop, Inv, TypeOK
  <2>3. Reason(c) # {}
    BY <2>1, ReasonFacts, Zenon DEF Cause
  <2>4. SessionMove(c, "recv", "loop")
    BY <1>1, <1>3, <2>1, <2>2, <2>3, Plain, Zenon DEF Left
  <2> QED
    BY <2>4
<1>9. CASE Cleanup(c)
  <2>1. /\ pc[c]["recv"] = "cleanup" /\ Goto(c, "recv", "close")
        /\ UNCHANGED <<alive, clientSock, mainConn, peer, reply, file, shut>>
    BY <1>9, Zenon DEF Cleanup
  <2>2. ~active'[c]
    BY <1>9, Zenon DEF Cleanup, Inv, TypeOK
  <2>3. Ending(c)
    BY <2>1, Zenon DEF Ending
  <2>4. SessionMove(c, "recv", "close")
    BY <1>1, <1>3, <2>1, <2>2, <2>3, Plain, Zenon DEF Left
  <2> QED
    BY <2>4
<1>10. ASSUME pc[c]["recv"] \in {"close", "join"}, NEW l \in {"join", "done"},
              Goto(c, "recv", l), l = "done" => pc[c]["recv"] = "join",
              UNCHANGED <<alive, clientSock, mainConn, peer, active, reply, file, shut>>
       PROVE  SessionMove(c, "recv", l)
  <2>1. ~active[c] /\ Ending(c)
    BY <1>10, Zenon DEF Cause, Ending
  <2>2. /\ l \in PCs("recv") /\ l \in Left
        /\ l \notin {"off", "drop", "fail", "insend", "partial", "shut"}
        /\ pc[c]["recv"] \notin {"off", "done"}
    BY <1>3, <1>10, Zenon DEF Left
  <2> QED
    BY <1>1, <1>10, <2>1, <2>2, Plain, Zenon
<1>11. CASE Close(c)
  <2>1. /\ pc[c]["recv"] = "close" /\ Goto(c, "recv", "join")
        /\ UNCHANGED <<alive, clientSock, mainConn, peer, active, reply, file, shut>>
    BY <1>11, Zenon DEF Close
  <2> QED
    BY <1>10, <2>1, Zenon
<1>12. CASE Join(c)
  <2>1. /\ pc[c]["recv"] = "join" /\ Goto(c, "recv", "done")
        /\ UNCHANGED <<alive, clientSock, mainConn, peer, active, reply, file, shut>>
    BY <1>12, Zenon DEF Join
  <2> QED
    BY <1>10, <2>1, Zenon
<1> QED
  BY <1>5, <1>6, <1>7, <1>8, <1>9, <1>11, <1>12 DEF RecvThread

\* timeoutThread.
LEMMA TimeoutStep ==
  ASSUME Inv, NEW c \in Conns, Cause(c), alive, TimeoutThread(c)
  PROVE  Cause(c)' /\ PhaseStep(c)
<1> USE DEF procVars, sessVars, netVars
<1>1. "timeout" \in Threads
  BY ThreadFacts
<1>2. SUFFICES \E l : SessionMove(c, "timeout", l)
  BY <1>1, SessionMoves
<1>3. {"expire", "shut", "done"} \subseteq PCs("timeout")
  BY PcFacts
<1>4. ~active[c] => Ending(c)
  BY DEF Ending
<1>5. CASE CheckTimeout(c)
  <2>1. PICK l \in {"expire", "done"} : Goto(c, "timeout", l)
    BY <1>5, Zenon DEF CheckTimeout
  <2>2. /\ pc[c]["timeout"] = "sleep"
        /\ UNCHANGED <<alive, clientSock, mainConn, peer, active, reply, file, shut>>
    BY <1>5, Zenon DEF CheckTimeout
  <2>3. SessionMove(c, "timeout", l)
    BY <1>1, <1>3, <1>4, <2>1, <2>2, Plain, Zenon
  <2> QED
    BY <2>3
<1>6. CASE Expire(c)
  <2>1. /\ pc[c]["timeout"] = "expire" /\ Goto(c, "timeout", "shut")
        /\ UNCHANGED <<alive, clientSock, mainConn, peer, reply, file, shut>>
    BY <1>6, Zenon DEF Expire
  <2>2. ~active'[c]
    BY <1>6, Zenon DEF Expire, Inv, TypeOK
  <2>3. Reason(c) # {}
    BY <2>1, ReasonFacts
  <2>4. SessionMove(c, "timeout", "shut")
    BY <1>1, <1>3, <2>1, <2>2, <2>3, Plain, Zenon
  <2> QED
    BY <2>4
<1>7. CASE Shutdown(c)
  <2>1. /\ pc[c]["timeout"] = "shut" /\ Goto(c, "timeout", "done")
        /\ UNCHANGED <<alive, clientSock, mainConn, peer, active, reply, file>>
    BY <1>7, Zenon DEF Shutdown
  <2>2. ~active[c] /\ ~active'[c]
    BY <2>1, Zenon DEF Cause
  <2>3. SessionMove(c, "timeout", "done")
    BY <1>1, <1>3, <1>4, <2>1, <2>2, Zenon DEF SessionMove
  <2> QED
    BY <2>3
<1> QED
  BY <1>5, <1>6, <1>7 DEF TimeoutThread

\* The background senders, and every send.
LEMMA ThreadStep ==
  ASSUME NEW c, Conns = {c}, Inv, Cause(c), alive, ~SigPipe,
         NEW t \in Threads, Thread(c, t)
  PROVE  Cause(c)' /\ PhaseStep(c)
<1> USE DEF procVars, sessVars, netVars
<1>1. c \in Conns
  OBVIOUS
<1>2. SUFFICES \E l : SessionMove(c, t, l)
  BY <1>1, SessionMoves
<1>3. ~active[c] => Ending(c)
  BY Zenon DEF Ending
<1>4. pc[c][t] \in PCs(t)
  BY <1>1, Zenon DEF Inv, TypeOK
<1>5. ASSUME pc[c][t] \in SendPCs \cup {"lock"}
      PROVE  /\ SendPCs \subseteq PCs(t) /\ pc[c][t] \notin {"off", "done"} \cup Left
             /\ Live(c) /\ clientSock[c] \in FDs
  <2>1. t # "timeout"
    BY <1>4, <1>5, PcFacts DEF SendPCs
  <2>2. SendPCs \subseteq PCs(t)
    BY <2>1, ThreadFacts, PcFacts DEF SendPCs
  <2>3. pc[c][t] \notin {"off", "done"} \cup Left
    BY <1>5 DEF SendPCs, Left
  <2>4. Live(c)
    BY <1>1, <2>3, Running
  <2> QED
    BY <1>1, <2>2, <2>3, <2>4, Zenon DEF Live, Inv, Started
<1>6. ASSUME NEW ok \in BOOLEAN, pc[c][t] \in SendPCs \cup {"lock"}, SendReturns(c, t, ok),
             ok \/ ~active[c] \/ peer[c] = "rst",
             alive', UNCHANGED <<clientSock, mainConn, peer, active, reply, shut>>
      PROVE  \E l : SessionMove(c, t, l)
  BY <1>1, <1>6, SendEnds, Zenon
<1>7. ASSUME pc[c][t] \in SendPCs \cup {"lock"}, NEW l \in SendPCs, Goto(c, t, l),
             alive', UNCHANGED <<clientSock, mainConn, peer, active, reply, shut>>,
             l \in {"insend", "partial"} => file'[c][t] = c,
             \A u \in Threads \ {t} : file'[c][u] = file[c][u]
      PROVE  SessionMove(c, t, l)
  <2>1. l \in PCs(t) /\ pc[c][t] \notin {"off", "done"} \cup Left
    BY <1>5, <1>7, Zenon
  <2>2. l \notin {"off", "shut", "drop", "fail", "close", "join", "done"} \cup Left
    BY <1>7, Zenon DEF SendPCs, Left
  <2> QED
    BY <1>3, <1>7, <2>1, <2>2, Zenon DEF SessionMove
<1>8. CASE LockAndTest(c, t)
  <2>1. /\ pc[c][t] = "lock" /\ alive'
        /\ UNCHANGED <<clientSock, mainConn, peer, active, reply, shut>>
    BY <1>8, Zenon DEF LockAndTest
  <2>2. CASE Goto(c, t, "send") /\ file' = file
    <3>1. SessionMove(c, t, "send")
      BY <1>7, <2>1, <2>2, Zenon DEF SendPCs
    <3> QED
      BY <3>1
  <2>3. CASE ~active[c] /\ SendReturns(c, t, FALSE)
    BY <1>6, <2>1, <2>3, Zenon
  <2> QED
    BY <1>8, <2>2, <2>3, Zenon DEF LockAndTest
<1>9. CASE CallSend(c, t)
  <2>1. /\ pc[c][t] = "send" /\ alive'
        /\ UNCHANGED <<clientSock, mainConn, peer, active, reply, shut>>
    BY <1>9, Zenon DEF CallSend
  <2>2. pc[c][t] \in SendPCs
    BY <2>1 DEF SendPCs
  <2>3. CASE fds[clientSock[c]] = NoConn /\ SendReturns(c, t, FALSE)
    <3>1. fds[clientSock[c]] # c
      BY <1>1, <2>3, ConnAssumption
    <3>2. ~active[c]
      BY <1>1, <1>5, <2>2, <3>1, NoDescriptor
    <3> QED
      BY <1>6, <2>1, <2>2, <2>3, <3>2, Zenon
  <2>4. CASE /\ fds[clientSock[c]] # NoConn /\ Goto(c, t, "insend")
             /\ file' = [file EXCEPT ![c][t] = fds[clientSock[c]]]
    <3>1. fds[clientSock[c]] = c
      BY <1>5, <2>2, <2>4 DEF Inv, TypeOK
    <3>2. file'[c][t] = c /\ \A u \in Threads \ {t} : file'[c][u] = file[c][u]
      BY <1>1, <2>4, <3>1 DEF Inv, TypeOK
    <3>3. SessionMove(c, t, "insend")
      BY <1>7, <2>1, <2>2, <2>4, <3>2 DEF SendPCs
    <3> QED
      BY <3>3
  <2> QED
    BY <1>9, <2>3, <2>4, Zenon DEF CallSend
<1>10. CASE CopyPart(c, t)
  <2>1. /\ pc[c][t] \in {"insend", "partial"} /\ alive'
        /\ UNCHANGED <<clientSock, mainConn, peer, active, reply, shut>>
    BY <1>10, Zenon DEF CopyPart
  <2>2. pc[c][t] \in SendPCs /\ file[c][t] = c
    BY <2>1, Zenon DEF SendPCs, Cause
  <2>3. CASE SendReturns(c, t, TRUE)
    BY <1>6, <2>1, <2>2, <2>3, Zenon
  <2>4. CASE Goto(c, t, "partial") /\ file' = file
    <3>1. SessionMove(c, t, "partial")
      BY <1>7, <2>1, <2>2, <2>4, Zenon DEF SendPCs
    <3> QED
      BY <3>1
  <2> QED
    BY <1>10, <2>3, <2>4, Zenon DEF CopyPart
<1>11. CASE SendError(c, t)
  <2>1. /\ pc[c][t] \in {"insend", "partial"} /\ alive'
        /\ UNCHANGED <<clientSock, mainConn, peer, active, reply, shut>>
    BY <1>11, Zenon DEF SendError
  <2>2. pc[c][t] \in SendPCs /\ file[c][t] = c
    BY <2>1, Zenon DEF SendPCs, Cause
  <2>3. ~active[c] \/ peer[c] = "rst"
    <3>1. CASE Broken(c)
      BY <3>1, Zenon DEF Broken, Cause
    <3>2. CASE \A f \in FDs : fds[f] # c
      <4>1. Live(c) /\ fds[clientSock[c]] # c
        BY <1>5, <2>2, <3>2, Zenon
      <4> QED
        BY <1>1, <4>1, NoDescriptor
    <3> QED
      BY <1>11, <2>2, <3>1, <3>2, Zenon DEF SendError
  <2>4. CASE Goto(c, t, "send") /\ file' = [file EXCEPT ![c][t] = NoConn]
    <3>1. \A u \in Threads \ {t} : file'[c][u] = file[c][u]
      BY <1>1, <2>4 DEF Inv, TypeOK
    <3>2. SessionMove(c, t, "send")
      BY <1>7, <2>1, <2>2, <2>4, <3>1 DEF SendPCs
    <3> QED
      BY <3>2
  <2>5. CASE SendReturns(c, t, FALSE)
    BY <1>6, <2>1, <2>2, <2>3, <2>5, Zenon
  <2> QED
    BY <1>11, <2>4, <2>5, Zenon DEF SendError
<1>12. CASE Wake(c, t)
  <2>1. /\ t \in Tasks /\ pc[c][t] = "sleep"
        /\ UNCHANGED <<alive, clientSock, mainConn, peer, active, reply, file, shut>>
    BY <1>12, Zenon DEF Wake
  <2>2. PICK l \in {"lock", "done"} : Goto(c, t, l)
    BY <1>12, Zenon DEF Wake
  <2>3. t # "recv" /\ l \in PCs(t)
    BY <2>1, <2>2, ThreadFacts, PcFacts
  <2>4. SessionMove(c, t, l)
    BY <1>1, <1>3, <2>1, <2>2, <2>3, Plain, Zenon
  <2> QED
    BY <2>4
<1>13. CASE Fail(c, t)
  <2>1. /\ pc[c][t] = "fail" /\ Goto(c, t, "done")
        /\ UNCHANGED <<alive, clientSock, mainConn, peer, reply, file, shut>>
    BY <1>13, Zenon DEF Fail
  <2>2. ~active'[c]
    BY <1>1, <1>13 DEF Fail, Inv, TypeOK
  <2>3. t # "recv" /\ "done" \in PCs(t)
    BY <1>4, <2>1, ThreadFacts, PcFacts, Zenon
  <2>4. Ending(c) \/ Reason(c) # {}
    <3>1. ~active[c] \/ peer[c] = "rst"
      BY <2>1 DEF Cause
    <3> QED
      BY <1>1, <1>3, <3>1, ReasonFacts, Zenon
  <2>5. SessionMove(c, t, "done")
    BY <1>1, <2>1, <2>2, <2>3, <2>4, Plain, Zenon
  <2> QED
    BY <2>5
<1> QED
  BY <1>8, <1>9, <1>10, <1>11, <1>12, <1>13 DEF Thread, Send

\* Where it all begins.
LEMMA InitCause ==
  ASSUME NEW c \in Conns, Init
  PROVE  Cause(c) /\ Phase(c) = "none" /\ Reason(c) = {}
<1>1. /\ alive /\ peer[c] = "none" /\ clientSock[c] = INVALID_SOCKET /\ ~active[c]
      /\ in[c] = <<>> /\ reply[c] = "none" /\ age[c] = 0
      /\ \A t \in Threads : pc[c][t] = "off"
  BY DEF Init
<1>2. Cause(c)
  BY <1>1, ThreadFacts DEF Cause
<1>3. Phase(c) = "none"
  BY <1>1 DEF Phase
<1>4. ~(age[c] > Timeout) /\ pc[c]["timeout"] # "expire"
  BY <1>1, ThreadFacts, BoundAssumption
<1>5. Reason(c) = {}
  <2>1. "dropped" \notin Reason(c)
    BY <1>1 DEF Reason
  <2>2. "timeout" \notin Reason(c)
    BY <1>4 DEF Reason
  <2>3. "disconnect" \notin Reason(c)
    BY <1>1 DEF Reason
  <2>4. Reason(c) \subseteq {"timeout", "disconnect", "dropped"}
    BY Zenon DEF Reason
  <2> QED
    BY <2>1, <2>2, <2>3, <2>4
<1> QED
  BY <1>2, <1>3, <1>5

\* handleClient implements the session life, whatever the client sends, however
\* many threads send to it and whenever they are scheduled: a session is
\* established once, ends only for a time-out, a message that ends it or a lost
\* connection, and is then removed once, for a connection that shares the
\* process with no other and a process EPIPE does not kill.
THEOREM Refinement ==
  ASSUME NEW only, Conns = {only}, ~SigPipe
  PROVE  Spec => LifecycleSpec
<1>0. only \in Conns
  OBVIOUS
<1>1. Init => Cause(only) /\ Lifecycle!Init
  <2> SUFFICES ASSUME Init PROVE Cause(only) /\ Lifecycle!Init
    OBVIOUS
  <2>1. \A c \in Conns : Cause(c) /\ Phase(c) = "none" /\ Reason(c) = {}
    BY InitCause
  <2> QED
    BY <1>0, <2>1 DEF Lifecycle!Init
<1>2. Inv /\ Cause(only) /\ [Next]_vars => Cause(only)' /\ [Lifecycle!Next]_(Lifecycle!vars)
  <2> SUFFICES ASSUME Inv, Cause(only), [Next]_vars
               PROVE  Cause(only)' /\ [Lifecycle!Next]_(Lifecycle!vars)
    OBVIOUS
  <2>1. Cause(only)' /\ PhaseStep(only)
    <3>1. CASE UNCHANGED vars
      BY <1>0, <3>1, Quiet DEF vars, procVars, sessVars, netVars
    <3>2. CASE Next
      <4>1. alive
        BY <3>2 DEF Next
      <4>2. \/ Tick \/ Peers(only) \/ Main(only)
            \/ RecvThread(only) \/ TimeoutThread(only)
            \/ \E t \in Threads : Thread(only, t)
        BY <3>2 DEF Next
      <4> QED
        BY <1>0, <4>1, <4>2, OutsideStep, RecvStep, TimeoutStep, ThreadStep
    <3> QED
      BY <3>1, <3>2
  <2>2. Lifecycle!Next
    <3> DEFINE phase == [c \in Conns |-> Phase(c)]
               reason == [c \in Conns |-> Reason(c)]
    <3>1. Reason(only)' \subseteq Lifecycle!Reasons
      BY Zenon DEF Reason, Lifecycle!Reasons
    <3>2. reason' \in [Conns -> SUBSET Lifecycle!Reasons]
      BY <3>1
    <3>3. phase'[only] = Phase(only)' /\ phase[only] = Phase(only) /\ reason[only] = Reason(only)
      BY <1>0
    <3>4. phase' = [phase EXCEPT ![only] = Phase(only)']
      OBVIOUS
    <3>5. Phase(only)' = Phase(only) => phase' = phase
      BY <3>4
    <3> HIDE DEF phase, reason
    <3>6. \/ phase' = phase
          \/ phase[only] = "none" /\ phase' = [phase EXCEPT ![only] = "connecting"]
          \/ phase[only] = "connecting" /\ phase' = [phase EXCEPT ![only] = "active"]
          \/ phase[only] = "connecting" /\ phase' = [phase EXCEPT ![only] = "removed"]
          \/ /\ reason[only] # {} /\ phase[only] = "active"
             /\ phase' = [phase EXCEPT ![only] = "ending"]
          \/ phase[only] = "ending" /\ phase' = [phase EXCEPT ![only] = "removed"]
      BY <2>1, <3>3, <3>4, <3>5, Zenon DEF PhaseStep
    <3> USE DEF phase, reason
    <3> QED
      BY <1>0, <3>2, <3>6, Zenon
         DEF Lifecycle!Next, Lifecycle!Connect, Lifecycle!Establish, Lifecycle!Refuse,
             Lifecycle!End, Lifecycle!Remove, Lifecycle!Move
  <2> QED
    BY <2>1, <2>2
<1> QED
  BY Invariance, <1>1, <1>2, PTL DEF Spec, LifecycleSpec, Lifecycle!Spec
===============================================================================
