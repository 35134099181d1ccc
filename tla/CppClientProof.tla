---------------------------- MODULE CppClientProof ----------------------------
(***************************************************************************)
(* What CppClient guarantees for any inputs and any bounds.                *)
(***************************************************************************)
EXTENDS CppClient, TLAPS

USE DEF Threads, FrameParts, MaxAttempts

Sending(t) == pc[t] \in SendPCs \cup {"lock"}

\* What thread t sends goes through sendFrame.
Binary(t) == t = "random" \/ reply.what \notin ControlKinds

\* No session was begun yet; HELLO is being sent; the session was left.
Before == pc["main"] \in {"connect", "dial", "retry", "handshake"}
Opening == Sending("main") /\ reply.what = "HELLO"
Leaving == \/ pc["main"] \in {"control", "close", "done"}
           \/ Sending("main") /\ reply.what \in {"DISCONNECT", "CLOSE"}

\* Which frames can be under way, who holds the mutex, and which socket and thread
\* there is at each place of tryConnect.
Control ==
  /\ pings <= msgs
  /\ \A t \in Threads : pc[t] \in SendPCs =>
       left[t] \in 1..FrameParts /\ (Binary(t) => sendMutex = t)
  /\ Sending("main") => reply.what # "none"
  /\ Sending("random") => randomId <= MaxRandom
  /\ sock <=> pc["main"] \notin {"connect", "retry", "done"}
  /\ Before \/ Opening \/ pc["main"] = "hello" => pc["random"] = "off"
  /\ Opening => active
  /\ Leaving => pc["random"] \in {"off", "done"}

LEMMA PcFacts ==
  /\ PCs("main") = {"send", "insend", "partial", "lock", "done", "connect", "dial",
                    "handshake", "retry", "hello", "loop", "recv", "cleanup", "join", "control", "close"}
  /\ PCs("random") = {"send", "insend", "partial", "lock", "done", "off", "sleep", "fail"}
BY Zenon DEF PCs, SendPCs

LEMMA KindFacts ==
  /\ MainSends = {"HELLO", "DISCONNECT", "CLOSE", "PONG", "KISS_RESPONSE", "WS_PONG", "WS_CLOSE"}
  /\ DOMAIN Answer = {"PING", "KISS_REQUEST", "WSPING", "WSCLOSE"}
  /\ Answer["PING"] = "PONG" /\ Answer["KISS_REQUEST"] = "KISS_RESPONSE"
  /\ Answer["WSPING"] = "WS_PONG" /\ Answer["WSCLOSE"] = "WS_CLOSE"
BY DEF MainSends, Answer

PcOK ==
  /\ pc \in [Threads -> PCs("main") \cup PCs("random")]
  /\ \A t \in Threads : pc[t] \in PCs(t)

\* A jump moves one thread and not the other.
LEMMA GotoEffect ==
  ASSUME PcOK, NEW t \in Threads, NEW l \in PCs(t), Goto(t, l)
  PROVE  /\ PcOK' /\ pc'[t] = l
         /\ \A u \in Threads \ {t} : pc'[u] = pc[u]
BY Zenon DEF PcOK, Goto

\* Where the threads go after a send.
LEMMA AfterFacts ==
  ASSUME NEW t \in Threads, NEW ok \in BOOLEAN
  PROVE  /\ AfterSend(t, ok) \in PCs(t) \ (SendPCs \cup {"lock"})
         /\ t = "random" => AfterSend(t, ok) \in {"sleep", "fail"}
         /\ t = "main" =>
              /\ AfterSend(t, ok) \in {"hello", "recv", "cleanup", "control", "close", "loop"}
              /\ AfterSend(t, ok) = "hello" <=> reply.what = "HELLO"
              /\ AfterSend(t, ok) \in {"control", "close"} <=>
                   reply.what \in {"DISCONNECT", "CLOSE"}
              /\ AfterSend(t, ok) = "recv" => reply.what = "WS_PONG"
BY PcFacts, Zenon DEF AfterSend, SendPCs

\* What the end of a send does to the session.
LEMMA ReturnEffect ==
  ASSUME TypeOK, Control, NEW t \in Threads, NEW ok \in BOOLEAN, Sending(t),
         SendReturns(t, ok), UNCHANGED <<exit, attempt, sock, active, reply, pings, msgs>>
  PROVE  /\ PcOK' /\ Control'
         /\ sendMutex' \in Threads \cup {"free"} /\ left' \in [Threads -> 0..FrameParts]
         /\ randomId' \in 1..MaxRandom + 1
<1>1. /\ PcOK' /\ pc'[t] = AfterSend(t, ok)
      /\ \A u \in Threads \ {t} : pc'[u] = pc[u]
  BY AfterFacts, GotoEffect, Zenon DEF SendReturns, TypeOK, PcOK
<1>2. /\ sendMutex' \in Threads \cup {"free"} /\ left' \in [Threads -> 0..FrameParts]
      /\ \A u \in Threads \ {t} : left'[u] = left[u]
                                  /\ (sendMutex = u => sendMutex' = u)
  BY DEF SendReturns, TypeOK
<1>3. /\ randomId' \in 1..MaxRandom + 1
      /\ t # "random" => randomId' = randomId
  BY BoundAssumption DEF SendReturns, NextId, TypeOK, Control, Sending
<1>4. /\ \A u \in Threads : pc'[u] \in SendPCs =>
            left'[u] \in 1..FrameParts /\ (Binary(u)' => sendMutex' = u)
      /\ ~Sending(t)'
  BY <1>1, <1>2, AfterFacts DEF Control, Binary, Sending
<1>5. /\ pc["main"] \in {"connect", "retry", "done"} <=> pc'["main"] \in {"connect", "retry", "done"}
      /\ Before' \/ Opening' \/ pc'["main"] = "hello" => Before \/ Opening \/ pc["main"] = "hello"
      /\ Opening' => Opening
      /\ Leaving' => Leaving
      /\ Sending("main")' => Sending("main")
  BY <1>1, <1>4, AfterFacts, Zenon DEF Sending, Before, Opening, Leaving, SendPCs
<1>6. t = "random" => pc["random"] \notin {"off", "done"}
  BY Zenon DEF Sending, SendPCs
<1>7. Sending("random")' => Sending("random") /\ randomId' = randomId
  BY <1>1, <1>3, <1>4, Zenon DEF Sending
<1>8. Control'
  BY <1>1, <1>4, <1>5, <1>6, <1>7, Zenon DEF Control
<1> QED
  BY <1>1, <1>2, <1>3, <1>8, Zenon

\* What the steps of the server and of main and randomThread outside sendFrame keep.
LEMMA Keep ==
  ASSUME TypeOK, Control, exit = "running"
  PROVE  Server => TypeOK' /\ Control'
<1> USE DEF procVars, sessVars
<1>1. CASE ServerRespond
  <2>1. in' \in Seq([kind: Inputs \cup {"101", "REFUSED"}, ts: 0..MaxMsgs])
    BY <1>1, BoundAssumption DEF ServerRespond
  <2> QED
    BY <1>1, <2>1, Zenon DEF ServerRespond, TypeOK, Control, Binary, Sending, Before, Opening, Leaving
<1>2. CASE ServerSend
  <2>1. msgs' \in 0..MaxMsgs /\ pings' \in 0..MaxMsgs /\ pings' <= msgs'
    BY <1>2, BoundAssumption DEF ServerSend, TypeOK, Control
  <2>2. in' \in Seq([kind: Inputs \cup {"101", "REFUSED"}, ts: 0..MaxMsgs])
    BY <1>2, <2>1, BoundAssumption DEF ServerSend, TypeOK
  <2> QED
    BY <1>2, <2>1, <2>2, Zenon DEF ServerSend, TypeOK, Control, Binary, Sending, Before, Opening, Leaving
<1>3. CASE ServerRead
  BY <1>3, BoundAssumption DEF ServerRead, TypeOK, Control, Binary, Sending, Before, Opening, Leaving
<1>4. CASE ServerClose
  BY <1>4, Zenon DEF ServerClose, TypeOK, Control, Binary, Sending, Before, Opening, Leaving
<1>5. CASE ServerReset
  BY <1>5, Zenon DEF ServerReset, TypeOK, Control, Binary, Sending, Before, Opening, Leaving
<1> QED
  BY <1>1, <1>2, <1>3, <1>4, <1>5, Zenon DEF Server

\* A step that moves main, and at most changes what it sends or holds.
LEMMA MainKeeps ==
  ASSUME TypeOK, Control, exit = "running"
  PROVE  Connect \/ Dial \/ Handshake \/ Retry \/ StartRandom \/ Loop \/ Eof \/ Receive
           \/ Cleanup \/ Join \/ SendCloseFrame \/ Close => TypeOK' /\ Control'
<1> DEFINE m == pc["main"]
           r == pc["random"]
           To(l) == PcOK' /\ pc'["main"] = l /\ pc'["random"] = r
<1> USE DEF procVars, sessVars, netVars
<1>m. PcOK
  BY Zenon DEF TypeOK, PcOK
<1>g. ASSUME NEW l \in PCs("main"), Goto("main", l) PROVE To(l)
  BY <1>m, <1>g, GotoEffect, Zenon
<1>1. CASE Connect
  <2>1. (To("dial") /\ sock') \/ (To("retry") /\ sock' = sock)
    BY <1>1, <1>g, PcFacts, Zenon DEF Connect
  <2>2. TypeOK'
    BY <1>1, <2>1, Zenon DEF Connect, TypeOK, PcOK
  <2>3. Control'
    BY <1>1, <2>1 DEF Connect, Control, Binary, Sending, Before, Opening, Leaving, SendPCs
  <2> QED
    BY <2>2, <2>3, Zenon
<1>b. CASE Dial
  <2>1. \/ To("handshake") /\ sock' = sock /\ peer' = "open" /\ in' = in
        \/ To("retry") /\ sock' = FALSE /\ peer' = "none" /\ in' = <<>>
    BY <1>b, <1>g, PcFacts, Zenon DEF Dial, CloseRefused
  <2>u. /\ UNCHANGED <<exit, attempt, active, sendMutex, reply, randomId, left, msgs, pings,
                       wire, unread>>
        /\ m = "dial"
    BY <1>b, Zenon DEF Dial
  <2>v. <<>> \in Seq([kind: Inputs \cup {"101", "REFUSED"}, ts: 0..MaxMsgs])
    OBVIOUS
  <2>2. TypeOK'
    BY <2>1, <2>u, <2>v, Zenon DEF TypeOK, PcOK
  <2>3. Control'
    BY <2>1, <2>u, Zenon DEF Control, Binary, Sending, Before, Opening, Leaving, SendPCs
  <2> QED
    BY <2>2, <2>3, Zenon
<1>2. CASE Handshake
  <2>1. \/ To("lock") /\ reply' = [what |-> "HELLO", ts |-> 0] /\ active' = TRUE /\ UNCHANGED <<exit, sock, peer>>
        \/ To("retry") /\ sock' = FALSE /\ UNCHANGED <<exit, active, reply>> /\ peer' = "none"
        \/ To(m) /\ UNCHANGED <<sock, active, reply, peer>> /\ exit' = "killed"
    <3>1. PcOK /\ pc' = pc => To(m)
      BY Zenon DEF PcOK
    <3> QED
      BY <1>2, <1>g, <1>m, <3>1, PcFacts, Zenon DEF Handshake, Begin, CloseRefused
  <2>t. in' \in Seq([kind: Inputs \cup {"101", "REFUSED"}, ts: 0..MaxMsgs])
    <3>1. in # <<>> => Tail(in) \in Seq([kind: Inputs \cup {"101", "REFUSED"}, ts: 0..MaxMsgs])
      BY DEF TypeOK
    <3>2. <<>> \in Seq([kind: Inputs \cup {"101", "REFUSED"}, ts: 0..MaxMsgs])
      OBVIOUS
    <3> QED
      BY <1>2, <3>1, <3>2, Zenon DEF Handshake, CloseRefused, TypeOK
  <2>u. UNCHANGED <<attempt, sendMutex, randomId, left, msgs, pings, wire, unread>> /\ m = "handshake"
    BY <1>2, Zenon DEF Handshake
  <2>v. exit' \in {"running", "killed"} /\ peer' \in {"none", "open", "fin", "rst"}
        /\ reply' \in [what: MainSends \cup {"none"}, ts: 0..MaxMsgs]
        /\ PcOK' /\ sock' \in BOOLEAN /\ active' \in BOOLEAN
    <3>1. [what |-> "HELLO", ts |-> 0] \in [what: MainSends \cup {"none"}, ts: 0..MaxMsgs]
      BY BoundAssumption DEF MainSends
    <3> QED
      BY <2>1, <3>1, Zenon DEF TypeOK
  <2>2. TypeOK'
    BY <2>u, <2>t, <2>v, Zenon DEF TypeOK, PcOK
  <2>3. Control'
    <3> USE DEF Control, Binary, Sending, Before, Opening, Leaving, SendPCs
    <3>1. CASE To("lock") /\ reply' = [what |-> "HELLO", ts |-> 0] /\ active' = TRUE /\ UNCHANGED <<exit, sock, peer>>
      BY <2>u, <3>1, Zenon
    <3>2. CASE To("retry") /\ sock' = FALSE /\ UNCHANGED <<exit, active, reply>> /\ peer' = "none"
      BY <2>u, <3>2, Zenon
    <3>3. CASE To(m) /\ UNCHANGED <<sock, active, reply, peer>> /\ exit' = "killed"
      BY <2>u, <3>3, Zenon
    <3> QED
      BY <2>1, <3>1, <3>2, <3>3, Zenon
  <2> QED
    BY <2>2, <2>3, Zenon
<1>3. CASE Retry
  <2>1. To("connect") \/ To("done")
    BY <1>3, <1>g, PcFacts, Zenon DEF Retry
  <2>2. TypeOK'
    BY <1>3, <2>1 DEF Retry, TypeOK, PcOK
  <2>3. Control'
    BY <1>3, <2>1, Zenon DEF Retry, Control, Binary, Sending, Before, Opening, Leaving, SendPCs
  <2> QED
    BY <2>2, <2>3, Zenon
<1>4. CASE StartRandom
  <2>1. PcOK' /\ pc'["main"] = "loop" /\ pc'["random"] = "sleep"
    BY <1>4, <1>m, PcFacts, Zenon DEF StartRandom, PcOK
  <2>2. TypeOK'
    BY <1>4, <2>1 DEF StartRandom, TypeOK, PcOK
  <2>3. Control'
    BY <1>4, <2>1, Zenon DEF StartRandom, Control, Binary, Sending, Before, Opening, Leaving, SendPCs
  <2> QED
    BY <2>2, <2>3, Zenon
<1>5. CASE Loop
  <2>1. To("recv") \/ To("cleanup")
    BY <1>5, <1>g, PcFacts, Zenon DEF Loop
  <2>2. TypeOK'
    BY <1>5, <2>1 DEF Loop, TypeOK, PcOK
  <2>3. Control'
    BY <1>5, <2>1, Zenon DEF Loop, Control, Binary, Sending, Before, Opening, Leaving, SendPCs
  <2> QED
    BY <2>2, <2>3, Zenon
<1>6. CASE Eof
  <2>1. To("cleanup")
    BY <1>6, <1>g, PcFacts, Zenon DEF Eof
  <2>2. TypeOK'
    BY <1>6, <2>1 DEF Eof, TypeOK, PcOK
  <2>3. Control'
    BY <1>6, <2>1, Zenon DEF Eof, Control, Binary, Sending, Before, Opening, Leaving, SendPCs
  <2> QED
    BY <2>2, <2>3, Zenon
<1>8. CASE Cleanup
  <2>1. To("join")
    BY <1>8, <1>g, PcFacts, Zenon DEF Cleanup, Stop
  <2>2. TypeOK'
    BY <1>8, <2>1, Zenon DEF Cleanup, Stop, TypeOK, PcOK
  <2>3. Control'
    BY <1>8, <2>1, Zenon DEF Cleanup, Stop, Control, Binary, Sending, Before, Opening, Leaving, SendPCs
  <2> QED
    BY <2>2, <2>3, Zenon
<1>9. CASE Join
  <2>1. To("lock")
    BY <1>9, <1>g, PcFacts, Zenon DEF Join
  <2>2. TypeOK'
    BY <1>9, <2>1, BoundAssumption DEF Join, MainSends, TypeOK, PcOK
  <2>3. Control'
    BY <1>9, <2>1, Zenon DEF Join, Control, Binary, Sending, Before, Opening, Leaving, SendPCs
  <2> QED
    BY <2>2, <2>3, Zenon
<1>10. CASE SendCloseFrame
  <2>0. /\ reply' = [what |-> "CLOSE", ts |-> 0] /\ left' = [left EXCEPT !["main"] = 2]
        /\ left' \in [Threads -> 0..2] /\ left'["main"] = 2 /\ left'["random"] = left["random"]
    BY <1>10 DEF SendCloseFrame, Build, TypeOK
  <2>1. To("send")
    BY <1>10, <1>g, PcFacts, Zenon DEF SendCloseFrame, Build
  <2>2. TypeOK'
    BY <1>10, <2>0, <2>1, BoundAssumption DEF SendCloseFrame, MainSends, TypeOK, PcOK
  <2>3. Control'
    BY <1>10, <2>0, <2>1 DEF SendCloseFrame, ControlKinds, Control, Binary, Sending, Before, Opening, Leaving, SendPCs
  <2> QED
    BY <2>2, <2>3, Zenon
<1>11. CASE Close
  <2>1. To("done")
    BY <1>11, <1>g, PcFacts, Zenon DEF Close
  <2>2. TypeOK'
    BY <1>11, <2>1, Zenon DEF Close, TypeOK, PcOK
  <2>3. Control'
    BY <1>11, <2>1, Zenon DEF Close, Control, Binary, Sending, Before, Opening, Leaving, SendPCs
  <2> QED
    BY <2>2, <2>3, Zenon
<1>7. CASE Receive
  <2> DEFINE k == Head(in).kind
  <2>1. /\ in # <<>> /\ in' = Tail(in) /\ m = "recv"
        /\ UNCHANGED <<procVars, sendMutex, randomId, peer, msgs, pings, wire, unread>>
    BY <1>7, Zenon DEF Receive
  <2>2. /\ in' \in Seq([kind: Inputs \cup {"101", "REFUSED"}, ts: 0..MaxMsgs])
        /\ Head(in) \in [kind: Inputs \cup {"101", "REFUSED"}, ts: 0..MaxMsgs]
    <3> DEFINE R == [kind: Inputs \cup {"101", "REFUSED"}, ts: 0..MaxMsgs]
    <3>1. in \in Seq(R)
      BY Zenon DEF TypeOK
    <3> HIDE DEF R
    <3>2. in' \in Seq(R) /\ Head(in) \in R
      BY <2>1, <3>1
    <3> QED
      BY <3>2, Zenon DEF R
  <2>3. \/ /\ reply' = [what |-> Answer[k], ts |-> Head(in).ts] /\ UNCHANGED <<active, left>>
           /\ k \in Answered /\ To("lock")
        \/ /\ reply' = [what |-> Answer[k], ts |-> Head(in).ts] /\ UNCHANGED active
           /\ k \in {"WSPING", "WSCLOSE"} /\ To("send") /\ left' = [left EXCEPT !["main"] = 2]
        \/ /\ active' = (active /\ k # "DISCONNECT") /\ UNCHANGED <<reply, left>>
           /\ \E l \in {"cleanup", "recv", "loop"} : To(l)
    BY <1>7, <1>g, PcFacts, KindFacts DEF Receive, ReplyTo, Build, Answered, Frames
  <2>4. k \in Answered => Answer[k] \in {"PONG", "KISS_RESPONSE"}
    BY KindFacts, Zenon DEF Answered
  <2>5. k \in {"WSPING", "WSCLOSE"} => Answer[k] \in {"WS_PONG", "WS_CLOSE"}
    BY KindFacts, Zenon
  <2> HIDE DEF k
  <2>6. CASE /\ reply' = [what |-> Answer[k], ts |-> Head(in).ts] /\ UNCHANGED <<active, left>>
             /\ k \in Answered /\ To("lock")
    <3>1. reply' \in [what: MainSends \cup {"none"}, ts: 0..MaxMsgs]
          /\ reply'.what \in {"PONG", "KISS_RESPONSE"}
      BY <2>2, <2>4, <2>6, KindFacts, Zenon
    <3>2. TypeOK'
      BY <2>1, <2>2, <2>6, <3>1 DEF TypeOK, PcOK
    <3>3. Control'
      BY <2>1, <2>6, <3>1, Zenon DEF Control, Binary, Sending, Before, Opening, Leaving, SendPCs
    <3> QED
      BY <3>2, <3>3, Zenon
  <2>7. CASE /\ reply' = [what |-> Answer[k], ts |-> Head(in).ts] /\ UNCHANGED active
             /\ k \in {"WSPING", "WSCLOSE"} /\ To("send") /\ left' = [left EXCEPT !["main"] = 2]
    <3>1. reply' \in [what: MainSends \cup {"none"}, ts: 0..MaxMsgs]
          /\ reply'.what \in {"WS_PONG", "WS_CLOSE"}
      BY <2>2, <2>5, <2>7, KindFacts
    <3>2. left' \in [Threads -> 0..2] /\ left'["main"] = 2 /\ left'["random"] = left["random"]
      BY <2>7 DEF TypeOK
    <3>3. TypeOK'
      BY <2>1, <2>2, <2>7, <3>1, <3>2 DEF TypeOK, PcOK
    <3>4. Control'
      BY <2>1, <2>7, <3>1, <3>2
      DEF Control, Binary, Sending, Before, Opening, Leaving, SendPCs, ControlKinds
    <3> QED
      BY <3>3, <3>4, Zenon
  <2>8. CASE /\ active' = (active /\ k # "DISCONNECT") /\ UNCHANGED <<reply, left>>
             /\ \E l \in {"cleanup", "recv", "loop"} : To(l)
    <3>1. TypeOK'
      BY <2>1, <2>2, <2>8, Zenon DEF TypeOK, PcOK
    <3>2. Control'
      BY <2>1, <2>8, Zenon DEF Control, Binary, Sending, Before, Opening, Leaving, SendPCs
    <3> QED
      BY <3>1, <3>2, Zenon
  <2> QED
    BY <2>3, <2>6, <2>7, <2>8, Zenon
<1> QED
  BY <1>1, <1>b, <1>2, <1>3, <1>4, <1>5, <1>6, <1>7, <1>8, <1>9, <1>10, <1>11, Zenon

LEMMA RandomKeeps ==
  ASSUME TypeOK, Control, exit = "running", Wake \/ Fail
  PROVE  TypeOK' /\ Control'
<1> USE DEF procVars, sessVars, netVars
<1>m. PcOK
  BY Zenon DEF TypeOK, PcOK
<1>1. PICK l \in {"lock", "done"} :
        /\ PcOK' /\ pc'["random"] = l /\ pc'["main"] = pc["main"]
        /\ l = "lock" => randomId <= MaxRandom
  BY <1>m, GotoEffect, PcFacts, Zenon DEF Wake, Fail
<1>2. pc["random"] \in {"sleep", "fail"} /\ active' \in {active, FALSE}
      /\ UNCHANGED <<procVars, sendMutex, reply, randomId, left, netVars>>
      /\ (active' # active => pc["random"] = "fail")
  BY Zenon DEF Wake, Fail
<1>3. TypeOK'
  BY <1>1, <1>2, Zenon DEF TypeOK, PcOK
<1>4. Control'
  BY <1>1, <1>2, Zenon DEF Control, Binary, Sending, Before, Opening, Leaving, SendPCs
<1> QED
  BY <1>3, <1>4, Zenon

LEMMA SendKeeps ==
  ASSUME TypeOK, Control, exit = "running", NEW t \in Threads, Send(t)
  PROVE  TypeOK' /\ Control'
<1> USE DEF procVars, sessVars, netVars
<1>m. PcOK
  BY Zenon DEF TypeOK, PcOK
<1>r. ASSUME NEW ok \in BOOLEAN, Sending(t), SendReturns(t, ok),
             UNCHANGED <<attempt, sock, active, reply, pings, msgs, in, exit>>,
             wire' \in Seq(Parts), unread' \in 0..SndBuf, peer' = peer
      PROVE  TypeOK' /\ Control'
  <2>1. /\ PcOK' /\ Control'
        /\ sendMutex' \in Threads \cup {"free"} /\ left' \in [Threads -> 0..FrameParts]
        /\ randomId' \in 1..MaxRandom + 1
    BY <1>r, ReturnEffect, Zenon
  <2> QED
    BY <1>r, <2>1, Zenon DEF TypeOK, PcOK
<1>g. ASSUME NEW l \in SendPCs, Goto(t, l)
      PROVE  PcOK' /\ pc'[t] = l /\ \A u \in Threads \ {t} : pc'[u] = pc[u]
  BY <1>m, <1>g, GotoEffect, PcFacts DEF SendPCs
<1>s. ASSUME NEW l \in SendPCs, Goto(t, l), Sending(t), UNCHANGED <<sock, active, reply, pings, msgs, randomId>>,
             left'[t] \in 1..FrameParts, \A u \in Threads \ {t} : left'[u] = left[u],
             Binary(t) => sendMutex' = t,
             \A u \in Threads \ {t} : sendMutex = u => sendMutex' = u
      PROVE  Control'
  BY <1>s, <1>g DEF Control, Binary, Sending, Before, Opening, Leaving, SendPCs
<1>1. CASE LockAndTest(t)
  <2>1. CASE active
    <3>1. left' \in [Threads -> 0..2] /\ left'[t] = 2 /\ \A u \in Threads \ {t} : left'[u] = left[u]
      BY <1>1, <2>1 DEF LockAndTest, Build, TypeOK
    <3>2. Control'
      BY <1>1, <2>1, <3>1, <1>s DEF LockAndTest, SendPCs, MayLock, Sending
    <3>3. PcOK'
      BY <1>1, <2>1, <1>g, Zenon DEF LockAndTest, SendPCs
    <3> QED
      BY <1>1, <2>1, <3>1, <3>2, <3>3 DEF LockAndTest, TypeOK, PcOK
  <2>2. CASE ~active
    BY <1>1, <2>2, <1>r, Zenon DEF LockAndTest, Sending, TypeOK
  <2> QED
    BY <2>1, <2>2, Zenon
<1>2. CASE CallSend(t)
  <2>1. CASE sock
    <3>1. Control'
      BY <1>2, <2>1, <1>s, Zenon DEF CallSend, SendPCs, Sending, Control
    <3>3. PcOK'
      BY <1>2, <2>1, <1>g, Zenon DEF CallSend, SendPCs
    <3> QED
      BY <1>2, <2>1, <3>1, <3>3, Zenon DEF CallSend, TypeOK, PcOK
  <2>2. CASE ~sock
    BY <1>2, <2>2, <1>r, Zenon DEF CallSend, Sending, SendPCs, TypeOK
  <2> QED
    BY <2>1, <2>2, Zenon
<1>3. CASE CopyPart(t)
  <2>1. NextPart(t) \in Parts
    BY <1>3, KindFacts, BoundAssumption, <1>m, PcFacts
    DEF CopyPart, NextPart, Parts, TypeOK, Control, Sending, SendPCs
  <2>2. wire' \in Seq(Parts) /\ unread' \in 0..SndBuf
    BY <1>3, <2>1, BoundAssumption DEF CopyPart, TypeOK
  <2>3. /\ pc[t] \in SendPCs /\ Sending(t)
        /\ UNCHANGED <<procVars, active, reply, in, peer, msgs, pings>>
    BY <1>3, Zenon DEF CopyPart, SendPCs, Sending
  <2>4. CASE SendReturns(t, TRUE)
    BY <2>2, <2>3, <2>4, <1>r, Zenon
  <2>5. CASE /\ left[t] > 1 /\ left' = [left EXCEPT ![t] = @ - 1] /\ Goto(t, "partial")
             /\ UNCHANGED <<sendMutex, randomId>>
    <3>1. left' \in [Threads -> 0..2] /\ left'[t] \in 1..2
          /\ \A u \in Threads \ {t} : left'[u] = left[u]
      BY <2>5 DEF TypeOK
    <3>2. Binary(t) => sendMutex = t
      BY <2>3, Zenon DEF Control
    <3>3. Control'
      BY <2>3, <2>5, <3>1, <3>2, <1>s, Zenon DEF SendPCs
    <3>4. PcOK'
      BY <2>5, <1>g, Zenon DEF SendPCs
    <3> QED
      BY <2>2, <2>3, <2>5, <3>1, <3>3, <3>4 DEF TypeOK, PcOK
  <2> QED
    BY <1>3, <2>4, <2>5, Zenon DEF CopyPart
<1>4. CASE SendError(t)
  <2>1. CASE pc[t] = "partial" /\ Goto(t, "send") /\ UNCHANGED <<exit, sendMutex, left, randomId>>
    <3>1. Control'
      BY <1>4, <2>1, <1>s, Zenon DEF SendError, SendPCs, Sending, Control
    <3>3. PcOK'
      BY <2>1, <1>g, Zenon DEF SendPCs
    <3> QED
      BY <1>4, <2>1, <3>1, <3>3 DEF SendError, TypeOK, PcOK
  <2>2. CASE SendReturns(t, FALSE) /\ UNCHANGED exit
    BY <1>4, <2>2, <1>r, Zenon DEF SendError, Sending, SendPCs, TypeOK
  <2>3. CASE exit' = "killed" /\ UNCHANGED <<sendMutex, pc, left, randomId>>
    BY <1>4, <2>3 DEF SendError, TypeOK, Control, Binary, Sending, Before, Opening, Leaving
  <2> QED
    BY <1>4, <2>1, <2>2, <2>3, Zenon DEF SendError
<1> QED
  BY <1>1, <1>2, <1>3, <1>4, Zenon DEF Send

-----------------------------------------------------------------------------
(* The wire.                                                               *)

\* The ids of the frames of kind k that were sent whole.
Ids(k) == {wire[i].id : i \in {h \in 1..Len(wire) : Whole(k, h)}}

\* Thread t is sending the frame that the part at place i belongs to.
Owner(t, i) ==
  /\ pc[t] \in SendPCs /\ Binary(t)
  /\ wire[i].what = NextPart(t).what /\ wire[i].id = NextPart(t).id

\* A binary frame that was begun is being sent, unless the connection was reset.
OpenFrame ==
  \A i \in 1..Len(wire) :
    /\ ~wire[i].last /\ wire[i].what \notin ControlKinds
    /\ \A h \in i + 1..Len(wire) : wire[h].what \in ControlKinds
    => peer = "rst" \/ \E t \in Threads : Owner(t, i)

Wire ==
  /\ Before => wire = <<>>
  /\ wire = <<>> => Before \/ Opening \/ peer = "rst" \/ pc["main"] = "done"
  /\ HelloFirst /\ BinaryContiguous /\ OpenFrame
  /\ RandomIdsInOrder /\ Ids("RANDOM_NUMBER") = 1..randomId - 1

\* As long as nothing is sent, what was sent stays as it is.
LEMMA SameWire ==
  ASSUME wire' = wire
  PROVE  /\ HelloFirst => HelloFirst'
         /\ BinaryContiguous => BinaryContiguous'
         /\ RandomIdsInOrder => RandomIdsInOrder'
         /\ PongsInOrder => PongsInOrder'
         /\ \A k : Ids(k)' = Ids(k)
<1>2. /\ RandomIdsInOrder => RandomIdsInOrder'
      /\ PongsInOrder => PongsInOrder'
  BY ZenonT(30) DEF RandomIdsInOrder, PongsInOrder, InOrder, Whole
<1>3. \A k : Ids(k)' = Ids(k)
  BY Zenon DEF Ids, Whole
<1>4. HelloFirst => HelloFirst'
  BY Zenon DEF HelloFirst
<1>5. BinaryContiguous => BinaryContiguous'
  BY ZenonT(30) DEF BinaryContiguous
<1> QED
  BY <1>2, <1>3, <1>4, <1>5, Zenon

\* A step that sends nothing and ends no frame.
LEMMA QuietWire ==
  ASSUME Wire, UNCHANGED <<wire, randomId>>,
         Before' => Before,
         Before \/ Opening => Before' \/ Opening' \/ peer' = "rst" \/ pc'["main"] = "done",
         pc["main"] = "done" => pc'["main"] = "done",
         peer = "rst" => peer' = "rst" \/ Before,
         \/ peer' = "rst"
         \/ /\ \A t \in Threads : pc[t] \in SendPCs => pc'[t] \in SendPCs
            /\ pc["main"] \in SendPCs => reply' = reply
  PROVE  Wire'
<1>1. wire' = <<>> => Before' \/ Opening' \/ peer' = "rst" \/ pc'["main"] = "done"
  BY Zenon DEF Wire
<1>2. HelloFirst' /\ BinaryContiguous' /\ RandomIdsInOrder'
  BY SameWire, Zenon DEF Wire
<1>3. Ids("RANDOM_NUMBER")' = 1..randomId' - 1
  BY SameWire, Zenon DEF Wire
<1>4. OpenFrame'
  <2> SUFFICES ASSUME NEW i \in 1..Len(wire), ~wire[i].last, wire[i].what \notin ControlKinds,
                      \A h \in i + 1..Len(wire) : wire[h].what \in ControlKinds,
                      peer' # "rst"
               PROVE  \E t \in Threads : Owner(t, i)'
    BY Zenon DEF OpenFrame
  <2>1. peer # "rst"
    BY DEF Wire
  <2>2. PICK t \in Threads : Owner(t, i)
    BY <2>1, Zenon DEF Wire, OpenFrame
  <2>3. Binary(t)' /\ pc'[t] \in SendPCs
    BY <2>2, Zenon DEF Owner, Binary
  <2>4. NextPart(t).what = NextPart(t).what' /\ NextPart(t).id = NextPart(t).id'
    BY <2>2, Zenon DEF Owner, NextPart
  <2>5. Owner(t, i)'
    BY <2>2, <2>3, <2>4, Zenon DEF Owner
  <2> QED
    BY <2>5, Zenon
<1> QED
  BY <1>1, <1>2, <1>3, <1>4, Zenon DEF Wire

LEMMA AppendFacts ==
  ASSUME NEW S, NEW s \in Seq(S), NEW e \in S
  PROVE  /\ Len(s) \in Nat /\ Len(Append(s, e)) = Len(s) + 1 /\ Append(s, e) # <<>>
         /\ \A i \in 1..Len(s) : Append(s, e)[i] = s[i]
         /\ Append(s, e)[Len(s) + 1] = e
         /\ s # <<>> => 1 \in 1..Len(s)
<1>1. s # <<>> => Len(s) # 0 /\ Len(s) \in Nat
  OBVIOUS
<1>2. /\ Len(s) \in Nat /\ Len(Append(s, e)) = Len(s) + 1 /\ Append(s, e) # <<>>
      /\ Append(s, e)[Len(s) + 1] = e
  OBVIOUS
<1>3. \A i \in 1..Len(s) : Append(s, e)[i] = s[i]
  OBVIOUS
<1> QED
  BY <1>1, <1>2, <1>3

LEMMA PartType ==
  ASSUME TypeOK, Control, NEW t \in Threads, pc[t] \in SendPCs
  PROVE  NextPart(t) \in Parts
<1>1. t = "main" => reply.what \in MainSends
  BY Zenon DEF Control, TypeOK, Sending
<1> QED
  BY <1>1, BoundAssumption DEF NextPart, Parts, TypeOK

\* What one more part does to the ids of the frames of a kind, and to their order.
LEMMA CopyIds ==
  ASSUME wire \in Seq(Parts), NEW p \in Parts, wire' = Append(wire, p), NEW k
  PROVE  /\ Ids(k)' = IF p.what = k /\ p.last THEN Ids(k) \cup {p.id} ELSE Ids(k)
         /\ InOrder(k) /\ (p.what = k /\ p.last => Ids(k) = 1..p.id - 1) => InOrder(k)'
<1> DEFINE n == Len(wire)
<1>1. /\ n \in Nat /\ Len(wire') = n + 1 /\ \A i \in 1..n : wire'[i] = wire[i]
      /\ wire'[n + 1] = p
  BY AppendFacts
<1>2. /\ \A i \in 1..n : Whole(k, i)' <=> Whole(k, i)
      /\ \A i : i = n + 1 => (Whole(k, i)' <=> p.what = k /\ p.last)
  BY <1>1, Zenon DEF Whole
<1>3. ASSUME NEW j \in 1..n + 1
      PROVE  {wire'[i].id : i \in {h \in 1..j - 1 : Whole(k, h)'}} =
             {wire[i].id : i \in {h \in 1..j - 1 : Whole(k, h)}}
  <2>1. \A i \in 1..j - 1 : wire'[i] = wire[i] /\ (Whole(k, i)' <=> Whole(k, i))
    <3>1. \A i \in 1..j - 1 : i \in 1..n
      BY <1>1
    <3> QED
      BY <1>1, <1>2, <3>1, Zenon
  <2>2. {h \in 1..j - 1 : Whole(k, h)'} = {h \in 1..j - 1 : Whole(k, h)}
    BY <2>1, Zenon
  <2> QED
    BY <2>1, <2>2, Zenon
<1>4. Ids(k)' = IF p.what = k /\ p.last THEN Ids(k) \cup {p.id} ELSE Ids(k)
  <2>1. \A x : x \in Ids(k)' <=> \/ \E i \in 1..n : Whole(k, i) /\ x = wire[i].id
                                 \/ p.what = k /\ p.last /\ x = p.id
    <3>2. \A x : x \in Ids(k)' <=> \E i \in 1..n + 1 : Whole(k, i)' /\ x = wire'[i].id
      BY <1>1, Zenon DEF Ids
    <3>3. /\ \A i \in 1..n : \A x :
               (Whole(k, i)' /\ x = wire'[i].id <=> Whole(k, i) /\ x = wire[i].id)
          /\ \A i, x : i = n + 1 =>
               (Whole(k, i)' /\ x = wire'[i].id <=> p.what = k /\ p.last /\ x = p.id)
      BY <1>1, <1>2, Zenon
    <3> TAKE x
    <3>4. ASSUME x \in Ids(k)'
          PROVE  (\E i \in 1..n : Whole(k, i) /\ x = wire[i].id) \/ (p.what = k /\ p.last /\ x = p.id)
      <4>1. PICK i \in 1..n + 1 : Whole(k, i)' /\ x = wire'[i].id
        BY <3>2, <3>4, Zenon
      <4>2. i \in 1..n \/ i = n + 1
        BY <1>1
      <4> QED
        BY <3>3, <4>1, <4>2, ZenonT(30)
    <3>5. ASSUME NEW i \in 1..n, Whole(k, i), x = wire[i].id PROVE x \in Ids(k)'
      <4>1. i \in 1..n + 1
        BY <1>1
      <4>2. Whole(k, i)' /\ x = wire'[i].id
        BY <3>3, <3>5, Zenon
      <4> QED
        BY <3>2, <4>1, <4>2, Zenon
    <3>6. ASSUME p.what = k, p.last, x = p.id PROVE x \in Ids(k)'
      <4>1. PICK i \in 1..n + 1 : i = n + 1
        BY <1>1
      <4> QED
        BY <3>2, <3>3, <3>6, <4>1, ZenonT(30)
    <3> QED
      BY <3>4, <3>5, <3>6, Zenon
  <2>2. \A x : x \in Ids(k) <=> \E i \in 1..n : Whole(k, i) /\ x = wire[i].id
    BY Zenon DEF Ids
  <2> QED
    BY <2>1, <2>2, Zenon
<1>5. ASSUME InOrder(k), p.what = k /\ p.last => Ids(k) = 1..p.id - 1 PROVE InOrder(k)'
  <2> SUFFICES ASSUME NEW j \in 1..n + 1, Whole(k, j)'
               PROVE  {wire[i].id : i \in {h \in 1..j - 1 : Whole(k, h)}} = 1..wire'[j].id - 1
    BY <1>1, <1>3, Zenon DEF InOrder
  <2>1. CASE j \in 1..n
    <3>1. Whole(k, j) /\ wire'[j] = wire[j]
      BY <2>1, <1>1, <1>2, Zenon
    <3> QED
      BY <2>1, <3>1, <1>5, Zenon DEF InOrder
  <2>2. CASE j = n + 1
    <3>1. j - 1 = n /\ wire'[j] = p
      BY <2>2, <1>1
    <3>2. p.what = k /\ p.last
      BY <2>2, <1>2, Zenon
    <3> QED
      BY <3>1, <3>2, <1>5, Zenon DEF Ids
  <2>3. j \in 1..n \/ j = n + 1
    BY <1>1
  <2> QED
    BY <2>1, <2>2, <2>3, Zenon
<1> QED
  BY <1>4, <1>5, Zenon

LEMMA CopyWire ==
  ASSUME TypeOK, Control, Wire, NEW t \in Threads, CopyPart(t)
  PROVE  Wire'
<1> DEFINE n == Len(wire)
           p == NextPart(t)
<1>0. wire \in Seq(Parts) /\ p \in Parts /\ wire' = Append(wire, p)
  BY PartType, Zenon DEF CopyPart, TypeOK, SendPCs
<1>1. /\ n \in Nat /\ Len(wire') = n + 1 /\ wire' # <<>>
      /\ \A i \in 1..n : wire'[i] = wire[i]
      /\ wire'[n + 1] = p /\ (wire # <<>> => 1 \in 1..n)
  BY <1>0, AppendFacts
<1>2. /\ pc[t] \in SendPCs /\ Sending(t) /\ peer # "rst" /\ peer' = peer /\ reply' = reply
      /\ Binary(t) => sendMutex = t
  BY Zenon DEF CopyPart, Control, SendPCs, Sending
<1>3. p.what = (IF t = "random" THEN "RANDOM_NUMBER" ELSE reply.what)
      /\ p.id = (IF t = "random" THEN randomId ELSE reply.ts) /\ p.last = (left[t] = 1)
  BY Zenon DEF NextPart
<1>4. p.what \notin ControlKinds => Binary(t)
  BY <1>3, Zenon DEF Binary
<1>5. \/ left[t] = 1 /\ SendReturns(t, TRUE)
      \/ left[t] > 1 /\ Goto(t, "partial") /\ randomId' = randomId
  BY Zenon DEF CopyPart
<1>6. PcOK /\ \A u \in Threads \ {t} : pc'[u] = pc[u]
  BY <1>5, AfterFacts, GotoEffect, Zenon DEF SendReturns, Goto, TypeOK, PcOK
<1>7. ~Before'
  <2>1. CASE t = "main"
    <3>1. \E l \in {"hello", "recv", "cleanup", "control", "close", "loop", "partial"} : pc'["main"] = l
      BY <2>1, <1>5, <1>6, AfterFacts, Zenon DEF SendReturns, Goto, PcOK
    <3> QED
      BY <3>1, Zenon DEF Before
  <2>2. CASE t = "random"
    BY <2>2, <1>2, <1>6, Zenon DEF Before, Control, SendPCs
  <2> QED
    BY <2>1, <2>2, Zenon
<1>8. HelloFirst'
  <2>1. CASE wire # <<>>
    BY <2>1, <1>1 DEF Wire, HelloFirst
  <2>2. CASE wire = <<>>
    <3>1. Opening
      BY <2>2, <1>2, Zenon DEF Wire, Before, Opening, Leaving, Control, SendPCs, Sending
    <3>2. t = "main"
      BY <3>1, <1>2, Zenon DEF Control, SendPCs
    <3> QED
      BY <2>2, <3>1, <3>2, <1>1, <1>3 DEF HelloFirst, Opening
  <2> QED
    BY <2>1, <2>2, Zenon
<1> HIDE DEF p
<1>9. ASSUME NEW i \in 1..n, ~wire[i].last, wire[i].what \notin ControlKinds,
             \A h \in i + 1..n : wire[h].what \in ControlKinds
      PROVE  \E u \in Threads : Owner(u, i)
  BY <1>2, <1>9 DEF Wire, OpenFrame
<1>10. BinaryContiguous'
  <2> SUFFICES ASSUME NEW i \in 1..n + 1, NEW j \in 1..n + 1, i < j, ~wire'[i].last,
                      wire'[i].what \notin ControlKinds, wire'[j].what \notin ControlKinds,
                      \A h \in i + 1..j - 1 : wire'[h].what \in ControlKinds
               PROVE  wire'[j].what = wire'[i].what /\ wire'[j].id = wire'[i].id
    BY <1>1 DEF BinaryContiguous
  <2>1. CASE j \in 1..n
    <3>1. i \in 1..n /\ wire'[i] = wire[i] /\ wire'[j] = wire[j]
          /\ \A h \in i + 1..j - 1 : wire[h].what \in ControlKinds
      BY <2>1, <1>1
    <3> QED
      BY <2>1, <3>1 DEF Wire, BinaryContiguous
  <2>2. CASE j = n + 1
    <3>1. i \in 1..n /\ wire'[i] = wire[i] /\ \A h \in i + 1..n : wire[h].what \in ControlKinds
      BY <2>2, <1>1
    <3>2. PICK u \in Threads : Owner(u, i)
      BY <3>1, <1>9, Zenon
    <3>3. sendMutex = u /\ sendMutex = t
      BY <2>2, <3>2, <1>1, <1>2, <1>4 DEF Control, Owner
    <3> QED
      BY <2>2, <3>1, <3>2, <3>3, <1>1 DEF Owner, p
  <2> QED
    BY <2>1, <2>2
<1>11. OpenFrame'
  <2> SUFFICES ASSUME NEW i \in 1..n + 1, ~wire'[i].last, wire'[i].what \notin ControlKinds,
                      \A h \in i + 1..n + 1 : wire'[h].what \in ControlKinds
               PROVE  \E u \in Threads : Owner(u, i)'
    BY <1>1, Zenon DEF OpenFrame
  <2>1. CASE i = n + 1
    <3>1. left[t] > 1 /\ Goto(t, "partial") /\ randomId' = randomId
      BY <2>1, <1>1, <1>3, <1>5, Zenon
    <3>2. pc'[t] \in SendPCs
      BY <3>1, <1>6, Zenon DEF Goto, PcOK, SendPCs
    <3>3. Binary(t)' /\ p.what = NextPart(t).what' /\ p.id = NextPart(t).id'
      BY <2>1, <3>1, <1>1, <1>2, <1>4 DEF Binary, NextPart, p
    <3> QED
      BY <2>1, <3>2, <3>3, <1>1 DEF Owner
  <2>2. CASE i \in 1..n
    <3>1. n + 1 \in i + 1..n + 1 /\ wire'[i] = wire[i]
          /\ \A h \in i + 1..n : wire[h].what \in ControlKinds
      BY <2>2, <1>1
    <3>2. p.what \in ControlKinds
      BY <3>1, <1>1
    <3>3. t = "main" /\ ~Binary("main") /\ randomId' = randomId
      BY <3>2, <1>3, <1>5, Zenon DEF ControlKinds, Binary, SendReturns, NextId
    <3>4. PICK u \in Threads : Owner(u, i)
      BY <2>2, <3>1, <1>9
    <3>5. u = "random" /\ pc'[u] = pc[u]
      BY <3>3, <3>4, <1>6, Zenon DEF Owner
    <3>6. Owner(u, i)'
      BY <3>1, <3>3, <3>4, <3>5, <1>2 DEF Owner, Binary, NextPart
    <3> QED
      BY <3>6, Zenon
  <2> QED
    BY <2>1, <2>2
<1>12. RandomIdsInOrder' /\ Ids("RANDOM_NUMBER")' = 1..randomId' - 1
  <2> DEFINE Full == p.what = "RANDOM_NUMBER" /\ p.last
  <2>1. Full => t = "random" /\ p.id = randomId /\ left[t] = 1
    BY <1>2, <1>3, KindFacts, Zenon DEF TypeOK
  <2>2. randomId' = IF Full THEN randomId + 1 ELSE randomId
    <3>1. CASE t = "main"
      BY <1>5, <2>1, <3>1, Zenon DEF SendReturns, NextId
    <3>2. CASE t = "random" /\ left[t] = 1
      <4>1. Full
        BY <1>3, <3>2, Zenon
      <4> QED
        BY <1>5, <3>2, <4>1 DEF SendReturns, NextId
    <3>3. CASE t = "random" /\ left[t] # 1
      BY <1>5, <2>1, <3>3, Zenon
    <3> QED
      BY <3>1, <3>2, <3>3
  <2>3. /\ Ids("RANDOM_NUMBER")' = IF Full THEN Ids("RANDOM_NUMBER") \cup {p.id}
                                          ELSE Ids("RANDOM_NUMBER")
        /\ RandomIdsInOrder /\ (Full => Ids("RANDOM_NUMBER") = 1..p.id - 1) => RandomIdsInOrder'
    BY <1>0, CopyIds DEF RandomIdsInOrder
  <2>4. Ids("RANDOM_NUMBER") = 1..randomId - 1 /\ randomId \in Nat \ {0}
    BY DEF Wire, TypeOK
  <2> HIDE DEF Full
  <2>5. (1..randomId - 1) \cup {randomId} = 1..(randomId + 1) - 1
    BY <2>4
  <2> QED
    BY <2>1, <2>2, <2>3, <2>4, <2>5, Zenon DEF Wire
<1> QED
  BY <1>1, <1>7, <1>8, <1>10, <1>11, <1>12, Zenon DEF Wire

-----------------------------------------------------------------------------
(* The order of the PONGs.                                                 *)

\* main is sending a PONG.
Ponging == Sending("main") /\ reply.what = "PONG"

\* The timestamps of the PINGs that were answered or are being answered, and of the
\* ones among the first n messages of a queue.
Handled == Ids("PONG") \cup IF Ponging THEN {reply.ts} ELSE {}
Waiting(q, n) == {q[i].ts : i \in {h \in 1..n : q[h].kind = "PING"}}

\* What is waiting may still be answered.
Reading == \/ active \/ pc["main"] = "recv"
           \/ pc["main"] \in SendPCs /\ reply.what = "WS_PONG"

\* The PINGs that wait follow the ones that were handled, without a gap.
Queue ==
  /\ Handled \cup Waiting(in, Len(in)) = 1..pings
  /\ \A i \in 1..Len(in) :
       in[i].kind = "PING" => Handled \cup Waiting(in, i - 1) = 1..in[i].ts - 1

Pongs ==
  /\ PongsInOrder
  /\ Before => /\ pings = 0 /\ ~active
               /\ \A i \in 1..Len(in) : in[i].kind # "PING"
  /\ peer # "rst" => /\ Ponging => Ids("PONG") = 1..reply.ts - 1
                     /\ Reading => Queue

\* A step that neither sends nor receives, after the handshake.
LEMMA QuietPongs ==
  ASSUME Pongs, UNCHANGED <<wire, in, pings>>, ~Before',
         \/ peer' = "rst"
         \/ /\ peer # "rst"
            /\ Reading' => Reading /\ (Ponging <=> Ponging')
            /\ Ponging' => Ponging /\ reply' = reply
  PROVE  Pongs'
<1>1. PongsInOrder' /\ Ids("PONG")' = Ids("PONG")
  BY SameWire, Zenon DEF Pongs
<1>2. CASE peer' = "rst"
  BY <1>1, <1>2 DEF Pongs
<1>3. CASE /\ peer # "rst"
           /\ Reading' => Reading /\ (Ponging <=> Ponging')
           /\ Ponging' => Ponging /\ reply' = reply
  <2>1. Ponging' => Ids("PONG")' = 1..reply'.ts - 1
    BY <1>1, <1>3, Zenon DEF Pongs
  <2>2. ASSUME Reading' PROVE Queue'
    <3>1. Queue /\ Reading
      BY <1>3, <2>2 DEF Pongs
    <3>2. Handled' = Handled
      BY <1>1, <1>3, <2>2, Zenon DEF Handled
    <3> QED
      BY <3>1, <3>2, Zenon DEF Queue
  <2> QED
    BY <1>1, <2>1, <2>2, Zenon DEF Pongs
<1> QED
  BY <1>2, <1>3, Zenon

\* The PINGs of a queue when a message is added at its end or taken from its head.
LEMMA WaitingAppend ==
  ASSUME NEW S, NEW q \in Seq(S), NEW e \in S
  PROVE  /\ \A j \in 0..Len(q) : Waiting(Append(q, e), j) = Waiting(q, j)
         /\ Waiting(Append(q, e), Len(q) + 1) =
              Waiting(q, Len(q)) \cup IF e.kind = "PING" THEN {e.ts} ELSE {}
<1> DEFINE n == Len(q)
           w == Append(q, e)
<1>1. n \in Nat /\ w[n + 1] = e /\ \A i \in 1..n : w[i] = q[i]
  BY AppendFacts
<1> HIDE DEF n, w
<1>2. \A j \in 0..n : Waiting(w, j) = Waiting(q, j)
  BY <1>1 DEF Waiting
<1>3. Waiting(w, n + 1) = Waiting(w, n) \cup IF e.kind = "PING" THEN {e.ts} ELSE {}
  <2>1. \A i : i \in 1..n + 1 <=> i \in 1..n \/ i = n + 1
    BY <1>1
  <2> QED
    BY <1>1, <2>1 DEF Waiting
<1>4. Waiting(w, n) = Waiting(q, n)
  BY <1>1, <1>2
<1> QED
  BY <1>2, <1>3, <1>4, Zenon DEF n, w

LEMMA WaitingTail ==
  ASSUME NEW S, NEW q \in Seq(S), q # <<>>
  PROVE  \A j \in 0..Len(q) - 1 :
           Waiting(q, j + 1) = Waiting(Tail(q), j)
                               \cup IF Head(q).kind = "PING" THEN {Head(q).ts} ELSE {}
<1> DEFINE n == Len(q)
           r == Tail(q)
<1>1. n \in Nat \ {0} /\ Head(q) = q[1] /\ \A i \in 1..n - 1 : r[i] = q[i + 1]
  OBVIOUS
<1> HIDE DEF n, r
<1>2. ASSUME NEW j \in 0..n - 1
      PROVE  Waiting(q, j + 1) = Waiting(r, j) \cup IF q[1].kind = "PING" THEN {q[1].ts} ELSE {}
  <2>1. ASSUME NEW x \in Waiting(q, j + 1)
        PROVE  x \in Waiting(r, j) \cup IF q[1].kind = "PING" THEN {q[1].ts} ELSE {}
    <3>1. PICK i \in 1..j + 1 : q[i].kind = "PING" /\ x = q[i].ts
      BY <2>1, Zenon DEF Waiting
    <3>2. CASE i = 1
      BY <3>1, <3>2
    <3>3. CASE i # 1
      <4>1. i - 1 \in 1..j /\ r[i - 1] = q[i]
        BY <1>1, <3>3
      <4> QED
        BY <3>1, <4>1 DEF Waiting
    <3> QED
      BY <3>2, <3>3, Zenon
  <2>2. ASSUME NEW x \in Waiting(r, j) PROVE x \in Waiting(q, j + 1)
    <3>1. PICK i \in 1..j : r[i].kind = "PING" /\ x = r[i].ts
      BY <2>2, Zenon DEF Waiting
    <3>2. i + 1 \in 1..j + 1 /\ q[i + 1] = r[i]
      BY <1>1
    <3> QED
      BY <3>1, <3>2 DEF Waiting
  <2>3. q[1].kind = "PING" => q[1].ts \in Waiting(q, j + 1)
    BY DEF Waiting
  <2> QED
    BY <2>1, <2>2, <2>3
<1> QED
  BY <1>1, <1>2, Zenon DEF n, r

\* One PING more: it comes after all that were sent before.
LEMMA SendPongs ==
  ASSUME TypeOK, TypeOK', Pongs, ServerSend
  PROVE  Pongs'
<1> USE DEF procVars, sessVars
<1> DEFINE R == [kind: Inputs \cup {"101", "REFUSED"}, ts: 0..MaxMsgs]
<1>1. PICK k \in Inputs : /\ pings' = IF k = "PING" THEN pings + 1 ELSE pings
                         /\ in' = Append(in, [kind |-> k, ts |-> IF k = "PING" THEN pings' ELSE 0])
  BY Zenon DEF ServerSend
<1>2. active /\ UNCHANGED <<active, pc, reply, peer, wire>>
  BY Zenon DEF ServerSend
<1>3. pings \in Nat /\ pings' \in 0..MaxMsgs /\ in \in Seq(R)
  BY DEF TypeOK
<1>4. PICK n \in Nat, e \in R :
        /\ n = Len(in) /\ in' = Append(in, e) /\ Len(in') = n + 1 /\ in'[n + 1] = e
        /\ e.kind = k /\ (k = "PING" => e.ts = pings')
        /\ \A i \in 1..n : in'[i] = in[i]
  <2> DEFINE e == [kind |-> k, ts |-> IF k = "PING" THEN pings' ELSE 0]
  <2>1. e \in R /\ in' = Append(in, e) /\ e.kind = k /\ (k = "PING" => e.ts = pings')
    BY <1>1, <1>3, BoundAssumption
  <2> HIDE DEF R, e
  <2> QED
    BY <1>3, <2>1, AppendFacts
<1> HIDE DEF R
<1>5. /\ ~Before' /\ PongsInOrder' /\ Ids("PONG")' = Ids("PONG") /\ Handled' = Handled
      /\ (Ponging' <=> Ponging) /\ Reading /\ ~Before
  <2>1. PongsInOrder' /\ Ids("PONG")' = Ids("PONG")
    BY <1>2, SameWire DEF Pongs
  <2>2. ~Before /\ ~Before' /\ Reading
    BY <1>2, Zenon DEF Pongs, Before, Reading
  <2>3. Ponging' <=> Ponging
    BY <1>2, Zenon DEF Ponging, Sending
  <2>4. Handled' = Handled
    BY <1>2, <2>1, <2>3, Zenon DEF Handled
  <2> QED
    BY <2>1, <2>2, <2>3, <2>4
<1>6. ASSUME peer # "rst" PROVE Queue'
  <2>1. Queue
    BY <1>5, <1>6, Zenon DEF Pongs
  <2>2. /\ \A j \in 0..n : Waiting(in', j) = Waiting(in, j)
        /\ Waiting(in', n + 1) = Waiting(in, n) \cup IF k = "PING" THEN {pings'} ELSE {}
    BY <1>3, <1>4, WaitingAppend
  <2>3. Handled \cup Waiting(in', n + 1) = 1..pings'
    BY <1>1, <1>3, <1>4, <2>1, <2>2, SMTT(30) DEF Queue
  <2>4. ASSUME NEW i \in 1..n + 1, in'[i].kind = "PING"
        PROVE  Handled \cup Waiting(in', i - 1) = 1..in'[i].ts - 1
    <3>1. CASE i \in 1..n
      <4>1. in'[i] = in[i] /\ Waiting(in', i - 1) = Waiting(in, i - 1)
        BY <1>4, <2>2, <3>1
      <4> QED
        BY <1>4, <2>1, <2>4, <3>1, <4>1 DEF Queue
    <3>2. CASE i = n + 1
      <4>1. i - 1 = n /\ in'[i].ts - 1 = pings /\ Waiting(in', i - 1) = Waiting(in, n)
        BY <1>1, <1>3, <1>4, <2>2, <2>4, <3>2
      <4> QED
        BY <1>4, <2>1, <4>1 DEF Queue
    <3> QED
      BY <3>1, <3>2
  <2> QED
    BY <1>4, <1>5, <2>3, <2>4 DEF Queue
<1> QED
  BY <1>2, <1>5, <1>6, Zenon DEF Pongs

\* The message at the head is taken; if it is a PING it is the next to be answered.
LEMMA ReceivePongs ==
  ASSUME TypeOK, Pongs, Receive
  PROVE  Pongs'
<1> USE DEF procVars, Threads
<1> DEFINE R == [kind: Inputs \cup {"101", "REFUSED"}, ts: 0..MaxMsgs]
           k == Head(in).kind
<1>1. /\ in # <<>> /\ in' = Tail(in) /\ pc["main"] = "recv"
      /\ UNCHANGED <<peer, pings, wire>> /\ in \in Seq(R)
  BY DEF Receive, TypeOK
<1>2. PICK n \in Nat : /\ n = Len(in') /\ Len(in) = n + 1 /\ Head(in) = in[1]
                       /\ \A i \in 1..n : in'[i] = in[i + 1]
                       /\ \A j \in 0..n : Waiting(in, j + 1) = Waiting(in', j)
                            \cup IF k = "PING" THEN {Head(in).ts} ELSE {}
  <2> HIDE DEF R
  <2>1. \E n \in Nat : /\ n = Len(in') /\ Len(in) = n + 1 /\ Head(in) = in[1]
                       /\ \A i \in 1..n : in'[i] = in[i + 1]
    BY <1>1
  <2>2. \A j \in 0..Len(in) - 1 : Waiting(in, j + 1) = Waiting(in', j)
                                  \cup IF k = "PING" THEN {Head(in).ts} ELSE {}
    BY <1>1, WaitingTail
  <2> QED
    BY <2>1, <2>2
<1>3. \/ k = "PING" /\ reply' = [what |-> "PONG", ts |-> Head(in).ts] /\ Goto("main", "lock")
      \/ k # "PING" /\ \/ reply'.what \in {"KISS_RESPONSE", "WS_PONG", "WS_CLOSE"}
                       \/ \E l \in {"cleanup", "recv", "loop"} : Goto("main", l)
  BY KindFacts DEF Receive, ReplyTo, Answered, Frames
<1>4. ~Before /\ ~Before'
  <2>1. \E l \in {"lock", "send", "cleanup", "recv", "loop"} : Goto("main", l)
    BY DEF Receive
  <2> QED
    BY <1>1, <2>1 DEF Goto, Before, TypeOK
<1>5. ~Ponging /\ Reading /\ PongsInOrder' /\ Ids("PONG")' = Ids("PONG")
  BY <1>1, SameWire DEF Ponging, Sending, SendPCs, Reading, Pongs
<1>6. CASE k = "PING"
  <2>1. Ponging' /\ reply'.ts = in[1].ts
    <3>1. reply' = [what |-> "PONG", ts |-> in[1].ts] /\ Goto("main", "lock")
      BY <1>2, <1>3, <1>6, Zenon
    <3>2. pc'["main"] = "lock"
      BY <3>1 DEF Goto, TypeOK
    <3> QED
      BY <3>1, <3>2 DEF Ponging, Sending
  <2>2. Handled' = Handled \cup {in[1].ts} /\ Handled = Ids("PONG")
    BY <1>5, <2>1, Zenon DEF Handled
  <2>3. ASSUME peer # "rst" PROVE Ids("PONG") = 1..reply'.ts - 1 /\ Queue'
    <3>1. Queue
      BY <1>5, <2>3 DEF Pongs
    <3>2. Waiting(in, 1 - 1) = {} /\ in[1].kind = "PING" /\ 1 \in 1..Len(in)
      <4>1. Waiting(in, 1 - 1) = {}
        BY DEF Waiting
      <4> QED
        BY <1>2, <1>6, <4>1
    <3>3. Ids("PONG") = 1..reply'.ts - 1
      <4>1. Handled \cup Waiting(in, 1 - 1) = 1..in[1].ts - 1
        BY <3>1, <3>2, Zenon DEF Queue
      <4> QED
        BY <2>1, <2>2, <3>2, <4>1, Zenon
    <3>4. \A j \in 0..n : Handled' \cup Waiting(in', j) = Handled \cup Waiting(in, j + 1)
      BY <1>2, <1>6, <2>2
    <3>5. Queue'
      <4>1. Handled' \cup Waiting(in', n) = 1..pings
        BY <1>2, <3>1, <3>4 DEF Queue
      <4>2. ASSUME NEW i \in 1..n, in'[i].kind = "PING"
            PROVE  Handled' \cup Waiting(in', i - 1) = 1..in'[i].ts - 1
        <5>1. i + 1 \in 1..Len(in) /\ (i + 1) - 1 = (i - 1) + 1 /\ i - 1 \in 0..n /\ in'[i] = in[i + 1]
          BY <1>2
        <5>2. Handled \cup Waiting(in, (i + 1) - 1) = 1..in[i + 1].ts - 1
          BY <3>1, <4>2, <5>1, Zenon DEF Queue
        <5> QED
          BY <5>1, <5>2, <3>4
      <4>3. n = Len(in') /\ pings' = pings
        BY <1>1, <1>2
      <4> QED
        BY <4>1, <4>2, <4>3, Zenon DEF Queue
    <3> QED
      BY <3>3, <3>5
  <2> QED
    BY <1>1, <1>4, <1>5, <2>3, Zenon DEF Pongs
<1>7. CASE k # "PING"
  <2>1. ~Ponging'
    BY <1>1, <1>3, <1>7, SMTT(30) DEF Ponging, Sending, SendPCs, Goto, TypeOK
  <2>2. Handled' = Handled
    BY <1>5, <2>1, Zenon DEF Handled
  <2>3. ASSUME peer # "rst" PROVE Queue'
    <3>1. Queue
      BY <1>5, <2>3, Zenon DEF Pongs
    <3>2. \A j \in 0..n : Waiting(in', j) = Waiting(in, j + 1)
      BY <1>2, <1>7, Zenon
    <3>3. \A j \in 0..n : Handled' \cup Waiting(in', j) = Handled \cup Waiting(in, j + 1)
      BY <2>2, <3>2, Zenon
    <3> QED
      <4>1. Handled' \cup Waiting(in', n) = 1..pings
        BY <1>2, <3>1, <3>3 DEF Queue
      <4>2. ASSUME NEW i \in 1..n, in'[i].kind = "PING"
            PROVE  Handled' \cup Waiting(in', i - 1) = 1..in'[i].ts - 1
        <5>1. i + 1 \in 1..Len(in) /\ (i + 1) - 1 = (i - 1) + 1 /\ i - 1 \in 0..n /\ in'[i] = in[i + 1]
          BY <1>2
        <5>2. Handled \cup Waiting(in, (i + 1) - 1) = 1..in[i + 1].ts - 1
          BY <3>1, <4>2, <5>1, Zenon DEF Queue
        <5> QED
          BY <5>1, <5>2, <3>3, Zenon
      <4>3. n = Len(in') /\ pings' = pings
        BY <1>1, <1>2
      <4> QED
        BY <4>1, <4>2, <4>3, Zenon DEF Queue
  <2> QED
    BY <1>1, <1>4, <1>5, <2>1, <2>3 DEF Pongs
<1> QED
  BY <1>6, <1>7

\* A part is sent; with its last part a PONG is no longer pending but sent.
LEMMA CopyPongs ==
  ASSUME TypeOK, Control, Pongs, NEW t \in Threads, CopyPart(t), ~Before'
  PROVE  Pongs'
<1> DEFINE p == NextPart(t)
           Full == p.what = "PONG" /\ p.last
<1>1. /\ pc[t] \in SendPCs /\ Sending(t) /\ peer # "rst"
      /\ UNCHANGED <<active, reply, in, peer, pings>>
      /\ wire \in Seq(Parts) /\ p \in Parts /\ wire' = Append(wire, p)
  BY PartType DEF CopyPart, SendPCs, Sending, procVars, TypeOK
<1>2. /\ p.what = (IF t = "random" THEN "RANDOM_NUMBER" ELSE reply.what)
      /\ (t = "main" => p.id = reply.ts) /\ p.last = (left[t] = 1)
  BY DEF NextPart
<1>3. /\ \/ left[t] = 1 /\ pc'[t] = AfterSend(t, TRUE)
         \/ left[t] # 1 /\ pc'[t] = "partial"
      /\ \A u \in Threads \ {t} : pc'[u] = pc[u]
  <2>1. \/ left[t] = 1 /\ Goto(t, AfterSend(t, TRUE))
        \/ left[t] # 1 /\ Goto(t, "partial")
    <3>1. left[t] > 1 => left[t] # 1
      BY DEF TypeOK
    <3> QED
      BY <3>1, Zenon DEF CopyPart, SendReturns
  <2> QED
    BY <2>1, Zenon DEF Goto, TypeOK
<1>4. /\ Ids("PONG")' = IF Full THEN Ids("PONG") \cup {p.id} ELSE Ids("PONG")
      /\ PongsInOrder /\ (Full => Ids("PONG") = 1..p.id - 1) => PongsInOrder'
  BY <1>1, CopyIds DEF PongsInOrder
<1>5. Full => Ponging /\ t = "main" /\ p.id = reply.ts /\ left[t] = 1
  BY <1>1, <1>2, Zenon DEF Ponging
<1> HIDE DEF p
<1>6. PongsInOrder'
  BY <1>1, <1>4, <1>5, Zenon DEF Pongs
<1>7. CASE Full
  <2>1. ~Ponging' /\ (Reading' => active)
    <3>1. pc'["main"] = "loop"
      BY <1>3, <1>5, <1>7, Zenon DEF AfterSend, Ponging
    <3> QED
      BY <1>1, <3>1 DEF Ponging, Sending, SendPCs, Reading
  <2>2. Handled' = Handled
    BY <1>4, <1>5, <1>7, <2>1, Zenon DEF Handled
  <2>3. Reading' => Queue'
    BY <1>1, <2>1, <2>2 DEF Pongs, Queue, Reading
  <2> QED
    BY <1>6, <2>1, <2>3 DEF Pongs
<1>8. CASE ~Full
  <2>1. (Ponging' <=> Ponging) /\ (Reading' => Reading)
    <3>1. CASE t = "random"
      <4>1. pc'["main"] = pc["main"]
        BY <1>3, <3>1
      <4> QED
        BY <1>1, <4>1 DEF Ponging, Sending, Reading
    <3>2. CASE t = "main" /\ left[t] = 1
      <4>1. reply.what # "PONG"
        BY <1>2, <1>8, <3>2, Zenon DEF p
      <4>2. pc'["main"] = AfterSend("main", TRUE)
        BY <1>3, <3>2, Zenon
      <4>3. pc'["main"] \notin SendPCs /\ (pc'["main"] = "recv" => reply.what = "WS_PONG")
        BY <4>2, AfterFacts, Zenon
      <4> QED
        BY <1>1, <3>2, <4>1, <4>3, Zenon DEF Ponging, Reading
    <3>3. CASE t = "main" /\ left[t] # 1
      <4>1. pc'["main"] = "partial"
        BY <1>3, <3>3, Zenon
      <4> QED
        BY <1>1, <3>3, <4>1 DEF Ponging, Sending, SendPCs, Reading
    <3> QED
      BY <1>3, <3>1, <3>2, <3>3
  <2>2. Ids("PONG")' = Ids("PONG") /\ Handled' = Handled
    BY <1>1, <1>4, <1>8, <2>1, Zenon DEF Handled
  <2>3. Reading' => Queue'
    BY <1>1, <2>1, <2>2 DEF Pongs, Queue
  <2>4. Ponging' => Ids("PONG")' = 1..reply'.ts - 1
    BY <1>1, <2>1, <2>2 DEF Pongs
  <2> QED
    BY <1>6, <2>3, <2>4, Zenon DEF Pongs
<1> QED
  BY <1>7, <1>8

-----------------------------------------------------------------------------
(* The invariant as a whole.                                               *)

IInv == TypeOK /\ Control /\ Wire /\ Pongs

LEMMA InitInv == Init => IInv
<1> SUFFICES ASSUME Init PROVE IInv
  OBVIOUS
<1> USE DEF Init
<1>1. TypeOK
  <2>1. /\ pc \in [Threads -> PCs("main") \cup PCs("random")]
        /\ \A t \in Threads : pc[t] \in PCs(t)
    BY PcFacts, Zenon
  <2>2. reply \in [what: MainSends \cup {"none"}, ts: 0..MaxMsgs]
    BY BoundAssumption
  <2> QED
    <3>1. /\ left \in [Threads -> 0..FrameParts] /\ wire \in Seq(Parts)
          /\ in \in Seq([kind: Inputs \cup {"101", "REFUSED"}, ts: 0..MaxMsgs])
      OBVIOUS
    <3>2. /\ attempt \in 1..MaxAttempts /\ randomId \in 1..MaxRandom + 1
          /\ msgs \in 0..MaxMsgs /\ pings \in 0..MaxMsgs /\ unread \in 0..SndBuf
      BY BoundAssumption
    <3> QED
      BY <2>1, <2>2, <3>1, <3>2, Zenon DEF TypeOK
<1>2. Control
  BY DEF Control, Binary, Sending, Before, Opening, Leaving, SendPCs
<1>3. Ids("RANDOM_NUMBER") = 1..randomId - 1
  BY DEF Ids
<1>4. Wire
  <2>1. \A i : i \notin 1..Len(wire)
    OBVIOUS
  <2>2. HelloFirst /\ BinaryContiguous /\ OpenFrame /\ RandomIdsInOrder
    BY <2>1, Zenon DEF HelloFirst, BinaryContiguous, OpenFrame, RandomIdsInOrder, InOrder
  <2> QED
    BY <1>3, <2>2 DEF Wire, Before
<1>5. Pongs
  BY DEF Pongs, Before, PongsInOrder, InOrder, Ponging, Sending, SendPCs, Reading
<1> QED
  BY <1>1, <1>2, <1>4, <1>5, Zenon DEF IInv

LEMMA ServerStep ==
  ASSUME IInv, exit = "running", Server
  PROVE  IInv'
<1> USE DEF IInv, procVars, sessVars
<1>1. TypeOK' /\ Control'
  BY Keep
<1>2. UNCHANGED <<active, pc, reply, wire, randomId>> /\ (peer = "rst" => peer' = "rst")
  BY Zenon DEF Server, ServerRespond, ServerSend, ServerRead, ServerClose, ServerReset
<1>3. Wire'
  BY <1>2, QuietWire DEF Before, Opening, Sending
<1>4. Pongs'
  <2>1. CASE ServerSend
    BY <1>1, <2>1, SendPongs
  <2>2. CASE ServerRespond
    <3>1. Before /\ Before' /\ pings' = pings /\ Len(in') = 1 /\ in'[1].kind # "PING"
      BY <2>2 DEF ServerRespond, Before
    <3>2. PongsInOrder'
      BY <1>2, SameWire DEF Pongs
    <3>3. ~Ponging' /\ ~Reading'
      BY <1>2, <3>1 DEF Pongs, Before, Ponging, Sending, SendPCs, Reading
    <3>4. \A i \in 1..Len(in') : in'[i].kind # "PING"
      BY <3>1
    <3>5. pings' = 0 /\ ~active'
      BY <1>2, <3>1, Zenon DEF Pongs
    <3> QED
      BY <3>2, <3>3, <3>4, <3>5, Zenon DEF Pongs
  <2>3. CASE ServerRead \/ ServerClose \/ ServerReset
    <3>1. UNCHANGED <<in, pings>>
      BY <2>3, Zenon DEF ServerRead, ServerClose, ServerReset
    <3>2. CASE Before
      <4>1. PongsInOrder'
        BY <1>2, SameWire, Zenon DEF Pongs
      <4>2. ~Ponging' /\ ~Reading'
        BY <1>2, <3>2 DEF Pongs, Before, Ponging, Sending, SendPCs, Reading
      <4> QED
        BY <1>2, <3>1, <3>2, <4>1, <4>2 DEF Pongs
    <3>3. CASE ~Before
      BY <1>2, <3>1, <3>3, QuietPongs, Zenon DEF Before, Reading, Ponging, Sending
    <3> QED
      BY <3>2, <3>3
  <2> QED
    BY <2>1, <2>2, <2>3, Zenon DEF Server
<1> QED
  BY <1>1, <1>3, <1>4

\* The steps before the session.
LEMMA AttemptStep ==
  ASSUME IInv, exit = "running", Connect \/ Dial \/ Handshake \/ Retry
  PROVE  IInv'
<1> USE DEF IInv, procVars, sessVars, netVars
<1>1. TypeOK' /\ Control'
  BY MainKeeps, Zenon
<1>2. Before /\ UNCHANGED <<wire, randomId, pings>> /\ wire = <<>> /\ pc["main"] \notin SendPCs
  BY DEF Connect, Dial, Handshake, Retry, Before, Wire, SendPCs
<1>3. Ids("PONG")' = {} /\ PongsInOrder'
  BY <1>2 DEF Ids, PongsInOrder, InOrder
<1>4. pc["random"] = "off" /\ pc'["random"] = "off"
  <2>1. pc["random"] = "off"
    BY <1>2 DEF Control
  <2>2. pc' = pc \/ \E l : Goto("main", l)
    BY Zenon DEF Connect, Dial, Handshake, Retry, Begin
  <2> QED
    BY <2>1, <2>2, Zenon DEF Goto, TypeOK
<1>g. \A l : Goto("main", l) => pc'["main"] = l
  BY DEF Goto, TypeOK
<1>q. \A t \in Threads : pc[t] \notin SendPCs
  BY <1>2, <1>4 DEF SendPCs
<1>p. pc["main"] # "done"
  BY <1>2 DEF Before
<1>5. CASE Before' /\ active' = active /\ (in' = in \/ in' = <<>>)
  <2>1. Wire'
    BY <1>2, <1>p, <1>q, <1>5, QuietWire
  <2>2. ~Ponging' /\ ~Reading'
    BY <1>2, <1>5, Zenon DEF Pongs, Before, Ponging, Sending, SendPCs, Reading
  <2>3. \A i \in 1..Len(in') : in'[i].kind # "PING"
    BY <1>2, <1>5 DEF Pongs
  <2> QED
    BY <1>1, <1>2, <1>3, <1>5, <2>1, <2>2, <2>3 DEF Pongs
<1>6. CASE Opening' /\ pc'["main"] = "lock" /\ in # <<>> /\ Head(in).kind = "101" /\ in' = Tail(in)
  <2>1. Wire'
    <3>1. ~Before'
      BY <1>6 DEF Before
    <3> QED
      BY <1>2, <1>p, <1>q, <1>6, <3>1, QuietWire
  <2>2. ~Ponging' /\ Handled' = {}
    BY <1>3, <1>6 DEF Opening, Ponging, Handled
  <2>3. \A i \in 1..Len(in') : in'[i].kind # "PING"
    BY <1>2, <1>6 DEF Pongs, TypeOK
  <2>4. Waiting(in', Len(in')) = {} /\ pings' = 0
    BY <1>2, <2>3 DEF Waiting, Pongs
  <2>5. Queue'
    BY <2>2, <2>3, <2>4 DEF Queue
  <2> QED
    BY <1>1, <1>3, <1>6, <2>1, <2>2, <2>5, Zenon DEF Pongs, Before
<1>7. \/ Before' /\ active' = active /\ (in' = in \/ in' = <<>>)
      \/ Opening' /\ pc'["main"] = "lock" /\ in # <<>> /\ Head(in).kind = "101" /\ in' = Tail(in)
      \/ Retry /\ pc'["main"] = "done" /\ UNCHANGED <<in, active>>
  <2>1. CASE Connect \/ Dial \/ Retry
    BY <1>g, <2>1, Zenon DEF Connect, Dial, CloseRefused, Retry, Before
  <2>2. CASE Handshake
    <3>1. \/ Goto("main", "lock") /\ in # <<>> /\ Head(in).kind = "101" /\ in' = Tail(in)
             /\ reply' = [what |-> "HELLO", ts |-> 0]
          \/ Goto("main", "retry") /\ active' = active /\ in' = <<>>
          \/ pc' = pc /\ active' = active /\ in' = in
      BY <2>2, Zenon DEF Handshake, Begin, CloseRefused
    <3> QED
      BY <1>2, <1>g, <3>1 DEF Before, Opening, Sending
  <2> QED
    BY <2>1, <2>2
<1>8. CASE Retry /\ pc'["main"] = "done" /\ UNCHANGED <<in, active>>
  <2>1. Wire'
    <3>1. ~Before'
      BY <1>8 DEF Before
    <3> QED
      BY <1>2, <1>q, <1>8, <3>1, QuietWire
  <2>2. ~Before' /\ ~Ponging' /\ ~Reading'
    BY <1>2, <1>8 DEF Pongs, Before, Ponging, Sending, SendPCs, Reading
  <2> QED
    BY <1>1, <1>3, <2>1, <2>2, Zenon DEF Pongs
<1> QED
  BY <1>5, <1>6, <1>7, <1>8

\* The steps of main and randomThread in the session that send and receive nothing.
LEMMA SessionStep ==
  ASSUME IInv, exit = "running",
         StartRandom \/ Loop \/ Eof \/ Cleanup \/ Join \/ SendCloseFrame \/ Close \/ Wake \/ Fail
  PROVE  IInv'
<1> USE DEF IInv, procVars, sessVars, netVars
<1>1. TypeOK' /\ Control'
  BY MainKeeps, RandomKeeps, Zenon
<1>2. UNCHANGED <<wire, randomId, in, pings, peer>>
  BY Zenon DEF StartRandom, Loop, Eof, Cleanup, Join, SendCloseFrame, Close, Wake, Fail
<1>3. CASE Wake \/ Fail
  <2>1. pc'["main"] = pc["main"] /\ reply' = reply /\ (active' => active)
        /\ pc["random"] \in {"sleep", "fail"}
    <3>1. \A l : Goto("random", l) => pc'["main"] = pc["main"]
      BY Zenon DEF Goto, TypeOK
    <3> QED
      BY <1>3, <3>1 DEF Wake, Fail
  <2>2. ~Before /\ ~Before'
    BY <2>1 DEF Before, Control
  <2>3. Wire'
    BY <1>2, <2>1, <2>2, QuietWire DEF Before, Opening, Sending, SendPCs
  <2>4. Pongs'
    <3>1. (Ponging' <=> Ponging) /\ (Reading' => Reading)
      BY <2>1, Zenon DEF Ponging, Sending, Reading
    <3> QED
      BY <1>2, <2>1, <2>2, <3>1, QuietPongs, Zenon
  <2> QED
    BY <1>1, <2>3, <2>4
<1>4. CASE StartRandom \/ Loop \/ Eof \/ Cleanup \/ Join \/ SendCloseFrame \/ Close
  <2>1. /\ pc["main"] \in {"hello", "loop", "recv", "cleanup", "join", "control", "close"}
        /\ pc'["main"] \in {"loop", "recv", "cleanup", "join", "lock", "send", "done"}
        /\ pc'["random"] = pc["random"] \/ pc["main"] = "hello"
        /\ pc'["main"] \in {"lock", "send"} => reply'.what \in {"DISCONNECT", "CLOSE"}
        /\ (active' => active) /\ (pc'["main"] = "recv" => active)
    <3>g. \A l : Goto("main", l) => pc'["main"] = l /\ pc'["random"] = pc["random"]
      BY DEF Goto, TypeOK
    <3>1. CASE StartRandom
      BY <3>1 DEF StartRandom, TypeOK
    <3>2. CASE Loop
      BY <3>2, <3>g DEF Loop
    <3>3. CASE Eof
      BY <3>3, <3>g DEF Eof
    <3>4. CASE Cleanup
      BY <3>4, <3>g DEF Cleanup, Stop
    <3>5. CASE Join
      BY <3>5, <3>g DEF Join
    <3>6. CASE SendCloseFrame
      BY <3>6, <3>g DEF SendCloseFrame
    <3>7. CASE Close
      BY <3>7, <3>g DEF Close
    <3> QED
      BY <1>4, <3>1, <3>2, <3>3, <3>4, <3>5, <3>6, <3>7, Zenon
  <2>2. ~Before /\ ~Before' /\ ~Opening /\ ~Ponging /\ ~Ponging' /\ (Reading' => Reading)
    BY <2>1 DEF Before, Opening, Sending, SendPCs, Ponging, Reading
  <2>3. Wire'
    BY <1>2, <2>1, <2>2, QuietWire DEF Control, SendPCs
  <2>4. Pongs'
    BY <1>2, <2>2, QuietPongs, Zenon DEF Pongs
  <2> QED
    BY <1>1, <2>3, <2>4, Zenon
<1> QED
  BY <1>3, <1>4

\* The steps of sendFrame and wsSendControl.
LEMMA SendStep ==
  ASSUME IInv, exit = "running", NEW t \in Threads, Send(t)
  PROVE  IInv'
<1> USE DEF IInv, procVars, sessVars, netVars
<1>1. TypeOK' /\ Control'
  BY SendKeeps
<1>2. Sending(t) /\ ~Before /\ pc["main"] # "done"
  BY Zenon DEF Send, LockAndTest, CallSend, CopyPart, SendError, Sending, SendPCs, Before, Control, Leaving
<1>3. ~Before' /\ \A u \in Threads \ {t} : pc'[u] = pc[u]
  <2>1. \/ pc' = pc \/ \E ok \in BOOLEAN : Goto(t, AfterSend(t, ok))
        \/ \E l \in SendPCs : Goto(t, l)
    BY Zenon DEF Send, LockAndTest, CallSend, CopyPart, SendError, SendReturns, SendPCs
  <2>2. \A ok \in BOOLEAN : t = "main" => AfterSend(t, ok) \notin {"connect", "dial", "retry", "handshake"}
    BY AfterFacts
  <2> QED
    BY <1>2, <2>1, <2>2 DEF Goto, Before, TypeOK, SendPCs
<1>4. CASE CopyPart(t)
  BY <1>1, <1>3, <1>4, CopyWire, CopyPongs
<1>5. CASE SendError(t)
  <2>1. peer = "rst" /\ UNCHANGED <<wire, in, pings, peer, randomId, active, reply>>
    BY <1>5, Zenon DEF SendError, SendReturns, NextId
  <2> QED
    BY <1>1, <1>2, <1>3, <2>1, QuietWire, QuietPongs
<1>6. CASE LockAndTest(t) /\ active
  <2>1. pc[t] = "lock" /\ pc'[t] = "send"
        /\ UNCHANGED <<wire, in, pings, peer, randomId, active, reply>>
    BY <1>6 DEF LockAndTest, Goto, TypeOK
  <2>2. \A u \in Threads : Sending(u)' <=> Sending(u)
    BY <1>3, <2>1 DEF Sending, SendPCs
  <2>3. (Opening' <=> Opening) /\ (Ponging' <=> Ponging) /\ Reading
    BY <1>6, <2>1, <2>2 DEF Opening, Ponging, Reading
  <2>4. Wire'
    BY <1>2, <1>3, <2>1, <2>3, QuietWire DEF SendPCs
  <2>5. Pongs'
    BY <1>3, <2>1, <2>3, QuietPongs, Zenon
  <2> QED
    BY <1>1, <2>4, <2>5
<1>7. CASE LockAndTest(t) /\ ~active
  <2>1. /\ pc[t] = "lock" /\ pc'[t] = AfterSend(t, FALSE)
        /\ UNCHANGED <<wire, in, pings, peer, randomId, active, reply>>
    BY <1>7, Zenon DEF LockAndTest, SendReturns, NextId, Goto, TypeOK
  <2>2. ~Opening
    BY <1>7, Zenon DEF Control
  <2>3. t = "main" => ~Ponging' /\ ~Reading'
    BY <1>7, <2>1, AfterFacts DEF Ponging, Sending, SendPCs, Reading, AfterSend
  <2>4. t = "random" => (Ponging' <=> Ponging) /\ (Reading' => Reading)
    BY <1>3, <2>1, Zenon DEF Ponging, Sending, Reading
  <2>5. Wire'
    BY <1>2, <1>3, <2>1, <2>2, QuietWire DEF SendPCs
  <2>6. Pongs'
    BY <1>3, <2>1, <2>3, <2>4, QuietPongs, Zenon DEF Pongs
  <2> QED
    BY <1>1, <2>5, <2>6, Zenon
<1>8. CASE CallSend(t)
  <2>1. sock
    BY <1>2 DEF Control, Before
  <2>2. pc[t] = "send" /\ pc'[t] = "insend"
        /\ UNCHANGED <<wire, in, pings, peer, randomId, active, reply>>
    BY <1>8, <2>1, Zenon DEF CallSend, Goto, TypeOK
  <2>3. \A u \in Threads : (Sending(u)' <=> Sending(u)) /\ (pc'[u] \in SendPCs <=> pc[u] \in SendPCs)
    BY <1>3, <2>2 DEF Sending, SendPCs
  <2>4. (Opening' <=> Opening) /\ (Ponging' <=> Ponging) /\ (Reading' => Reading)
    BY <1>3, <2>2, <2>3, Zenon DEF Opening, Ponging, Reading
  <2>5. Wire'
    BY <1>2, <1>3, <2>2, <2>3, <2>4, QuietWire
  <2>6. Pongs'
    BY <1>3, <2>2, <2>4, QuietPongs, Zenon
  <2> QED
    BY <1>1, <2>5, <2>6, Zenon
<1> QED
  BY <1>4, <1>5, <1>6, <1>7, <1>8 DEF Send

LEMMA ReceiveStep ==
  ASSUME IInv, exit = "running", Receive
  PROVE  IInv'
<1> USE DEF IInv, procVars
<1>1. TypeOK' /\ Control' /\ Pongs'
  BY MainKeeps, ReceivePongs
<1>2. /\ pc["main"] = "recv" /\ pc'["random"] = pc["random"]
      /\ \E l \in {"lock", "send", "cleanup", "recv", "loop"} : pc'["main"] = l
      /\ UNCHANGED <<wire, randomId, peer>>
  BY DEF Receive, Goto, TypeOK
<1>3. ~Before /\ ~Before' /\ ~Opening
  BY <1>2 DEF Before, Opening, Sending, SendPCs
<1>4. Wire'
  BY <1>2, <1>3, QuietWire DEF SendPCs
<1> QED
  BY <1>1, <1>4, Zenon

LEMMA Invariance == Spec => []IInv
<1>1. IInv /\ [Next]_vars => IInv'
  <2> SUFFICES ASSUME IInv, [Next]_vars PROVE IInv'
    OBVIOUS
  <2>1. CASE UNCHANGED vars
    <3> USE <2>1 DEF vars, procVars, sessVars, netVars
    <3>1. TypeOK'
      BY Zenon DEF IInv, TypeOK
    <3>2. Control'
      BY Zenon DEF IInv, Control, Binary, Sending, Before, Opening, Leaving
    <3>3. Wire'
      BY QuietWire, Zenon DEF IInv, Before, Opening, Sending
    <3>4. Pongs'
      <4>1. Ids("PONG")' = Ids("PONG") /\ (PongsInOrder => PongsInOrder')
        BY SameWire
      <4>2. (Before' <=> Before) /\ (Ponging' <=> Ponging) /\ (Reading' <=> Reading)
        BY Zenon DEF Before, Ponging, Sending, Reading
      <4>3. Queue => Queue'
        BY <4>1, <4>2, Zenon DEF Queue, Handled
      <4> QED
        BY <4>1, <4>2, <4>3 DEF IInv, Pongs
    <3> QED
      BY <3>1, <3>2, <3>3, <3>4, Zenon DEF IInv
  <2>2. CASE Next
    BY <2>2, ServerStep, AttemptStep, SessionStep, SendStep, ReceiveStep DEF Next, Main, Random
  <2> QED
    BY <2>1, <2>2
<1> QED
  BY <1>1, InitInv, PTL DEF Spec

\* Every reachable state of the client is well typed; in particular no frame has
\* more parts than were built and nothing exceeds the kernel's buffer.
THEOREM TypeCorrect == Spec => []TypeOK
BY Invariance, PTL DEF IInv

\* ws.sock is open whenever a thread is inside a send.
THEOREM Resources == Spec => []NoUseAfterClose
<1>1. IInv => NoUseAfterClose
  BY DEF IInv, Control, Before, Leaving, SendPCs, NoUseAfterClose
<1> QED
  BY <1>1, Invariance, PTL

\* No attempt and no end of tryConnect leaves a socket or a thread behind.
THEOREM NothingLeft == Spec => []Released
<1>1. IInv => Released
  BY DEF IInv, Control, Before, Leaving, Released
<1> QED
  BY <1>1, Invariance, PTL

\* HELLO opens every connection, also when its own send meets a reset.
THEOREM Greeting == Spec => []HelloFirst
BY Invariance, PTL DEF IInv, Wire

\* sendFrame keeps the binary frames of the two threads apart, however short the
\* kernel's writes are and whatever control frames come in between.
THEOREM WholeFrames == Spec => []BinaryContiguous
BY Invariance, PTL DEF IInv, Wire

\* randomThread numbers what it sends 1, 2, 3, ... without gap or repetition.
THEOREM RandomOrder == Spec => []RandomIdsInOrder
BY Invariance, PTL DEF IInv, Wire

\* The n-th PONG answers the n-th PING, however many PINGs wait in the kernel.
THEOREM PongOrder == Spec => []PongsInOrder
BY Invariance, PTL DEF IInv, Pongs
=============================================================================
