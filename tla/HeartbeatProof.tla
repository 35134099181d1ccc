--------------------------- MODULE HeartbeatProof ----------------------------
(***************************************************************************)
(* For every choice of intervals, delays and jitter, and however far the   *)
(* system clock is put forward and back: the time-out removes a silent     *)
(* session in time, and never an answering one if the slack of the         *)
(* intervals covers what the clock is off by.                              *)
(***************************************************************************)
EXTENDS Heartbeat, TLAPS

LEMMA TypeCorrect == Spec => []TypeOK
<1>1. Init => TypeOK
  BY ClockAssumption DEF Init, TypeOK
<1>2. TypeOK /\ [Next]_vars => TypeOK'
  <2> SUFFICES ASSUME TypeOK, [Next]_vars PROVE TypeOK'
    OBVIOUS
  <2>1. CASE Tick
    BY <2>1 DEF Tick, TypeOK
  <2>2. CASE Step
    BY <2>2 DEF Step, TypeOK
  <2>3. CASE Ping
    BY <2>3 DEF Ping, TypeOK
  <2>4. CASE Pong
    BY <2>4, ClockAssumption DEF Pong, TypeOK, nowMs
  <2>5. CASE UnaskedPong
    BY <2>5, ClockAssumption DEF UnaskedPong, TypeOK, nowMs
  <2>6. CASE Check
    BY <2>6 DEF Check, TypeOK
  <2>7. CASE UNCHANGED vars
    BY <2>7 DEF vars, TypeOK
  <2> QED
    BY <2>1, <2>2, <2>3, <2>4, <2>5, <2>6, <2>7 DEF Next
<1> QED
  BY <1>1, <1>2, PTL DEF Spec

-----------------------------------------------------------------------------
(* Removal.                                                                *)

\* The clock showed no more at the last PONG than it can ever have shown then;
\* the last check found the PONG fresh; the next one is not late.
Checked ==
  /\ lastPong <= pongAt + Forward
  /\ active => /\ checkAt <= pongAt + Timeout + Spread
               /\ now <= checkAt + CheckInterval + Jitter
  /\ pongAt <= now

\* timeoutThread removes a session at most one check after its PONG is overdue,
\* later only by what the system clock can be put back.
THEOREM Removal == Spec => []RemovedInTime
<1>1. Init => Checked
  BY IntervalAssumption, ClockAssumption DEF Init, Checked, Spread
<1>2. TypeOK /\ Checked /\ [Next]_vars => Checked'
  <2> SUFFICES ASSUME TypeOK, Checked, [Next]_vars PROVE Checked'
    OBVIOUS
  <2> USE IntervalAssumption, ClockAssumption DEF TypeOK, Checked, Spread
  <2>1. CASE Tick
    BY <2>1 DEF Tick
  <2>2. CASE Step
    BY <2>2 DEF Step
  <2>3. CASE Ping
    BY <2>3 DEF Ping
  <2>4. CASE Pong
    BY <2>4 DEF Pong, nowMs
  <2>5. CASE UnaskedPong
    BY <2>5 DEF UnaskedPong, nowMs
  <2>6. CASE Check
    <3>1. active' = ~(nowMs - lastPong > Timeout)
      BY <2>6, Zenon DEF Check
    <3>2. /\ checkAt' = now
          /\ UNCHANGED <<now, offset, lastPong, pongAt>>
      BY <2>6 DEF Check
    <3>3. active' => now + offset - lastPong <= Timeout
      <4> SUFFICES ASSUME active' PROVE now + offset - lastPong <= Timeout
        OBVIOUS
      <4>1. ~(nowMs - lastPong > Timeout)
        BY <3>1, Zenon
      <4> QED
        BY <4>1 DEF nowMs
    <3> QED
      BY <3>2, <3>3
  <2>7. CASE UNCHANGED vars
    BY <2>7 DEF vars
  <2> QED
    BY <2>1, <2>2, <2>3, <2>4, <2>5, <2>6, <2>7 DEF Next
<1>3. TypeOK /\ Checked => RemovedInTime
  BY IntervalAssumption, ClockAssumption DEF TypeOK, Checked, RemovedInTime, Spread
<1> QED
  BY <1>1, <1>2, <1>3, TypeCorrect, PTL DEF Spec

-----------------------------------------------------------------------------
(* No false time-out.                                                      *)

Gap == PingInterval + Jitter

\* The PINGs that wait for their PONG: sent one after the other, at most Gap
\* apart, the last one by the latest wake-up of pingThread.
Waiting ==
  /\ \A n \in 1..Len(asked) : asked[n] <= now
  /\ \A n \in 1..Len(asked) - 1 :
       asked[n] <= asked[n + 1] /\ asked[n + 1] <= asked[n] + Gap
  /\ asked # <<>> => asked[Len(asked)] = pingAt

\* The oldest PING that waits is not late, and the last PONG is no older than the
\* PING before it; the clock showed at that PONG no less than it ever can.
Fresh ==
  /\ lastPong >= pongAt - Back /\ pongAt <= now
  /\ pingAt <= now /\ now <= pingAt + Gap
  /\ asked = <<>> => pingAt <= pongAt
  /\ asked # <<>> => now <= asked[1] + Delay /\ asked[1] <= pongAt + Gap

\* A PING joins the queue at its end.
LEMMA PingWaits ==
  ASSUME now \in Nat, pingAt \in Nat, asked \in Seq(Nat), Gap \in Nat,
         pingAt <= now, now <= pingAt + Gap, Waiting,
         asked' = Append(asked, now), pingAt' = now, now' = now
  PROVE  Waiting'
<1>1. /\ Len(asked) \in Nat /\ Len(asked') = Len(asked) + 1
      /\ \A n \in 1..Len(asked) : asked'[n] = asked[n]
      /\ asked'[Len(asked) + 1] = now
  OBVIOUS
<1>2. \A n \in 1..Len(asked') : asked'[n] <= now
  BY <1>1 DEF Waiting
<1>3. ASSUME NEW n \in 1..Len(asked') - 1
      PROVE  asked'[n] <= asked'[n + 1] /\ asked'[n + 1] <= asked'[n] + Gap
  <2>1. CASE n = Len(asked)
    <3>1. asked # <<>> /\ asked[n] = pingAt
      BY <1>1, <2>1 DEF Waiting
    <3> QED
      BY <1>1, <2>1, <3>1
  <2>2. CASE n # Len(asked)
    BY <1>1, <2>2 DEF Waiting
  <2> QED
    BY <2>1, <2>2
<1> QED
  BY <1>1, <1>2, <1>3 DEF Waiting, Gap

\* A PONG leaves the rest of the queue, whose first PING came soon after the one
\* that is answered.
LEMMA PongFresh ==
  ASSUME now \in Nat, pingAt \in Nat, asked \in Seq(Nat), Gap \in Nat,
         offset \in -Back..Forward, Delay \in Nat, asked # <<>>, Waiting, Fresh,
         asked' = Tail(asked), lastPong' = now + offset, pongAt' = now,
         now' = now, offset' = offset, pingAt' = pingAt
  PROVE  Fresh'
<1>1. /\ Len(asked) \in Nat \ {0} /\ Len(asked') = Len(asked) - 1
      /\ \A n \in 1..Len(asked') : asked'[n] = asked[n + 1]
      /\ asked' \in Seq(Nat) /\ asked[1] \in Nat
  OBVIOUS
<1>2. asked' # <<>> => now <= asked'[1] + Delay /\ asked'[1] <= now + Gap
  <2> SUFFICES ASSUME asked' # <<>> PROVE now <= asked'[1] + Delay /\ asked'[1] <= now + Gap
    OBVIOUS
  <2>1. 1 \in 1..Len(asked) - 1 /\ 2 \in 1..Len(asked) /\ asked'[1] = asked[2]
    BY <1>1
  <2>a. asked[1] <= asked[1 + 1] /\ asked[2] <= now
    BY <2>1, Zenon DEF Waiting
  <2>2. asked[1] <= asked[2] /\ asked[2] <= now /\ asked[2] \in Nat
    BY <2>1, <2>a
  <2>3. now <= asked[1] + Delay
    BY DEF Fresh
  <2>4. asked[2] <= now + Gap
    BY <2>2
  <2>5. now <= asked[2] + Delay
    BY <1>1, <2>2, <2>3
  <2> QED
    BY <2>1, <2>4, <2>5
<1>3. now + offset >= now - Back /\ now <= now /\ pingAt <= now
      /\ now <= pingAt + Gap
  BY ClockAssumption DEF Fresh
<1> QED
  BY <1>2, <1>3 DEF Fresh, Gap

\* With intervals that leave it the time to answer, a client that answers is never
\* timed out by timeoutThread, however the system clock is put forward and back.
THEOREM NoFalseRemoval == Spec => []NoFalseTimeout
<1> DEFINE I == /\ answers /\ active => Waiting /\ Fresh
                /\ NoFalseTimeout
<1>1. Init => I
  BY IntervalAssumption, ClockAssumption DEF Init, Waiting, Fresh, Gap, NoFalseTimeout
<1> HIDE DEF I
<1>2. TypeOK /\ I /\ [Next]_vars => I'
  <2> SUFFICES ASSUME TypeOK, I, [Next]_vars PROVE I'
    OBVIOUS
  <2>a. answers' = answers
    BY DEF Next, Tick, Step, Ping, Pong, UnaskedPong, Check, vars
  <2>b. active' => active
    <3>1. CASE Check
      BY <3>1, Zenon DEF Check
    <3>2. CASE ~Check
      BY <3>2 DEF Next, Tick, Step, Ping, Pong, UnaskedPong, vars
    <3> QED
      BY <3>1, <3>2
  <2>c. Generous' => Generous
    BY <2>a, Zenon DEF Generous
  <2>d. ASSUME answers, active, Waiting, Fresh
        PROVE  Waiting' /\ Fresh'
    <3>0. /\ Waiting /\ Fresh
          /\ now \in Nat /\ pingAt \in Nat /\ asked \in Seq(Nat) /\ Gap \in Nat
          /\ offset \in -Back..Forward /\ pingAt <= now /\ now <= pingAt + Gap /\ Delay \in Nat
      <4>1. Gap \in Nat /\ Delay \in Nat
        BY IntervalAssumption DEF Gap
      <4> QED
        BY <2>d, <4>1 DEF TypeOK, Fresh
    <3> USE IntervalAssumption, ClockAssumption DEF TypeOK, Gap
    <3>1. CASE Tick
      BY <2>d, <3>1 DEF Tick, Waiting, Fresh
    <3>2. CASE Step
      BY <2>d, <3>2 DEF Step, Waiting, Fresh
    <3>3. CASE Ping
      <4>1. /\ asked' = Append(asked, now) /\ pingAt' = now
            /\ UNCHANGED <<now, offset, lastPong, pongAt>>
        BY <3>3 DEF Ping
      <4>2. /\ Len(asked') = Len(asked) + 1
            /\ \A n \in 1..Len(asked) : asked'[n] = asked[n]
            /\ asked'[Len(asked) + 1] = now
        BY <4>1
      <4>3. Waiting'
        BY <3>0, <4>1, PingWaits, Zenon
      <4>4. Fresh'
        BY <3>0, <4>1, <4>2 DEF Fresh
      <4> QED
        BY <4>3, <4>4
    <3>4. CASE Pong
      <4>1. /\ asked # <<>> /\ asked' = Tail(asked)
            /\ lastPong' = now + offset /\ pongAt' = now
            /\ UNCHANGED <<now, offset, pingAt>>
        BY <3>4 DEF Pong, nowMs
      <4>2. /\ Len(asked') = Len(asked) - 1
            /\ \A n \in 1..Len(asked') : asked'[n] = asked[n + 1]
        BY <4>1
      <4>3. Waiting'
        BY <3>0, <4>1, <4>2 DEF Waiting
      <4>4. Fresh'
        BY <3>0, <4>1, PongFresh, Zenon
      <4> QED
        BY <4>3, <4>4
    <3>5. CASE UnaskedPong
      BY <2>d, <3>5 DEF UnaskedPong, nowMs, Waiting, Fresh
    <3>6. CASE Check
      BY <2>d, <3>6 DEF Check, Waiting, Fresh
    <3>7. CASE UNCHANGED vars
      BY <2>d, <3>7 DEF vars, Waiting, Fresh
    <3> QED
      BY <3>1, <3>2, <3>3, <3>4, <3>5, <3>6, <3>7 DEF Next
  <2>e. ASSUME Generous, active, Waiting, Fresh, Check
        PROVE  active'
    <3>1. ~(nowMs - lastPong > Timeout)
      BY <2>e, IntervalAssumption, ClockAssumption DEF TypeOK, nowMs, Fresh, Generous, Gap, Spread
    <3>2. active' = ~(nowMs - lastPong > Timeout)
      BY <2>e, Zenon DEF Check
    <3> QED
      BY <3>1, <3>2, Zenon
  <2>f. answers' /\ active' => Waiting' /\ Fresh'
    BY <2>a, <2>b, <2>d, Zenon DEF I
  <2>g. NoFalseTimeout'
    <3> SUFFICES ASSUME Generous' PROVE active'
      BY Zenon DEF NoFalseTimeout
    <3>1. Generous /\ answers /\ active
      BY <2>c, Zenon DEF I, NoFalseTimeout, Generous
    <3>2. Waiting /\ Fresh
      BY <3>1, Zenon DEF I
    <3>3. CASE Check
      BY <2>e, <3>1, <3>2, <3>3, Zenon
    <3>4. CASE ~Check
      BY <3>1, <3>4 DEF Next, Tick, Step, Ping, Pong, UnaskedPong, vars
    <3> QED
      BY <3>3, <3>4
  <2> QED
    BY <2>f, <2>g DEF I
<1>3. I => NoFalseTimeout
  BY DEF I
<1> QED
  BY <1>1, <1>2, <1>3, TypeCorrect, PTL DEF Spec
=============================================================================
