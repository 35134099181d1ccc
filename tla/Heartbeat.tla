------------------------------ MODULE Heartbeat ------------------------------
(***************************************************************************)
(* The timing of one session of the C++ server: pingThread sends a PING    *)
(* every PingInterval, the receive loop stores the time of every PONG, and *)
(* timeoutThread compares it with the clock every CheckInterval.           *)
(*                                                                         *)
(* Time is explicit: a step with a deadline can happen from the moment it  *)
(* is due, and time does not pass beyond its deadline.  sleep_for may      *)
(* oversleep by at most Jitter.  A client that answers has handed each     *)
(* PONG to the receive loop at most Delay after the PING was sent.  The    *)
(* system clock, which nowMs reads, may be put forward and back, but never *)
(* farther than Forward and Back from where it was at the start.           *)
(***************************************************************************)
EXTENDS Integers, Sequences

CONSTANTS
  PingInterval,   \* PING_INTERVAL_MS
  CheckInterval,  \* the sleep of timeoutThread
  Timeout,        \* SESSION_TIMEOUT_MS
  Jitter,         \* how late a sleeping thread may wake up
  Delay,          \* how late a PONG may be
  Unasked,        \* the client may send PONGs nobody asked for
  Back,           \* how far the system clock may be put back
  Forward,        \* how far it may be put forward
  MaxTime         \* bound: how long the model runs

ASSUME IntervalAssumption ==
  /\ PingInterval \in Nat \ {0} /\ CheckInterval \in Nat \ {0}
  /\ Timeout \in Nat /\ Jitter \in Nat /\ Delay \in Nat /\ MaxTime \in Nat
ASSUME ClientAssumption == Unasked \in BOOLEAN
ASSUME ClockAssumption == Back \in Nat /\ Forward \in Nat

VARIABLES
  active,     \* the session is active
  answers,    \* the client answers every PING in time
  now,        \* real time since the session started
  offset,     \* what system_clock shows, minus now
  lastPong,   \* lastPongTs: what system_clock showed at the last PONG
  pongAt,     \* when that was, in real time
  pingAt,     \* when pingThread last sent, or the start
  checkAt,    \* when timeoutThread last looked, or the start
  asked       \* the send times of the PINGs that are not answered yet

vars == <<active, answers, now, offset, lastPong, pongAt, pingAt, checkAt,
          asked>>

TypeOK ==
  /\ active \in BOOLEAN /\ answers \in BOOLEAN
  /\ now \in Nat /\ offset \in -Back..Forward /\ lastPong \in Int
  /\ pongAt \in Nat /\ pingAt \in Nat /\ checkAt \in Nat
  /\ asked \in Seq(Nat)

nowMs == now + offset

Init ==
  /\ active = TRUE /\ answers \in BOOLEAN
  /\ now = 0 /\ offset = 0 /\ lastPong = 0 /\ pongAt = 0
  /\ pingAt = 0 /\ checkAt = 0
  /\ asked = <<>>

\* Time passes, but not beyond the moment by which a thread is awake or a
\* client that answers has answered.
Tick ==
  /\ now < MaxTime
  /\ active => /\ now < pingAt + PingInterval + Jitter
               /\ now < checkAt + CheckInterval + Jitter
               /\ answers /\ asked # <<>> => now < Head(asked) + Delay
  /\ now' = now + 1
  /\ UNCHANGED <<active, answers, offset, lastPong, pongAt, pingAt, checkAt, asked>>

\* The system clock is put forward or back.
Step ==
  /\ offset' \in -Back..Forward
  /\ UNCHANGED <<active, answers, now, lastPong, pongAt, pingAt, checkAt, asked>>

\* pingThread wakes up and sends.
Ping ==
  /\ active /\ now >= pingAt + PingInterval
  /\ pingAt' = now
  /\ asked' = Append(asked, now)
  /\ UNCHANGED <<active, answers, now, offset, lastPong, pongAt, checkAt>>

\* The receive loop gets the PONG for the oldest PING: TCP keeps the order.
Pong ==
  /\ active /\ asked # <<>>
  /\ lastPong' = nowMs
  /\ asked' = Tail(asked)
  /\ pongAt' = now
  /\ UNCHANGED <<active, answers, now, offset, pingAt, checkAt>>

\* It gets a PONG that answers nothing: the timestamp is not looked at.
UnaskedPong ==
  /\ active /\ Unasked
  /\ lastPong' = nowMs
  /\ pongAt' = now
  /\ UNCHANGED <<active, answers, now, offset, pingAt, checkAt, asked>>

\* Mutation: a session expires when its PONG is just not overdue.
CheckEager ==
  /\ active /\ now >= checkAt + CheckInterval
  /\ checkAt' = now
  /\ active' = ~(nowMs - lastPong >= Timeout)
  /\ UNCHANGED <<answers, now, offset, lastPong, pongAt, pingAt, asked>>

\* Mutation: a session expires one interval too late.
CheckLate ==
  /\ active /\ now >= checkAt + CheckInterval
  /\ checkAt' = now
  /\ active' = ~(nowMs - lastPong > Timeout + CheckInterval)
  /\ UNCHANGED <<answers, now, offset, lastPong, pongAt, pingAt, asked>>

\* timeoutThread wakes up and compares.
Check ==
  /\ active /\ now >= checkAt + CheckInterval
  /\ checkAt' = now
  /\ active' = ~(nowMs - lastPong > Timeout)
  /\ UNCHANGED <<answers, now, offset, lastPong, pongAt, pingAt, asked>>

Next == Tick \/ Step \/ Ping \/ Pong \/ UnaskedPong \/ Check

Spec == Init /\ [][Next]_vars

-----------------------------------------------------------------------------
(* Properties.                                                             *)

\* The most that two readings of the system clock are off by.
Spread == Back + Forward

\* The intervals leave a client that answers the time it needs, also when the
\* clock is put forward as far as it may be.
Generous == answers /\ PingInterval + Jitter + Delay + Spread <= Timeout

\* A client that answers every PING in time is never timed out: timeoutThread
\* (ws_server.cpp:120) never finds its last PONG too old, as long as the slack of
\* the intervals covers what the system clock, which nowMs reads, is put forward
\* by between the PONG and the check.
NoFalseTimeout == Generous => active

\* A session is gone at the latest one check after its PONG is overdue, however
\* the PINGs, the PONGs and the checks of timeoutThread interleave; a clock that
\* is put back in between delays that by what it was put back, and no more.
RemovedInTime ==
  active => now <= pongAt + Timeout + Spread + CheckInterval + Jitter
=============================================================================
