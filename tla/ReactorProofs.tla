--------------------------- MODULE ReactorProofs ---------------------------
(***************************************************************************)
(* What the reactor guarantees for any number of calling threads,          *)
(* descriptors, timers and tasks.                                          *)
(*                                                                         *)
(* No request is slept through.  WakeInv follows a request from the push   *)
(* (or the flag) through the gap before the eventfd write to the write     *)
(* itself, from the moment the loop can no longer see it in this round.    *)
(*                                                                         *)
(* The next deadline is watched while the loop waits: what wait_timeout()  *)
(* arranged is early enough and stays so.                                  *)
(*                                                                         *)
(* Registrations stay exact.  RegistrationInv orders the operations still  *)
(* queued: a number's next registration comes after the removal of its     *)
(* previous one, so the kernel's list, which goes by number, is changed    *)
(* for the token it was meant for.                                         *)
(***************************************************************************)
EXTENDS Reactor, SequenceTheorems, WellFoundedInduction, TLAPS

\* Between its first look at stop_requested_ and the wait.
StopInv == pc \in {"timers", "arm", "wait"} /\ stop => wakeFd \/ Waking

WakeInv ==
    /\ call \in [Callers -> {"idle", "wake"}]
    /\ QueuedIsAnnounced
    /\ StopInv

LEMMA InitWakeInv == Init => WakeInv
BY DEF Init, WakeInv, QueuedIsAnnounced, StopInv

\* A caller that leaves its wake for later is waking; one that was about to write
\* the eventfd is not disturbed by another caller.
LEMMA CallerWakes ==
    ASSUME NEW c \in Callers, call \in [Callers -> {"idle", "wake"}],
           call' = [call EXCEPT ![c] = "wake"]
    PROVE  call' \in [Callers -> {"idle", "wake"}] /\ Waking'
<1>1. call'[c] = "wake"
  OBVIOUS
<1> QED
  BY <1>1 DEF Waking

LEMMA StepWakeInv == WakeInv /\ [Next]_vars => WakeInv'
<1> SUFFICES ASSUME WakeInv, [Next]_vars PROVE WakeInv'
  OBVIOUS
<1> USE DEF WakeInv
<1>1. ASSUME NEW c \in Callers, Caller(c) PROVE WakeInv'
  <2>1. CASE \E op : Enqueue(c, op) /\ UNCHANGED <<pc, stop, wakeFd>>
    BY <2>1, CallerWakes DEF Enqueue, QueuedIsAnnounced, StopInv
  <2>2. CASE Stop(c)
    BY <2>2, CallerWakes DEF Stop, loopVars, QueuedIsAnnounced, StopInv
  <2>3. CASE Open(c) \/ Close(c)
    BY <2>3 DEF Open, Close, loopVars, QueuedIsAnnounced, StopInv, Waking
  <2> QED
    BY <1>1, <2>1, <2>2, <2>3 DEF Caller, Post, AddFd, RemoveFd, AddTimer, loopVars
<1>2. ASSUME NEW c \in Callers, Wake(c) PROVE WakeInv'
  BY <1>2 DEF Wake, loopVars, QueuedIsAnnounced, StopInv
<1>3. CASE Drain
  BY <1>3 DEF Drain, QueuedIsAnnounced, StopInv
<1>4. CASE RunOp
  BY <1>4 DEF RunOp, QueuedIsAnnounced, StopInv, Waking
<1>5. CASE OpsDone
  BY <1>5 DEF OpsDone, QueuedIsAnnounced, StopInv, Waking
<1>6. CASE FireTimer
  BY <1>6 DEF FireTimer, QueuedIsAnnounced, StopInv, Waking
<1>7. CASE TimersDone
  BY <1>7 DEF TimersDone, QueuedIsAnnounced, StopInv, Waking
<1>8. CASE WaitTimeout
  BY <1>8 DEF WaitTimeout, QueuedIsAnnounced, StopInv, Waking
<1>9. CASE WaitReturns \/ WaitInterrupted
  BY <1>9 DEF WaitReturns, WaitInterrupted, QueuedIsAnnounced, StopInv
<1>10. CASE DispatchDone \/ \E e \in ready : DispatchReadyEvent(e)
  BY <1>10 DEF DispatchDone, DispatchReadyEvent, QueuedIsAnnounced, StopInv
<1>11. CASE CallbackThrows
  BY <1>11 DEF CallbackThrows, QueuedIsAnnounced, StopInv
<1>12. CASE Tick \/ UNCHANGED vars
  BY <1>12 DEF Tick, vars, loopVars, QueuedIsAnnounced, StopInv, Waking
<1> QED
  BY <1>1, <1>2, <1>3, <1>4, <1>5, <1>6, <1>7, <1>8, <1>9, <1>10, <1>11, <1>12
     DEF Next, Loop

\* With any number of callers the loop never sleeps on a queued operation
\* (reactor.cpp:514-522, 567-574).
THEOREM NoLostWake == Spec => []QueuedIsAnnounced
<1>1. WakeInv => QueuedIsAnnounced
  BY DEF WakeInv
<1> QED
  BY <1>1, InitWakeInv, StepWakeInv, PTL DEF Spec

\* Nor on a stop request (reactor.cpp:392-408, 439-449).
THEOREM NoLostStop == Spec => []StopIsAnnounced
<1>1. WakeInv => StopIsAnnounced
  BY DEF WakeInv, StopInv, StopIsAnnounced
<1> QED
  BY <1>1, InitWakeInv, StepWakeInv, PTL DEF Spec

\* Together: what another thread asks of the loop is never slept through.
THEOREM NoRequestSleptThrough == Spec => []RequestsAnnounced
  BY NoLostWake, NoLostStop, PTL DEF RequestsAnnounced
-----------------------------------------------------------------------------
(* Types.  A registration is queued for a descriptor the caller has open.   *)

\* A nonempty set of naturals has a least element.
LEMMA Least ==
    ASSUME NEW S \in SUBSET Nat, S # {}
    PROVE  Min(S) \in S /\ \A y \in S : Min(S) <= y
<1> DEFINE Less == {ss \in Nat \X Nat : ss[1] < ss[2]}
<1>1. OpToRel(<, Nat) = Less
  BY Zenon DEF OpToRel
<1>2. IsWellFoundedOn(Less, Nat)
  BY <1>1, NatLessThanWellFounded, Zenon
<1> HIDE DEF Less
<1>3. PICK x \in S : \A y \in S : ~(<<y, x>> \in Less)
  BY <1>2, WFMin
<1>4. \A y \in S : x <= y
  <2> SUFFICES ASSUME NEW y \in S PROVE x <= y
    OBVIOUS
  <2>1. x \in Nat /\ y \in Nat
    OBVIOUS
  <2>2. y < x => <<y, x>> \in Less
    BY <2>1 DEF Less
  <2> QED
    BY <1>3, <2>1, <2>2
<1> QED
  BY <1>4 DEF Min

\* The next deadline, and the wait's timeout for it: rounded up, and by less
\* than a millisecond (reactor.cpp:831-852).
LEMMA EarliestValue ==
    ASSUME TypeOK
    PROVE  /\ timers = {} => Earliest = None
           /\ timers # {} => /\ Earliest \in Nat
                             /\ \E t \in timers : t.deadline = Earliest
                             /\ \A t \in timers : Earliest <= t.deadline
<1>1. CASE timers # {}
  <2> DEFINE S == {t.deadline : t \in timers}
  <2>1. S \in SUBSET Nat /\ S # {}
    BY <1>1 DEF TypeOK
  <2>2. Min(S) \in S /\ \A y \in S : Min(S) <= y
    BY <2>1, Least
  <2>3. Earliest = Min(S)
    BY <1>1 DEF Earliest
  <2> QED
    BY <1>1, <2>1, <2>2, <2>3
<1> QED
  BY <1>1 DEF Earliest

LEMMA RoundUp ==
    ASSUME NEW m \in Nat \ {0}, NEW x \in Nat \ {0}
    PROVE  /\ (x + m - 1) \div m \in Nat
           /\ x <= m * ((x + m - 1) \div m)
           /\ m * ((x + m - 1) \div m) < x + m
<1> DEFINE y == x + m - 1
           d == y \div m
<1>1. y \in Nat
  OBVIOUS
<1>2. d \in Int /\ m * d <= y /\ y < m * d + m /\ d >= 0
  BY <1>1
<1> QED
  BY <1>1, <1>2

LEMMA TimeoutValue ==
    ASSUME TypeOK
    PROVE  /\ EpollTimeout \in Nat \cup {None}
           /\ timers # {} =>
                 /\ EpollTimeout # None
                 /\ EpollTimeout < (IF Earliest < now THEN now ELSE Earliest) + Milli
<1>1. now \in Nat /\ Milli \in Nat \ {0}
  BY ReactorAssumption DEF TypeOK
<1>2. CASE timers = {}
  BY <1>2 DEF EpollTimeout
<1>3. CASE timers # {} /\ Earliest <= now
  <2>1. EpollTimeout = now /\ Earliest \in Nat
    BY <1>3, EarliestValue DEF EpollTimeout
  <2> QED
    BY <1>1, <1>3, <2>1 DEF None
<1>4. CASE timers # {} /\ ~(Earliest <= now)
  <2> DEFINE x == Earliest - now
             r == Milli * ((x + Milli - 1) \div Milli)
  <2>1. Earliest \in Nat /\ x \in Nat \ {0} /\ now < Earliest
    BY <1>1, <1>4, EarliestValue
  <2>2. r \in Nat /\ r < x + Milli
    <3>1. (x + Milli - 1) \div Milli \in Nat /\ r < x + Milli
      BY <1>1, <2>1, RoundUp
    <3> QED
      BY <1>1, <3>1
  <2>3. EpollTimeout = now + r
    BY <1>4 DEF EpollTimeout
  <2> HIDE DEF r
  <2> QED
    BY <1>1, <1>4, <2>1, <2>2, <2>3 DEF None
<1> QED
  BY <1>2, <1>3, <1>4

GoodOps == {op \in Ops : op.kind = "add" => op.fd \in FdNumbers}

TypeInv == TypeOK /\ pending \in Seq(GoodOps) /\ batch \in Seq(GoodOps)

\* What the callers queue.
LEMMA OpKinds ==
    ASSUME NEW n \in Nat
    PROVE  /\ Task(n) \in GoodOps /\ Task(n).kind = "task"
           /\ \A d \in Nat : Timer(n, d) \in GoodOps /\ Timer(n, d).kind = "timer"
           /\ \A fd \in FdNumbers : /\ Add(n, fd) \in GoodOps /\ Add(n, fd).kind = "add"
                                    /\ Add(n, fd).token = n /\ Add(n, fd).fd = fd
           /\ Remove(n) \in GoodOps /\ Remove(n).kind = "remove" /\ Remove(n).token = n
  BY ReactorAssumption DEF Task, Timer, Add, Remove, GoodOps, Ops

LEMMA TypeInit == Init => TypeInv
<1> SUFFICES ASSUME Init PROVE TypeInv
  OBVIOUS
<1>1. DOMAIN fds = {}
  BY DEF Init
<1>2. /\ pending \in Seq(Ops) /\ batch \in Seq(Ops) /\ ran \in Seq(Nat)
      /\ pending \in Seq(GoodOps) /\ batch \in Seq(GoodOps)
  BY DEF Init
<1>3. now \in 0 .. MaxTime
  BY ReactorAssumption DEF Init
<1> QED
  BY <1>1, <1>2, <1>3 DEF Init, TypeInv, TypeOK, LoopStates, FirstToken

LEMMA GoodSeq == \A s \in Seq(GoodOps) : s \in Seq(Ops)
  BY DEF GoodOps

LEMMA TypeStep == TypeInv /\ [Next]_vars => TypeInv'
<1> SUFFICES ASSUME TypeInv, [Next]_vars PROVE TypeInv'
  OBVIOUS
<1> USE DEF TypeInv, loopVars, watchVars, clientVars
<1>1. ASSUME NEW c \in Callers, NEW op \in GoodOps, Enqueue(c, op)
      PROVE  /\ call' \in [Callers -> {"idle", "wake"}]
             /\ pending' \in Seq(GoodOps) /\ pending' \in Seq(Ops)
  <2>1. pending' \in Seq(GoodOps)
    BY <1>1, AppendProperties DEF Enqueue
  <2> QED
    BY <1>1, <2>1, GoodSeq DEF Enqueue, TypeOK
<1>2. ASSUME NEW c \in Callers, Caller(c) PROVE TypeInv'
  <2>1. CASE Post(c)
    <3>1. Task(posted + 1) \in GoodOps /\ posted + 1 \in Nat
      BY OpKinds DEF TypeOK
    <3> QED
      BY <1>1, <2>1, <3>1 DEF Post, TypeOK
  <2>2. ASSUME NEW d \in Delays, AddTimer(c, d) PROVE TypeInv'
    <3>1. Timer(nextToken, d) \in GoodOps /\ nextToken + 1 \in Nat
      <4>1. d \in Nat /\ nextToken \in Nat
        BY ReactorAssumption DEF TypeOK
      <4> QED
        BY <4>1, OpKinds
    <3> QED
      BY <1>1, <2>2, <3>1 DEF AddTimer, TypeOK
  <2>3. CASE AddFd(c)
    <3>1. Add(nextToken, file[c]) \in GoodOps /\ nextToken \in Nat /\ nextToken + 1 \in Nat
      BY <2>3, OpKinds DEF AddFd, TypeOK
    <3> QED
      BY <1>1, <2>3, <3>1 DEF AddFd, TypeOK
  <2>4. CASE RemoveFd(c)
    <3>1. Remove(token[c]) \in GoodOps
      BY OpKinds DEF TypeOK
    <3> QED
      BY <1>1, <2>4, <3>1 DEF RemoveFd, TypeOK
  <2>5. CASE Stop(c)
    BY <2>5 DEF Stop, TypeOK
  <2>6. CASE Open(c)
    <3>1. PICK n \in FdNumbers : file' = [file EXCEPT ![c] = n]
      BY <2>6, Least, ReactorAssumption DEF Open
    <3>2. file' \in [Callers -> FdNumbers \cup {0}]
      BY <3>1 DEF TypeOK
    <3> QED
      BY <2>6, <3>2 DEF Open, TypeOK
  <2>7. CASE Close(c)
    BY <2>7 DEF Close, TypeOK
  <2> QED
    BY <1>2, <2>1, <2>2, <2>3, <2>4, <2>5, <2>6, <2>7 DEF Caller
<1>3. ASSUME NEW c \in Callers, Wake(c) PROVE TypeInv'
  BY <1>3 DEF Wake, TypeOK
<1>4. CASE Drain
  BY <1>4 DEF Drain, TypeOK, LoopStates
<1>5. CASE RunOp
  <2> DEFINE op == Head(batch)
  <2>1. op \in GoodOps /\ Tail(batch) \in Seq(GoodOps) /\ Tail(batch) \in Seq(Ops)
    BY <1>5, HeadTailProperties, GoodSeq DEF RunOp
  <2>2. /\ op.token \in Nat /\ op.delay \in Nat /\ op.fd \in Nat
        /\ op.kind = "add" => op.fd \in FdNumbers
    BY <2>1 DEF GoodOps, Ops
  <2>3. \/ op.kind = "add" /\ AddFdOnReactor(op) /\ UNCHANGED <<timers, ran>>
        \/ op.kind = "remove" /\ RemoveFdOnReactor(op) /\ UNCHANGED <<timers, ran>>
        \/ /\ op.kind = "timer"
           /\ timers' = timers \cup {[token |-> op.token, deadline |-> now + op.delay]}
           /\ UNCHANGED <<watchVars, ran>>
        \/ op.kind = "task" /\ ran' = Append(ran, op.token) /\ UNCHANGED <<watchVars, timers>>
    BY <1>5 DEF RunOp
  <2> HIDE DEF op
  <2>4. /\ cancelled' \subseteq Nat /\ epoll' \in [FdNumbers -> Nat]
        /\ DOMAIN fds' \subseteq Nat /\ \A t \in DOMAIN fds' : fds'[t] \in FdNumbers
    <3>1. CASE op.kind = "add" /\ AddFdOnReactor(op)
      <4>1. CASE UNCHANGED <<fds, epoll>>
        BY <3>1, <4>1 DEF AddFdOnReactor, TypeOK
      <4>2. CASE /\ epoll' = [epoll EXCEPT ![op.fd] = op.token]
                 /\ fds' = With(fds, op.token, op.fd)
                 /\ cancelled' = cancelled
        BY <2>2, <3>1, <4>2 DEF With, TypeOK
      <4> QED
        BY <3>1, <4>1, <4>2 DEF AddFdOnReactor
    <3>2. CASE RemoveFdOnReactor(op)
      <4>1. CASE op.token \notin DOMAIN fds
        BY <2>2, <3>2, <4>1 DEF RemoveFdOnReactor, TypeOK
      <4>2. CASE op.token \in DOMAIN fds
        <5>1. /\ epoll' = [epoll EXCEPT ![fds[op.token]] = 0]
              /\ fds' = Without(fds, op.token) /\ cancelled' = cancelled
          BY <3>2, <4>2 DEF RemoveFdOnReactor
        <5> QED
          BY <5>1 DEF Without, TypeOK
      <4> QED
        BY <4>1, <4>2
    <3>3. CASE UNCHANGED watchVars
      BY <3>3 DEF TypeOK
    <3> QED
      BY <2>3, <3>1, <3>2, <3>3
  <2>5. \A t \in timers' : t.token \in Nat /\ t.deadline \in Nat
    <3>1. now + op.delay \in Nat
      BY <2>2, ReactorAssumption DEF TypeOK
    <3> QED
      BY <2>2, <2>3, <3>1 DEF TypeOK
  <2>6. ran' \in Seq(Nat)
    <3>1. ran \in Seq(Nat) /\ Append(ran, op.token) \in Seq(Nat)
      BY <2>2, AppendProperties DEF TypeOK
    <3>2. ran' = ran \/ ran' = Append(ran, op.token)
      BY <2>3
    <3> QED
      BY <3>1, <3>2
  <2> QED
    BY <1>5, <2>1, <2>4, <2>5, <2>6 DEF RunOp, TypeOK
<1>6. CASE CallbackThrows
  BY <1>6 DEF CallbackThrows, TypeOK, LoopStates
<1>7. CASE OpsDone
  BY <1>7, ReactorAssumption DEF OpsDone, TypeOK, LoopStates
<1>8. CASE FireTimer
  BY <1>8 DEF FireTimer, TypeOK, LoopStates
<1>9. CASE TimersDone
  BY <1>9 DEF TimersDone, TypeOK, LoopStates
<1>10. CASE WaitTimeout
  <2>1. armed' \in Nat \cup {None} /\ limit' \in Nat \cup {None}
    BY <1>10, EarliestValue, TimeoutValue DEF WaitTimeout, TypeOK
  <2> QED
    BY <1>10, <2>1 DEF WaitTimeout, TypeOK, LoopStates
<1>11. CASE WaitReturns
  <2>1. Watched \subseteq Nat
    BY DEF Watched, TypeOK
  <2>2. ready' \subseteq Nat \cup {TimerToken}
    <3>1. PICK readable \in SUBSET Watched :
             ready' = readable \cup (IF wakeFd THEN {WakeToken} ELSE {})
                               \cup (IF TimerFdReadable THEN {TimerToken} ELSE {})
      BY <1>11 DEF WaitReturns
    <3>2. WakeToken \in Nat
      BY DEF WakeToken
    <3> QED
      BY <2>1, <3>1, <3>2
  <2> QED
    BY <1>11, <2>2 DEF WaitReturns, TypeOK, LoopStates
<1>12. CASE WaitInterrupted
  BY <1>12 DEF WaitInterrupted, TypeOK, LoopStates
<1>13. ASSUME NEW e \in ready, DispatchReadyEvent(e) PROVE TypeInv'
  BY <1>13 DEF DispatchReadyEvent, TypeOK
<1>14. CASE DispatchDone
  BY <1>14 DEF DispatchDone, TypeOK, LoopStates
<1>15. CASE Tick
  BY <1>15, ReactorAssumption DEF Tick, TypeOK
<1>16. CASE UNCHANGED vars
  BY <1>16 DEF vars, TypeOK
<1> QED
  BY <1>2, <1>3, <1>4, <1>5, <1>6, <1>7, <1>8, <1>9, <1>10, <1>11, <1>12, <1>13, <1>14,
     <1>15, <1>16 DEF Next, Loop

\* Every state of the reactor has the types the program declares.
THEOREM ReactorTypes == Spec => []TypeInv
  BY TypeInit, TypeStep, PTL DEF Spec

-----------------------------------------------------------------------------
(* Deadlines.  What wait_timeout() arranged stays enough while the loop     *)
(* waits: only the loop thread touches the timers, and the clock only moves *)
(* the timeout's allowance on.                                              *)

LEMMA Allowance ==
    ASSUME NEW l \in Nat, NEW e \in Nat, NEW m \in Nat, NEW n \in Nat, NEW n2 \in Nat,
           n <= n2, l < (IF e < n THEN n ELSE e) + m
    PROVE  l < (IF e < n2 THEN n2 ELSE e) + m
<1>1. CASE e < n
  BY <1>1
<1>2. CASE ~(e < n) /\ e < n2
  BY <1>2
<1>3. CASE ~(e < n2)
  BY <1>3
<1> QED
  BY <1>1, <1>2, <1>3

LEMMA DeadlineStep == TypeInv /\ DeadlineWatched /\ [Next]_vars => DeadlineWatched'
<1> SUFFICES ASSUME TypeInv, DeadlineWatched, [Next]_vars, pc' = "wait", timers' # {}
             PROVE  \/ armed' # None /\ armed' <= Earliest'
                    \/ /\ limit' # None
                       /\ limit' < (IF Earliest' < now' THEN now' ELSE Earliest') + Milli
  BY DEF DeadlineWatched
<1>1. TypeOK /\ now \in Nat /\ Milli \in Nat \ {0} /\ limit \in Nat \cup {None}
  BY ReactorAssumption DEF TypeInv, TypeOK
<1>2. ASSUME UNCHANGED <<pc, timers, armed, limit>>, now' \in {now, now + 1}
      PROVE  \/ armed' # None /\ armed' <= Earliest'
             \/ /\ limit' # None
                /\ limit' < (IF Earliest' < now' THEN now' ELSE Earliest') + Milli
  <2>1. Earliest' = Earliest
    BY <1>2 DEF Earliest
  <2>2. Earliest \in Nat
    BY <1>1, <1>2, EarliestValue
  <2>3. \/ armed # None /\ armed <= Earliest
        \/ limit # None /\ limit < (IF Earliest < now THEN now ELSE Earliest) + Milli
    BY <1>2 DEF DeadlineWatched
  <2>4. CASE armed # None /\ armed <= Earliest
    BY <1>2, <2>1, <2>4
  <2>5. CASE limit # None /\ limit < (IF Earliest < now THEN now ELSE Earliest) + Milli
    <3>1. now' \in Nat /\ now <= now' /\ limit \in Nat
      BY <1>1, <1>2, <2>5
    <3>2. limit < (IF Earliest < now' THEN now' ELSE Earliest) + Milli
      BY <1>1, <2>2, <2>5, <3>1, Allowance
    <3> QED
      BY <1>2, <2>1, <2>5, <3>2
  <2> QED
    BY <2>3, <2>4, <2>5
<1>3. CASE WaitTimeout
  <2>1. timers' = timers /\ now' = now /\ Earliest' = Earliest
    BY <1>3 DEF WaitTimeout, clientVars, Earliest
  <2>2. Earliest \in Nat /\ Earliest # None
    BY <1>1, <2>1, EarliestValue DEF None
  <2>3. CASE armed' = Earliest
    BY <2>1, <2>2, <2>3
  <2>4. CASE limit' = EpollTimeout
    BY <1>1, <2>1, <2>4, TimeoutValue
  <2> QED
    BY <1>3, <2>3, <2>4 DEF WaitTimeout
<1>4. ASSUME NEW c \in Callers, Caller(c) PROVE UNCHANGED <<pc, timers, armed, limit, now>>
  BY <1>4 DEF Caller, Post, AddFd, RemoveFd, Stop, Open, Close, AddTimer, loopVars
<1>5. ASSUME NEW c \in Callers, Wake(c) PROVE UNCHANGED <<pc, timers, armed, limit, now>>
  BY <1>5 DEF Wake, loopVars
<1>6. CASE Drain \/ RunOp \/ OpsDone \/ FireTimer \/ TimersDone \/ WaitReturns \/ DispatchDone
           \/ CallbackThrows \/ WaitInterrupted \/ (\E e \in ready : DispatchReadyEvent(e))
  <2>1. pc' # "wait"
    BY <1>6 DEF Drain, RunOp, OpsDone, FireTimer, TimersDone, WaitReturns, DispatchDone,
                CallbackThrows, WaitInterrupted, DispatchReadyEvent
  <2> QED
    BY <2>1
<1>7. CASE Tick
  BY <1>2, <1>7 DEF Tick, loopVars
<1>8. CASE UNCHANGED vars
  BY <1>2, <1>8 DEF vars, loopVars
<1> QED
  BY <1>2, <1>3, <1>4, <1>5, <1>6, <1>7, <1>8 DEF Next, Loop

\* While the loop waits, the next deadline is watched, and the wait's own timeout
\* is late by less than a millisecond (reactor.cpp:816-852).
THEOREM NextDeadlineWatched == Spec => []DeadlineWatched
<1>1. Init => DeadlineWatched
  BY DEF Init, DeadlineWatched
<1> QED
  BY <1>1, DeadlineStep, ReactorTypes, PTL DEF Spec

-----------------------------------------------------------------------------
(* Registrations.  The descriptors follow from what is still queued: the    *)
(* operations run in the order they were queued, so a number is registered  *)
(* for its next owner only after the removal for the previous one.          *)

Queue == batch \o pending

IsAdd(op, t, n) == op.kind = "add" /\ op.token = t /\ op.fd = n
IsRemove(op, t) == op.kind = "remove" /\ op.token = t

AddAt(i, t, n) == i \in 1 .. Len(Queue) /\ IsAdd(Queue[i], t, n)
RemoveAt(i, t) == i \in 1 .. Len(Queue) /\ IsRemove(Queue[i], t)

\* Token t stands, or will stand once the queue has run, for descriptor n.
Claims(t, n) == (t \in DOMAIN fds /\ fds[t] = n) \/ \E i \in Nat : AddAt(i, t, n)

Held(t) == \E c \in Callers : token[c] = t

\* Descriptors, tokens and the kernel's list, whatever is queued.
FilesInv ==
    /\ nextToken > 0
    /\ \A c \in Callers : token[c] < nextToken /\ (token[c] # 0 => file[c] # 0)
    /\ \A c, d \in Callers :
          c # d => (file[c] = file[d] => file[c] = 0) /\ (token[c] = token[d] => token[c] = 0)
    /\ \A t \in DOMAIN fds : 0 < t /\ t < nextToken
    /\ \A n \in FdNumbers : epoll[n] # 0 => epoll[n] \in DOMAIN fds /\ fds[epoll[n]] = n
    /\ \A c \in Callers : token[c] \in DOMAIN fds => epoll[file[c]] = token[c]

\* Queued registrations are of tokens handed out, in that order, after all those
\* carried out, and each before its removal.
AddsInv ==
    /\ \A i, t, n \in Nat : AddAt(i, t, n) => 0 < t /\ t < nextToken /\ n \in FdNumbers
    /\ \A i, u, n \in Nat : AddAt(i, u, n) => \A t \in DOMAIN fds : t < u
    /\ \A i, j, t, u, m, n \in Nat : AddAt(i, t, m) /\ AddAt(j, u, n) /\ i < j => t < u
    /\ \A i, j, t, n \in Nat : AddAt(i, t, n) /\ RemoveAt(j, t) => i < j

RemovesInv ==
    \A i, t \in Nat : RemoveAt(i, t) => 0 < t /\ t < nextToken /\ Queue[i] = Remove(t)

\* A claim is that of a holder, on the descriptor it has open, or its removal is
\* queued, ahead of any later claim on the same number.
ClaimsInv ==
    /\ \A c \in Callers, t, n \in Nat : token[c] = t /\ Claims(t, n) => file[c] = n
    /\ \A t, n \in Nat : Claims(t, n) => Held(t) \/ \E j \in Nat : RemoveAt(j, t)
    /\ \A t, u, n \in Nat : Claims(t, n) /\ t < u =>
          /\ ~(u \in DOMAIN fds /\ fds[u] = n)
          /\ \A i \in Nat : AddAt(i, u, n) => \E j \in Nat : j < i /\ RemoveAt(j, t)

QueueInv == AddsInv /\ RemovesInv /\ ClaimsInv

RegistrationInv ==
    /\ TypeInv
    /\ pc # "ops" => batch = <<>>
    /\ FilesInv
    /\ pc # "failed" => QueueInv

\* How the queue of all operations changes.
LEMMA QueuePushed ==
    ASSUME TypeInv, NEW op \in GoodOps, pending' = Append(pending, op), batch' = batch
    PROVE  /\ \A i, t, n \in Nat : AddAt(i, t, n)' <=>
                 AddAt(i, t, n) \/ (i = Len(Queue) + 1 /\ IsAdd(op, t, n))
           /\ \A i, t \in Nat : RemoveAt(i, t)' <=>
                 RemoveAt(i, t) \/ (i = Len(Queue) + 1 /\ IsRemove(op, t))
           /\ Len(Queue) \in Nat
           /\ \A i \in 1 .. Len(Queue) : Queue'[i] = Queue[i]
           /\ Queue'[Len(Queue) + 1] = op
<1>1. /\ batch \in Seq(GoodOps) /\ pending \in Seq(GoodOps) /\ pending' \in Seq(GoodOps)
      /\ Len(pending') = Len(pending) + 1
      /\ \A i \in 1 .. Len(pending) : pending'[i] = pending[i]
      /\ pending'[Len(pending) + 1] = op
      /\ Len(batch) \in Nat /\ Len(pending) \in Nat
  BY AppendProperties DEF TypeInv
<1>2. /\ Len(Queue) = Len(batch) + Len(pending)
      /\ \A i \in 1 .. Len(batch) + Len(pending) :
            Queue[i] = IF i <= Len(batch) THEN batch[i] ELSE pending[i - Len(batch)]
  BY <1>1, ConcatProperties DEF Queue
<1>3. /\ Len(Queue') = Len(batch) + Len(pending')
      /\ \A i \in 1 .. Len(batch) + Len(pending') :
            Queue'[i] = IF i <= Len(batch) THEN batch[i] ELSE pending'[i - Len(batch)]
  <2>1. Queue' = batch \o pending'
    BY DEF Queue
  <2> QED
    BY <1>1, <2>1, ConcatProperties
<1>4. /\ Len(Queue) \in Nat /\ Len(Queue') = Len(Queue) + 1
      /\ \A i \in 1 .. Len(Queue) : Queue'[i] = Queue[i]
      /\ Queue'[Len(Queue) + 1] = op
  <2>1. Len(Queue) \in Nat /\ Len(Queue') = Len(Queue) + 1
    BY <1>1, <1>2, <1>3
  <2>2. ASSUME NEW i \in 1 .. Len(Queue) PROVE Queue'[i] = Queue[i]
    <3>1. /\ i \in 1 .. Len(batch) + Len(pending) /\ i \in 1 .. Len(batch) + Len(pending')
          /\ i <= Len(batch) \/ i - Len(batch) \in 1 .. Len(pending)
      BY <1>1, <1>2
    <3> QED
      BY <1>1, <1>2, <1>3, <3>1
  <2>3. Queue'[Len(Queue) + 1] = op
    <3> DEFINE i == Len(Queue) + 1
    <3>1. /\ i \in 1 .. Len(batch) + Len(pending') /\ ~(i <= Len(batch))
          /\ i - Len(batch) = Len(pending) + 1
      BY <1>1, <1>2
    <3> QED
      BY <1>1, <1>3, <3>1
  <2> QED
    BY <2>1, <2>2, <2>3
<1>5. \A i \in Nat : i \in 1 .. Len(Queue') <=> i \in 1 .. Len(Queue) \/ i = Len(Queue) + 1
  BY <1>4
<1>6. \A i \in Nat : i \in 1 .. Len(Queue) => i # Len(Queue) + 1
  BY <1>4
<1> QED
  BY <1>4, <1>5, <1>6 DEF AddAt, RemoveAt

LEMMA QueueShifted ==
    ASSUME TypeInv, batch # <<>>, batch' = Tail(batch), pending' = pending
    PROVE  /\ \A i, t, n \in Nat : AddAt(i, t, n)' <=> i > 0 /\ AddAt(i + 1, t, n)
           /\ \A i, t \in Nat : RemoveAt(i, t)' <=> i > 0 /\ RemoveAt(i + 1, t)
           /\ \A t, n \in Nat : AddAt(1, t, n) <=> IsAdd(Head(batch), t, n)
           /\ \A t \in Nat : RemoveAt(1, t) <=> IsRemove(Head(batch), t)
           /\ \A i \in 1 .. Len(Queue') : Queue'[i] = Queue[i + 1]
<1>1. /\ batch \in Seq(GoodOps) /\ pending \in Seq(GoodOps) /\ batch' \in Seq(GoodOps)
      /\ Len(batch') = Len(batch) - 1 /\ Len(batch) \in Nat \ {0} /\ Len(pending) \in Nat
      /\ \A i \in 1 .. Len(batch') : batch'[i] = batch[i + 1]
      /\ Head(batch) = batch[1]
  BY HeadTailProperties DEF TypeInv
<1>2. /\ Len(Queue) = Len(batch) + Len(pending)
      /\ \A i \in 1 .. Len(batch) + Len(pending) :
            Queue[i] = IF i <= Len(batch) THEN batch[i] ELSE pending[i - Len(batch)]
  BY <1>1, ConcatProperties DEF Queue
<1>3. /\ Len(Queue') = Len(batch') + Len(pending)
      /\ \A i \in 1 .. Len(batch') + Len(pending) :
            Queue'[i] = IF i <= Len(batch') THEN batch'[i] ELSE pending[i - Len(batch')]
  <2>1. Queue' = batch' \o pending
    BY DEF Queue
  <2> QED
    BY <1>1, <2>1, ConcatProperties
<1>4. /\ Len(Queue) \in Nat \ {0} /\ Len(Queue') = Len(Queue) - 1
      /\ \A i \in 1 .. Len(Queue') : Queue'[i] = Queue[i + 1]
      /\ Queue[1] = Head(batch)
  <2>1. Len(Queue) \in Nat \ {0} /\ Len(Queue') = Len(Queue) - 1
    BY <1>1, <1>2, <1>3
  <2>2. ASSUME NEW i \in 1 .. Len(Queue') PROVE Queue'[i] = Queue[i + 1]
    <3>1. /\ i \in 1 .. Len(batch') + Len(pending) /\ i + 1 \in 1 .. Len(batch) + Len(pending)
          /\ i <= Len(batch') <=> i + 1 <= Len(batch)
          /\ i <= Len(batch') => i \in 1 .. Len(batch')
          /\ (i + 1) - Len(batch) = i - Len(batch')
      BY <1>1, <1>3
    <3> QED
      BY <1>1, <1>2, <1>3, <3>1
  <2>3. Queue[1] = Head(batch)
    <3>1. 1 \in 1 .. Len(batch) + Len(pending) /\ 1 <= Len(batch)
      BY <1>1
    <3> QED
      BY <1>1, <1>2, <3>1
  <2> QED
    BY <2>1, <2>2, <2>3
<1>5. \A i \in Nat : i \in 1 .. Len(Queue') <=> i > 0 /\ i + 1 \in 1 .. Len(Queue)
  BY <1>4
<1>6. 1 \in 1 .. Len(Queue)
  BY <1>4
<1> QED
  BY <1>4, <1>5, <1>6 DEF AddAt, RemoveAt

LEMMA QueueDrained ==
    ASSUME TypeInv, batch = <<>>, batch' = pending, pending' = <<>>
    PROVE  Queue' = Queue
<1>1. Queue' = pending \o <<>> /\ Queue = <<>> \o pending
  BY DEF Queue
<1> QED
  BY <1>1, ConcatEmptySeq DEF TypeInv

LEMMA RegistrationInit == Init => RegistrationInv
<1> SUFFICES ASSUME Init PROVE RegistrationInv
  OBVIOUS
<1>1. DOMAIN fds = {} /\ nextToken = 1 /\ Queue = <<>>
  BY ConcatEmptySeq DEF Init, FirstToken, Queue
<1>2. \A i, t, n \in Nat : ~AddAt(i, t, n) /\ ~RemoveAt(i, t)
  BY <1>1 DEF AddAt, RemoveAt
<1>3. \A t, n \in Nat : ~Claims(t, n)
  BY <1>1, <1>2 DEF Claims
<1>4. FilesInv
  BY <1>1 DEF Init, FilesInv
<1>5. ClaimsInv
  BY <1>1, <1>2, <1>3 DEF ClaimsInv, Init
<1> QED
  BY <1>1, <1>2, <1>4, <1>5, TypeInit
  DEF RegistrationInv, QueueInv, AddsInv, RemovesInv, Init

\* Steps that leave operations, descriptors and tokens alone.
LEMMA RegistrationsUntouched ==
    ASSUME RegistrationInv, TypeInv',
           UNCHANGED <<Queue, fds, epoll, file, token, nextToken>>,
           pc' # "failed" => pc # "failed",
           pc' # "ops" => batch' = <<>>
    PROVE  RegistrationInv'
<1>1. /\ \A i, t, n \in Nat : AddAt(i, t, n)' <=> AddAt(i, t, n)
      /\ \A i, t \in Nat : RemoveAt(i, t)' <=> RemoveAt(i, t)
  BY DEF AddAt, RemoveAt
<1>2. /\ \A t, n \in Nat : Claims(t, n)' <=> Claims(t, n)
      /\ \A t \in Nat : Held(t)' <=> Held(t)
  BY <1>1 DEF Claims, Held
<1>3. token \in [Callers -> Nat]
  BY DEF RegistrationInv, TypeInv, TypeOK
<1>4. FilesInv'
  BY DEF RegistrationInv, FilesInv
<1>5. QueueInv => QueueInv'
  <2>1. AddsInv /\ RemovesInv => AddsInv' /\ RemovesInv'
    BY <1>1 DEF AddsInv, RemovesInv
  <2>2. ClaimsInv => ClaimsInv'
    BY <1>1, <1>2, <1>3 DEF ClaimsInv
  <2> QED
    BY <2>1, <2>2 DEF QueueInv
<1> QED
  BY <1>4, <1>5 DEF RegistrationInv

\* post() and add_timer() queue nothing about descriptors.
LEMMA OtherPushed ==
    ASSUME RegistrationInv, TypeInv', NEW op \in GoodOps, op.kind \notin {"add", "remove"},
           pending' = Append(pending, op), nextToken' \in {nextToken, nextToken + 1},
           UNCHANGED <<batch, pc, fds, epoll, file, token>>
    PROVE  RegistrationInv'
<1>1. /\ \A i, t, n \in Nat : AddAt(i, t, n)' <=> AddAt(i, t, n)
      /\ \A i, t \in Nat : RemoveAt(i, t)' <=> RemoveAt(i, t)
      /\ \A i, t \in Nat : RemoveAt(i, t) => Queue'[i] = Queue[i]
  BY QueuePushed DEF RegistrationInv, IsAdd, IsRemove, RemoveAt
<1>2. /\ \A t, n \in Nat : Claims(t, n)' <=> Claims(t, n)
      /\ \A t \in Nat : Held(t)' <=> Held(t)
  BY <1>1 DEF Claims, Held
<1>3. /\ token \in [Callers -> Nat] /\ nextToken \in Nat /\ nextToken <= nextToken'
      /\ nextToken' \in Nat /\ DOMAIN fds \subseteq Nat
  BY DEF RegistrationInv, TypeInv, TypeOK
<1>4. FilesInv'
  BY <1>3 DEF RegistrationInv, FilesInv
<1>5. QueueInv => QueueInv'
  <2>1. ASSUME AddsInv PROVE AddsInv'
    <3>1. \A i, t, n \in Nat : AddAt(i, t, n)' => 0 < t /\ t < nextToken' /\ n \in FdNumbers
      <4>1. \A i, t, n \in Nat : AddAt(i, t, n) => 0 < t /\ t < nextToken /\ n \in FdNumbers
        BY <2>1 DEF AddsInv
      <4>2. \A t \in Nat : t < nextToken => t < nextToken'
        BY <1>3
      <4> QED
        BY <1>1, <4>1, <4>2
    <3>2. \A i, u, n \in Nat : AddAt(i, u, n)' => \A t \in DOMAIN fds' : t < u
      BY <1>1, <2>1 DEF AddsInv
    <3>3. \A i, j, t, u, m, n \in Nat : AddAt(i, t, m)' /\ AddAt(j, u, n)' /\ i < j => t < u
      <4> SUFFICES ASSUME NEW i \in Nat, NEW j \in Nat, NEW t \in Nat, NEW u \in Nat,
                          NEW m \in Nat, NEW n \in Nat,
                          AddAt(i, t, m)', AddAt(j, u, n)', i < j
                   PROVE  t < u
        OBVIOUS
      <4>1. AddAt(i, t, m) /\ AddAt(j, u, n)
        BY <1>1
      <4> QED
        BY <2>1, <4>1 DEF AddsInv
    <3>4. \A i, j, t, n \in Nat : AddAt(i, t, n)' /\ RemoveAt(j, t)' => i < j
      BY <1>1, <2>1 DEF AddsInv
    <3> QED
      BY <3>1, <3>2, <3>3, <3>4 DEF AddsInv
  <2>2. RemovesInv => RemovesInv'
    BY <1>1, <1>3 DEF RemovesInv
  <2>3. ClaimsInv => ClaimsInv'
    BY <1>1, <1>2, <1>3 DEF ClaimsInv
  <2> QED
    BY <2>1, <2>2, <2>3 DEF QueueInv
<1> QED
  BY <1>4, <1>5 DEF RegistrationInv

\* add_fd(): the new claim is on a descriptor no other holder has, so an older
\* claim on its number has its removal queued already.
LEMMA AddFdStep ==
    ASSUME RegistrationInv, TypeInv', NEW c \in Callers, AddFd(c)
    PROVE  RegistrationInv'
<1>0. PICK N \in Nat : N = nextToken
  BY DEF RegistrationInv, TypeInv, TypeOK
<1> DEFINE op == Add(N, file[c])
           L == Len(Queue) + 1
<1>1. /\ file[c] \in FdNumbers /\ file[c] \in Nat /\ token[c] = 0 /\ file[c] # 0
      /\ pending' = Append(pending, op)
      /\ token' = [token EXCEPT ![c] = N] /\ nextToken' = N + 1
      /\ UNCHANGED <<batch, pc, fds, epoll, file>>
      /\ token \in [Callers -> Nat] /\ DOMAIN fds \subseteq Nat
  BY <1>0, ReactorAssumption
  DEF AddFd, Enqueue, RegistrationInv, TypeInv, TypeOK, loopVars, watchVars
<1>2. op \in GoodOps /\ \A t, n \in Nat : /\ IsAdd(op, t, n) <=> t = N /\ n = file[c]
                                          /\ ~IsRemove(op, t)
  BY <1>1, OpKinds DEF IsAdd, IsRemove
<1> HIDE DEF op
<1>3. /\ \A i, t, n \in Nat : AddAt(i, t, n)' <=>
            AddAt(i, t, n) \/ (i = L /\ t = N /\ n = file[c])
      /\ \A i, t \in Nat : RemoveAt(i, t)' <=> RemoveAt(i, t)
      /\ \A i, t \in Nat : RemoveAt(i, t) => Queue'[i] = Queue[i] /\ i < L
      /\ \A i, t, n \in Nat : AddAt(i, t, n) => i < L
      /\ L \in Nat
  <2>1. TypeInv
    BY DEF RegistrationInv
  <2>2. /\ \A i, t, n \in Nat : AddAt(i, t, n)' <=> AddAt(i, t, n) \/ (i = L /\ IsAdd(op, t, n))
        /\ \A i, t \in Nat : RemoveAt(i, t)' <=> RemoveAt(i, t) \/ (i = L /\ IsRemove(op, t))
        /\ Len(Queue) \in Nat
        /\ \A i \in 1 .. Len(Queue) : Queue'[i] = Queue[i]
    BY <1>1, <1>2, <2>1, QueuePushed
  <2>3. /\ \A i, t \in Nat : RemoveAt(i, t) => i \in 1 .. Len(Queue)
        /\ \A i, t, n \in Nat : AddAt(i, t, n) => i \in 1 .. Len(Queue)
        /\ \A i \in 1 .. Len(Queue) : i < L
        /\ L \in Nat
    BY <2>2 DEF RemoveAt, AddAt
  <2> HIDE DEF L
  <2>4. /\ \A i, t, n \in Nat : AddAt(i, t, n)' <=>
              AddAt(i, t, n) \/ (i = L /\ t = N /\ n = file[c])
        /\ \A i, t \in Nat : RemoveAt(i, t)' <=> RemoveAt(i, t)
    BY <1>2, <2>2
  <2> QED
    BY <2>2, <2>3, <2>4
<1> HIDE DEF L
<1>4. FilesInv /\ N > 0 /\ \A t \in DOMAIN fds : 0 < t /\ t < N
  BY <1>0 DEF RegistrationInv, FilesInv
<1>5. \A d \in Callers : token'[d] = IF d = c THEN N ELSE token[d]
  BY <1>1
<1>6. FilesInv'
  <2>1. \A d \in Callers : token[d] < N
    BY <1>0, <1>4 DEF FilesInv
  <2> QED
    BY <1>1, <1>4, <1>5, <2>1 DEF FilesInv
<1>7. ASSUME QueueInv PROVE QueueInv'
  <2>1. /\ AddsInv /\ RemovesInv /\ ClaimsInv
        /\ \A i, t, n \in Nat : AddAt(i, t, n) => 0 < t /\ t < N
    BY <1>0, <1>7 DEF QueueInv, AddsInv
  <2>2. \A t, n \in Nat : Claims(t, n)' <=> Claims(t, n) \/ (t = N /\ n = file[c])
    BY <1>1, <1>3 DEF Claims
  <2>3. \A t, n \in Nat : Claims(t, n) => 0 < t /\ t < N
    BY <1>4, <2>1 DEF Claims
  <2>4. \A t \in Nat : 0 < t /\ t < N => (Held(t)' <=> Held(t))
    BY <1>1, <1>5 DEF Held
  <2>5. Held(N)'
    BY <1>5 DEF Held
  <2>6. AddsInv'
    <3>1. \A i, t, n \in Nat : AddAt(i, t, n)' => 0 < t /\ t < nextToken' /\ n \in FdNumbers
      BY <1>1, <1>3, <1>4, <2>1 DEF AddsInv
    <3>2. \A i, u, n \in Nat : AddAt(i, u, n)' => \A t \in DOMAIN fds' : t < u
      <4> SUFFICES ASSUME NEW i \in Nat, NEW u \in Nat, NEW n \in Nat, AddAt(i, u, n)',
                          NEW t \in DOMAIN fds
                   PROVE  t < u
        BY <1>1
      <4>1. CASE AddAt(i, u, n)
        BY <2>1, <4>1 DEF AddsInv
      <4>2. CASE u = N
        BY <1>4, <4>2
      <4> QED
        BY <1>3, <4>1, <4>2
    <3>3. \A i, j, t, u, m, n \in Nat :
             AddAt(i, t, m)' /\ AddAt(j, u, n)' /\ i < j => t < u
      <4> SUFFICES ASSUME NEW i \in Nat, NEW j \in Nat, NEW t \in Nat, NEW u \in Nat,
                          NEW m \in Nat, NEW n \in Nat,
                          AddAt(i, t, m)', AddAt(j, u, n)', i < j
                   PROVE  t < u
        OBVIOUS
      <4>1. AddAt(i, t, m) \/ (i = L /\ t = N)
        BY <1>3
      <4>2. AddAt(j, u, n) \/ (j = L /\ u = N)
        BY <1>3
      <4>3. i < L
        BY <1>3, <4>1, <4>2
      <4>4. AddAt(i, t, m) /\ t < N
        BY <1>3, <2>1, <4>1, <4>3
      <4>5. CASE AddAt(j, u, n)
        BY <2>1, <4>4, <4>5 DEF AddsInv
      <4> QED
        BY <4>2, <4>4, <4>5
    <3>4. \A i, j, t, n \in Nat : AddAt(i, t, n)' /\ RemoveAt(j, t)' => i < j
      <4>1. \A j \in Nat : ~RemoveAt(j, N)
        BY <1>0, <2>1 DEF RemovesInv
      <4> QED
        BY <1>3, <2>1, <4>1 DEF AddsInv
    <3> QED
      BY <3>1, <3>2, <3>3, <3>4 DEF AddsInv
  <2>7. RemovesInv'
    BY <1>0, <1>1, <1>3, <2>1 DEF RemovesInv
  <2>8. ClaimsInv'
    <3>1. \A d \in Callers, t, n \in Nat : token[d] = t /\ Claims(t, n) => file[d] = n
      BY <2>1 DEF ClaimsInv
    <3>2. ASSUME NEW d \in Callers, NEW t \in Nat, NEW n \in Nat,
                 token'[d] = t, Claims(t, n)'
          PROVE  file'[d] = n
      <4>1. CASE d = c
        <5>1. t = N
          BY <1>5, <3>2, <4>1
        <5>2. n = file[c]
          BY <2>2, <2>3, <3>2, <5>1
        <5> QED
          BY <1>1, <4>1, <5>2
      <4>2. CASE d # c
        <5>1. token[d] = t /\ t < N
          BY <1>0, <1>4, <1>5, <3>2, <4>2 DEF FilesInv
        <5>2. Claims(t, n)
          BY <2>2, <3>2, <5>1
        <5> QED
          BY <1>1, <3>1, <5>1, <5>2
      <4> QED
        BY <4>1, <4>2
    <3>3. \A t, n \in Nat : Claims(t, n)' => Held(t)' \/ \E j \in Nat : RemoveAt(j, t)'
      BY <1>1, <1>3, <2>1, <2>2, <2>3, <2>4, <2>5 DEF ClaimsInv
    <3>4. ASSUME NEW t \in Nat, Claims(t, file[c])
          PROVE  \E j \in Nat : j < L /\ RemoveAt(j, t)
      <4>1. ~Held(t)
        <5> SUFFICES ASSUME NEW d \in Callers, token[d] = t PROVE FALSE
          BY DEF Held
        <5>1. file[d] = file[c]
          BY <1>1, <3>1, <3>4
        <5>2. d = c
          BY <1>1, <1>4, <5>1 DEF FilesInv
        <5> QED
          BY <1>1, <2>3, <3>4, <5>2
      <4> QED
        BY <1>1, <1>3, <2>1, <3>4, <4>1 DEF ClaimsInv
    <3>5. ASSUME NEW t \in Nat, NEW u \in Nat, NEW n \in Nat, Claims(t, n)', t < u
          PROVE  /\ ~(u \in DOMAIN fds' /\ fds'[u] = n)
                 /\ \A i \in Nat : AddAt(i, u, n)' => \E j \in Nat : j < i /\ RemoveAt(j, t)'
      <4>1. CASE Claims(t, n)
        <5>1. /\ ~(u \in DOMAIN fds /\ fds[u] = n)
              /\ \A i \in Nat : AddAt(i, u, n) => \E j \in Nat : j < i /\ RemoveAt(j, t)
          BY <2>1, <3>5, <4>1 DEF ClaimsInv
        <5>2. ASSUME NEW i \in Nat, AddAt(i, u, n)'
              PROVE  \E j \in Nat : j < i /\ RemoveAt(j, t)'
          <6>1. CASE AddAt(i, u, n)
            BY <1>3, <5>1, <6>1
          <6>2. CASE i = L /\ u = N /\ n = file[c]
            BY <1>3, <3>4, <4>1, <6>2
          <6> QED
            BY <1>3, <5>2, <6>1, <6>2
        <5> QED
          BY <1>1, <5>1, <5>2
      <4>2. CASE t = N
        <5>1. ~(u \in DOMAIN fds)
          BY <1>4, <3>5, <4>2
        <5>2. ASSUME NEW i \in Nat, AddAt(i, u, n)' PROVE FALSE
          <6>1. AddAt(i, u, n)
            BY <1>3, <3>5, <4>2, <5>2
          <6> QED
            BY <2>1, <3>5, <4>2, <6>1
        <5> QED
          BY <1>1, <5>1, <5>2
      <4> QED
        BY <2>2, <3>5, <4>1, <4>2
    <3> QED
      BY <3>2, <3>3, <3>5 DEF ClaimsInv
  <2> QED
    BY <2>6, <2>7, <2>8 DEF QueueInv
<1> QED
  BY <1>1, <1>6, <1>7 DEF RegistrationInv

\* remove_fd(): the holder gives up its token as the removal is queued.
LEMMA RemoveFdStep ==
    ASSUME RegistrationInv, TypeInv', NEW c \in Callers, RemoveFd(c)
    PROVE  RegistrationInv'
<1>0. PICK T \in Nat : T = token[c]
  BY DEF RegistrationInv, TypeInv, TypeOK
<1> DEFINE op == Remove(T)
           L == Len(Queue) + 1
<1>1. /\ T # 0 /\ token[c] = T /\ pending' = Append(pending, op)
      /\ token' = [token EXCEPT ![c] = 0]
      /\ UNCHANGED <<batch, pc, fds, epoll, file, nextToken>>
      /\ token \in [Callers -> Nat] /\ nextToken \in Nat /\ DOMAIN fds \subseteq Nat
  BY <1>0 DEF RemoveFd, Enqueue, RegistrationInv, TypeInv, TypeOK, loopVars, watchVars
<1>2. op \in GoodOps /\ \A t, n \in Nat : ~IsAdd(op, t, n) /\ (IsRemove(op, t) <=> t = T)
  BY OpKinds DEF IsAdd, IsRemove
<1> HIDE DEF op
<1>3. /\ \A i, t, n \in Nat : AddAt(i, t, n)' <=> AddAt(i, t, n)
      /\ \A i, t \in Nat : RemoveAt(i, t)' <=> RemoveAt(i, t) \/ (i = L /\ t = T)
      /\ \A i, t \in Nat : RemoveAt(i, t) => Queue'[i] = Queue[i]
      /\ \A i, t, n \in Nat : AddAt(i, t, n) => i < L
      /\ L \in Nat /\ Queue'[L] = op
  <2>1. TypeInv
    BY DEF RegistrationInv
  <2>2. /\ \A i, t, n \in Nat : AddAt(i, t, n)' <=> AddAt(i, t, n) \/ (i = L /\ IsAdd(op, t, n))
        /\ \A i, t \in Nat : RemoveAt(i, t)' <=> RemoveAt(i, t) \/ (i = L /\ IsRemove(op, t))
        /\ Len(Queue) \in Nat /\ Queue'[L] = op
        /\ \A i \in 1 .. Len(Queue) : Queue'[i] = Queue[i]
    BY <1>1, <1>2, <2>1, QueuePushed
  <2>3. /\ \A i, t \in Nat : RemoveAt(i, t) => i \in 1 .. Len(Queue)
        /\ \A i, t, n \in Nat : AddAt(i, t, n) => i \in 1 .. Len(Queue)
        /\ \A i \in 1 .. Len(Queue) : i < L
        /\ L \in Nat
    BY <2>2 DEF RemoveAt, AddAt
  <2> HIDE DEF L
  <2>4. /\ \A i, t, n \in Nat : AddAt(i, t, n)' <=> AddAt(i, t, n)
        /\ \A i, t \in Nat : RemoveAt(i, t)' <=> RemoveAt(i, t) \/ (i = L /\ t = T)
    BY <1>2, <2>2
  <2> QED
    BY <2>2, <2>3, <2>4
<1> HIDE DEF L
<1>4. FilesInv /\ T < nextToken
  BY <1>1 DEF RegistrationInv, FilesInv
<1>5. /\ \A d \in Callers : token'[d] = IF d = c THEN 0 ELSE token[d]
      /\ 0 \notin DOMAIN fds
  BY <1>1, <1>4 DEF FilesInv
<1>6. FilesInv'
  BY <1>1, <1>4, <1>5 DEF FilesInv
<1>7. ASSUME QueueInv PROVE QueueInv'
  <2>1. AddsInv /\ RemovesInv /\ ClaimsInv
    BY <1>7 DEF QueueInv
  <2>2. \A t, n \in Nat : Claims(t, n)' <=> Claims(t, n)
    BY <1>1, <1>3 DEF Claims
  <2>3. \A t, n \in Nat : Claims(t, n) => 0 < t
    BY <1>4, <2>1 DEF Claims, AddsInv, FilesInv
  <2>4. \A t \in Nat : Held(t) => t = T \/ Held(t)'
    BY <1>1, <1>5 DEF Held
  <2>5. AddsInv'
    <3>1. /\ \A i, t, n \in Nat : AddAt(i, t, n)' => 0 < t /\ t < nextToken' /\ n \in FdNumbers
          /\ \A i, u, n \in Nat : AddAt(i, u, n)' => \A t \in DOMAIN fds' : t < u
      <4>1. /\ \A i, t, n \in Nat : AddAt(i, t, n) => 0 < t /\ t < nextToken /\ n \in FdNumbers
            /\ \A i, u, n \in Nat : AddAt(i, u, n) => \A t \in DOMAIN fds : t < u
        BY <2>1 DEF AddsInv
      <4>2. fds' = fds /\ nextToken' = nextToken
        BY <1>1
      <4>3. \A i, t, n \in Nat : AddAt(i, t, n)' <=> AddAt(i, t, n)
        BY <1>3
      <4> QED
        BY <4>1, <4>2, <4>3
    <3>2. \A i, j, t, u, m, n \in Nat : AddAt(i, t, m)' /\ AddAt(j, u, n)' /\ i < j => t < u
      <4> SUFFICES ASSUME NEW i \in Nat, NEW j \in Nat, NEW t \in Nat, NEW u \in Nat,
                          NEW m \in Nat, NEW n \in Nat,
                          AddAt(i, t, m)', AddAt(j, u, n)', i < j
                   PROVE  t < u
        OBVIOUS
      <4>1. AddAt(i, t, m) /\ AddAt(j, u, n)
        BY <1>3
      <4> QED
        BY <2>1, <4>1 DEF AddsInv
    <3>3. \A i, j, t, n \in Nat : AddAt(i, t, n)' /\ RemoveAt(j, t)' => i < j
      BY <1>3, <2>1 DEF AddsInv
    <3> QED
      BY <3>1, <3>2, <3>3 DEF AddsInv
  <2>6. RemovesInv'
    BY <1>1, <1>3, <1>4, <2>1 DEF RemovesInv, op
  <2>7. ClaimsInv'
    <3>1. ASSUME NEW d \in Callers, NEW t \in Nat, NEW n \in Nat, token'[d] = t, Claims(t, n)'
          PROVE  file'[d] = n
      <4>1. Claims(t, n) /\ 0 < t
        BY <2>2, <2>3, <3>1
      <4>2. token[d] = t
        BY <1>5, <3>1, <4>1
      <4> QED
        BY <1>1, <2>1, <4>1, <4>2 DEF ClaimsInv
    <3>2. ASSUME NEW t \in Nat, NEW n \in Nat, Claims(t, n)'
          PROVE  Held(t)' \/ \E j \in Nat : RemoveAt(j, t)'
      <4>1. Held(t) \/ \E j \in Nat : RemoveAt(j, t)
        BY <2>1, <2>2, <3>2 DEF ClaimsInv
      <4> QED
        BY <1>3, <2>4, <4>1
    <3>3. ASSUME NEW t \in Nat, NEW u \in Nat, NEW n \in Nat, Claims(t, n)', t < u
          PROVE  /\ ~(u \in DOMAIN fds' /\ fds'[u] = n)
                 /\ \A i \in Nat : AddAt(i, u, n)' => \E j \in Nat : j < i /\ RemoveAt(j, t)'
      <4>1. /\ ~(u \in DOMAIN fds /\ fds[u] = n)
            /\ \A i \in Nat : AddAt(i, u, n) => \E j \in Nat : j < i /\ RemoveAt(j, t)
        BY <2>1, <2>2, <3>3 DEF ClaimsInv
      <4> QED
        BY <1>1, <1>3, <4>1
    <3> QED
      BY <3>1, <3>2, <3>3 DEF ClaimsInv
  <2> QED
    BY <2>5, <2>6, <2>7 DEF QueueInv
<1> QED
  BY <1>1, <1>6, <1>7 DEF RegistrationInv

\* Opening and closing: the kernel gives out a free number and forgets a closed one.
LEMMA FilesStep ==
    ASSUME RegistrationInv, TypeInv', NEW c \in Callers, Open(c) \/ Close(c)
    PROVE  RegistrationInv'
<1>1. /\ UNCHANGED <<pending, batch, pc, fds, token, nextToken>>
      /\ token[c] = 0
      /\ file \in [Callers -> FdNumbers \cup {0}] /\ epoll \in [FdNumbers -> Nat]
      /\ token \in [Callers -> Nat] /\ FilesInv
  BY DEF RegistrationInv, TypeInv, TypeOK, FilesInv, Open, Close, loopVars, watchVars
<1>2. \A d \in Callers : d # c => file'[d] = file[d]
  BY <1>1 DEF Open, Close
<1>3. FilesInv'
  <2>1. 0 \notin DOMAIN fds
    BY <1>1 DEF FilesInv
  <2>2. CASE Open(c)
    <3>1. PICK n \in FdNumbers : /\ file' = [file EXCEPT ![c] = n]
                                 /\ \A d \in Callers : file[d] # n
      <4> DEFINE free == FdNumbers \ {file[d] : d \in Callers}
      <4>1. Min(free) \in free
        BY <2>2, Least, ReactorAssumption DEF Open
      <4> QED
        BY <2>2, <4>1 DEF Open
    <3>2. epoll' = epoll
      BY <2>2 DEF Open, watchVars
    <3> QED
      BY <1>1, <1>2, <2>1, <3>1, <3>2 DEF FilesInv
  <2>3. CASE Close(c)
    <3>1. /\ file' = [file EXCEPT ![c] = 0] /\ epoll' = [epoll EXCEPT ![file[c]] = 0]
          /\ file[c] # 0 /\ file[c] \in FdNumbers
      BY <1>1, <2>3 DEF Close
    <3>2. \A d \in Callers : token[d] \in DOMAIN fds => d # c /\ file[d] \in FdNumbers /\ file[d] # file[c]
      BY <1>1, <2>1, <3>1 DEF FilesInv
    <3>3. \A d \in Callers : token[d] \in DOMAIN fds => epoll'[file'[d]] = token[d]
      BY <1>1, <1>2, <3>1, <3>2 DEF FilesInv
    <3>4. \A n \in FdNumbers : epoll'[n] # 0 => epoll'[n] \in DOMAIN fds /\ fds[epoll'[n]] = n
      BY <1>1, <3>1 DEF FilesInv
    <3>5. \A d, e \in Callers : d # e => (file'[d] = file'[e] => file'[d] = 0)
      BY <1>1, <1>2, <3>1 DEF FilesInv
    <3>6. \A d \in Callers : token[d] # 0 => file'[d] # 0
      BY <1>1, <1>2 DEF FilesInv
    <3> QED
      BY <1>1, <3>3, <3>4, <3>5, <3>6 DEF FilesInv
  <2> QED
    BY <2>2, <2>3
<1>4. ASSUME QueueInv PROVE QueueInv'
  <2>1. Queue' = Queue
    BY <1>1 DEF Queue
  <2>2. /\ \A i, t, n \in Nat : AddAt(i, t, n)' <=> AddAt(i, t, n)
        /\ \A i, t \in Nat : RemoveAt(i, t)' <=> RemoveAt(i, t)
    BY <2>1 DEF AddAt, RemoveAt
  <2>3. /\ \A t, n \in Nat : Claims(t, n)' <=> Claims(t, n)
        /\ \A t \in Nat : Held(t)' <=> Held(t)
    BY <1>1, <2>2 DEF Claims, Held
  <2>4. AddsInv' /\ RemovesInv'
    BY <1>1, <1>4, <2>1, <2>2 DEF QueueInv, AddsInv, RemovesInv
  <2>5. ASSUME NEW d \in Callers, NEW t \in Nat, NEW n \in Nat, token'[d] = t, Claims(t, n)'
        PROVE  file'[d] = n
    <3>1. Claims(t, n) /\ 0 < t
      BY <1>1, <1>4, <2>3, <2>5 DEF Claims, FilesInv, QueueInv, AddsInv
    <3>2. d # c /\ token[d] = t
      BY <1>1, <2>5, <3>1
    <3> QED
      BY <1>2, <1>4, <3>1, <3>2 DEF QueueInv, ClaimsInv
  <2>6. ClaimsInv'
    BY <1>1, <1>4, <2>2, <2>3, <2>5 DEF QueueInv, ClaimsInv
  <2> QED
    BY <2>4, <2>6 DEF QueueInv
<1> QED
  BY <1>1, <1>3, <1>4 DEF RegistrationInv

\* What running the first operation does to the queue, whether it registers a
\* descriptor, drops one or does neither.
LEMMA QueueRun ==
    ASSUME RegistrationInv, TypeInv', QueueInv, batch # <<>>, batch' = Tail(batch),
           UNCHANGED <<pending, file, token, nextToken>>,
           \A u \in DOMAIN fds' :
              (u \in DOMAIN fds /\ fds'[u] = fds[u]) \/ AddAt(1, u, fds'[u]),
           \A u \in Nat : RemoveAt(1, u) => u \notin DOMAIN fds'
    PROVE  QueueInv'
<1>1. /\ \A i, t, n \in Nat : AddAt(i, t, n)' <=> i > 0 /\ AddAt(i + 1, t, n)
      /\ \A i, t \in Nat : RemoveAt(i, t)' <=> i > 0 /\ RemoveAt(i + 1, t)
      /\ \A i \in 1 .. Len(Queue') : Queue'[i] = Queue[i + 1]
  BY QueueShifted DEF RegistrationInv
<1>2. /\ AddsInv /\ RemovesInv /\ ClaimsInv
      /\ DOMAIN fds \subseteq Nat /\ DOMAIN fds' \subseteq Nat
      /\ \A u \in DOMAIN fds' : fds'[u] \in Nat
      /\ token \in [Callers -> Nat]
  BY ReactorAssumption DEF QueueInv, RegistrationInv, TypeInv, TypeOK
<1>3. \A i, t, n \in Nat : AddAt(i, t, n)' => i + 1 \in Nat /\ AddAt(i + 1, t, n)
  BY <1>1
<1>4. \A j, t \in Nat : RemoveAt(j, t) => j = 1 \/ (j - 1 \in Nat /\ RemoveAt(j - 1, t)')
  <2> SUFFICES ASSUME NEW j \in Nat, NEW t \in Nat, RemoveAt(j, t), j # 1
               PROVE  j - 1 \in Nat /\ RemoveAt(j - 1, t)'
    OBVIOUS
  <2>1. j \in Nat \ {0, 1}
    BY DEF RemoveAt
  <2>2. j - 1 \in Nat /\ j - 1 > 0 /\ (j - 1) + 1 = j
    BY <2>1
  <2> QED
    BY <1>1, <2>2
<1>5. \A t, n \in Nat : RemoveAt(1, t) => ~Claims(t, n)'
  <2> SUFFICES ASSUME NEW t \in Nat, NEW n \in Nat, RemoveAt(1, t), Claims(t, n)' PROVE FALSE
    OBVIOUS
  <2>1. PICK i \in Nat : AddAt(i, t, n)'
    BY DEF Claims
  <2>2. i + 1 \in Nat /\ AddAt(i + 1, t, n)
    BY <1>3, <2>1
  <2>3. i + 1 < 1
    BY <1>2, <2>2 DEF AddsInv
  <2> QED
    BY <2>3
<1>6. \A t, n \in Nat : Claims(t, n)' => Claims(t, n)
  <2> SUFFICES ASSUME NEW t \in Nat, NEW n \in Nat, Claims(t, n)' PROVE Claims(t, n)
    OBVIOUS
  <2>1. CASE t \in DOMAIN fds' /\ fds'[t] = n
    BY <2>1 DEF Claims
  <2>2. CASE \E i \in Nat : AddAt(i, t, n)'
    BY <1>3, <2>2 DEF Claims
  <2> QED
    BY <2>1, <2>2 DEF Claims
<1>7. \A t \in Nat : Held(t)' <=> Held(t)
  BY DEF Held
<1>8. AddsInv'
  <2>1. \A i, t, n \in Nat : AddAt(i, t, n)' => 0 < t /\ t < nextToken' /\ n \in FdNumbers
    BY <1>2, <1>3 DEF AddsInv
  <2>2. \A i, u, n \in Nat : AddAt(i, u, n)' => \A t \in DOMAIN fds' : t < u
    <3> SUFFICES ASSUME NEW i \in Nat, NEW u \in Nat, NEW n \in Nat, AddAt(i, u, n)',
                        NEW t \in DOMAIN fds'
                 PROVE  t < u
      OBVIOUS
    <3>0. i > 0 /\ AddAt(i + 1, u, n)
      BY <1>1
    <3>1. i + 1 \in Nat /\ AddAt(i + 1, u, n) /\ 1 < i + 1 /\ t \in Nat /\ fds'[t] \in Nat
      BY <1>2, <3>0
    <3>2. CASE t \in DOMAIN fds
      BY <1>2, <3>1, <3>2 DEF AddsInv
    <3>3. CASE AddAt(1, t, fds'[t])
      BY <1>2, <3>1, <3>3 DEF AddsInv
    <3> QED
      BY <3>2, <3>3
  <2>3. \A i, j, t, u, m, n \in Nat : AddAt(i, t, m)' /\ AddAt(j, u, n)' /\ i < j => t < u
    <3> SUFFICES ASSUME NEW i \in Nat, NEW j \in Nat, NEW t \in Nat, NEW u \in Nat,
                        NEW m \in Nat, NEW n \in Nat,
                        AddAt(i, t, m)', AddAt(j, u, n)', i < j
                 PROVE  t < u
      OBVIOUS
    <3>1. /\ i + 1 \in Nat /\ AddAt(i + 1, t, m)
          /\ j + 1 \in Nat /\ AddAt(j + 1, u, n) /\ i + 1 < j + 1
      BY <1>3
    <3> QED
      BY <1>2, <3>1 DEF AddsInv
  <2>4. \A i, j, t, n \in Nat : AddAt(i, t, n)' /\ RemoveAt(j, t)' => i < j
    <3> SUFFICES ASSUME NEW i \in Nat, NEW j \in Nat, NEW t \in Nat, NEW n \in Nat,
                        AddAt(i, t, n)', RemoveAt(j, t)'
                 PROVE  i < j
      OBVIOUS
    <3>1. i + 1 \in Nat /\ AddAt(i + 1, t, n) /\ j + 1 \in Nat /\ RemoveAt(j + 1, t)
      BY <1>1
    <3>2. i + 1 < j + 1
      BY <1>2, <3>1 DEF AddsInv
    <3> QED
      BY <3>2
  <2> QED
    BY <2>1, <2>2, <2>3, <2>4 DEF AddsInv
<1>9. RemovesInv'
  <2> SUFFICES ASSUME NEW i \in Nat, NEW t \in Nat, RemoveAt(i, t)'
               PROVE  0 < t /\ t < nextToken' /\ Queue'[i] = Remove(t)
    BY DEF RemovesInv
  <2>1. i + 1 \in Nat /\ RemoveAt(i + 1, t)
    BY <1>1
  <2>2. i \in 1 .. Len(Queue')
    BY DEF RemoveAt
  <2> QED
    BY <1>1, <1>2, <2>1, <2>2 DEF RemovesInv
<1>10. ClaimsInv'
  <2>1. \A c \in Callers, t, n \in Nat : token'[c] = t /\ Claims(t, n)' => file'[c] = n
    BY <1>2, <1>6 DEF ClaimsInv
  <2>2. ASSUME NEW t \in Nat, NEW n \in Nat, Claims(t, n)'
        PROVE  Held(t)' \/ \E j \in Nat : RemoveAt(j, t)'
    <3>1. Held(t) \/ \E j \in Nat : RemoveAt(j, t)
      BY <1>2, <1>6, <2>2 DEF ClaimsInv
    <3>2. ~RemoveAt(1, t)
      BY <1>5, <2>2
    <3> QED
      BY <1>4, <1>7, <3>1, <3>2
  <2>3. ASSUME NEW t \in Nat, NEW u \in Nat, NEW n \in Nat, Claims(t, n)', t < u
        PROVE  /\ ~(u \in DOMAIN fds' /\ fds'[u] = n)
               /\ \A i \in Nat : AddAt(i, u, n)' => \E j \in Nat : j < i /\ RemoveAt(j, t)'
    <3>1. /\ ~(u \in DOMAIN fds /\ fds[u] = n)
          /\ \A i \in Nat : AddAt(i, u, n) => \E j \in Nat : j < i /\ RemoveAt(j, t)
      BY <1>2, <1>6, <2>3 DEF ClaimsInv
    <3>2. ~RemoveAt(1, t)
      BY <1>5, <2>3
    <3>3. ~AddAt(1, u, n)
      <4> SUFFICES ASSUME AddAt(1, u, n) PROVE FALSE
        OBVIOUS
      <4>1. PICK j \in Nat : j < 1 /\ RemoveAt(j, t)
        BY <3>1
      <4>2. j \in 1 .. Len(Queue)
        BY <4>1 DEF RemoveAt
      <4> QED
        BY <4>1, <4>2
    <3>4. ASSUME NEW i \in Nat, AddAt(i, u, n)' PROVE \E j \in Nat : j < i /\ RemoveAt(j, t)'
      <4>1. PICK j \in Nat : j < i + 1 /\ RemoveAt(j, t)
        BY <1>3, <3>1, <3>4
      <4>2. j - 1 \in Nat /\ RemoveAt(j - 1, t)'
        BY <1>4, <3>2, <4>1
      <4>3. j - 1 < i
        BY <4>1
      <4> QED
        BY <4>2, <4>3
    <3> QED
      BY <3>1, <3>3, <3>4
  <2> QED
    BY <2>1, <2>2, <2>3 DEF ClaimsInv
<1> QED
  BY <1>8, <1>9, <1>10 DEF QueueInv

\* add_fd_on_reactor(): a number that is free in the kernel's list has no earlier
\* claim left, and the token's holder, if it still has one, has it open.
LEMMA AddRunFiles ==
    ASSUME RegistrationInv, TypeInv', QueueInv, NEW t \in Nat, NEW n \in FdNumbers,
           AddAt(1, t, n), epoll[n] = 0,
           epoll' = [epoll EXCEPT ![n] = t], fds' = With(fds, t, n),
           UNCHANGED <<file, token, nextToken>>
    PROVE  FilesInv'
<1>1. /\ FilesInv /\ AddsInv /\ ClaimsInv /\ n \in Nat
      /\ epoll \in [FdNumbers -> Nat] /\ file \in [Callers -> FdNumbers \cup {0}]
      /\ DOMAIN fds \subseteq Nat
  BY ReactorAssumption DEF RegistrationInv, TypeInv, TypeOK, QueueInv
<1>2. 0 < t /\ t < nextToken /\ t \notin DOMAIN fds
  BY <1>1 DEF AddsInv
<1>3. /\ DOMAIN fds' = DOMAIN fds \cup {t}
      /\ fds'[t] = n /\ \A u \in DOMAIN fds : fds'[u] = fds[u]
  BY <1>2 DEF With
<1>4. \A m \in FdNumbers : epoll'[m] = IF m = n THEN t ELSE epoll[m]
  BY <1>1
<1>5. \A m \in FdNumbers : epoll'[m] # 0 => epoll'[m] \in DOMAIN fds' /\ fds'[epoll'[m]] = m
  BY <1>1, <1>2, <1>3, <1>4 DEF FilesInv
<1>6. ASSUME NEW c \in Callers, token[c] \in DOMAIN fds' PROVE epoll'[file[c]] = token[c]
  <2>1. CASE token[c] = t
    <3>1. file[c] = n
      BY <1>1, <2>1 DEF ClaimsInv, Claims
    <3> QED
      BY <1>4, <2>1, <3>1
  <2>2. CASE token[c] # t
    <3>1. token[c] \in DOMAIN fds /\ token[c] # 0
      BY <1>1, <1>3, <1>6, <2>2 DEF FilesInv
    <3>2. file[c] \in FdNumbers /\ epoll[file[c]] = token[c]
      BY <1>1, <3>1 DEF FilesInv
    <3> QED
      BY <1>4, <3>1, <3>2
  <2> QED
    BY <2>1, <2>2
<1> QED
  BY <1>1, <1>2, <1>3, <1>5, <1>6 DEF FilesInv

\* remove_fd_on_reactor(): EPOLL_CTL_DEL goes by number, and no other token is
\* registered for that number.
LEMMA RemoveRunFiles ==
    ASSUME RegistrationInv, TypeInv', QueueInv, NEW t \in DOMAIN fds,
           epoll' = [epoll EXCEPT ![fds[t]] = 0], fds' = Without(fds, t),
           UNCHANGED <<file, token, nextToken>>
    PROVE  FilesInv'
<1>1. /\ FilesInv /\ ClaimsInv /\ fds[t] \in FdNumbers /\ t \in Nat
      /\ epoll \in [FdNumbers -> Nat] /\ file \in [Callers -> FdNumbers \cup {0}]
      /\ DOMAIN fds \subseteq Nat /\ FdNumbers \subseteq Nat
  BY ReactorAssumption DEF RegistrationInv, TypeInv, TypeOK, QueueInv
<1>2. /\ DOMAIN fds' = DOMAIN fds \ {t}
      /\ \A u \in DOMAIN fds' : fds'[u] = fds[u]
  BY DEF Without
<1>3. \A m \in FdNumbers : epoll'[m] = IF m = fds[t] THEN 0 ELSE epoll[m]
  BY <1>1
<1>4. \A u \in DOMAIN fds : fds[u] = fds[t] => u = t
  <2> SUFFICES ASSUME NEW u \in DOMAIN fds, fds[u] = fds[t] PROVE ~(t < u) /\ ~(u < t)
    BY <1>1
  <2>1. Claims(t, fds[t]) /\ Claims(u, fds[t]) /\ u \in Nat /\ fds[t] \in Nat
    BY <1>1 DEF Claims
  <2> QED
    BY <1>1, <2>1 DEF ClaimsInv
<1>5. ASSUME NEW m \in FdNumbers, epoll'[m] # 0
      PROVE  epoll'[m] \in DOMAIN fds' /\ fds'[epoll'[m]] = m
  <2>1. epoll'[m] = epoll[m] /\ m # fds[t]
    BY <1>3, <1>5
  <2>2. epoll[m] \in DOMAIN fds /\ fds[epoll[m]] = m
    BY <1>1, <1>5, <2>1 DEF FilesInv
  <2> QED
    BY <1>2, <2>1, <2>2
<1>6. ASSUME NEW c \in Callers, token[c] \in DOMAIN fds' PROVE epoll'[file[c]] = token[c]
  <2>1. token[c] \in DOMAIN fds /\ token[c] # t
    BY <1>2, <1>6
  <2>2. file[c] \in FdNumbers /\ epoll[file[c]] = token[c] /\ token[c] # 0
    BY <1>1, <2>1 DEF FilesInv
  <2>3. fds[token[c]] = file[c]
    BY <1>1, <2>2 DEF FilesInv
  <2>4. file[c] # fds[t]
    BY <1>4, <2>1, <2>3
  <2> QED
    BY <1>3, <2>2, <2>4
<1> QED
  BY <1>1, <1>2, <1>5, <1>6 DEF FilesInv

LEMMA RunOpStep ==
    ASSUME RegistrationInv, TypeInv', RunOp
    PROVE  RegistrationInv'
<1> DEFINE op == Head(batch)
<1>1. /\ batch # <<>> /\ batch' = Tail(batch)
      /\ pc = "ops" /\ pc' = "ops"
      /\ UNCHANGED <<pending, file, token, nextToken>>
      /\ FilesInv /\ QueueInv /\ TypeInv
  BY DEF RunOp, clientVars, RegistrationInv
<1>2. op \in GoodOps /\ op.token \in Nat /\ (op.kind = "add" => op.fd \in FdNumbers)
  <2>1. op \in GoodOps
    BY <1>1, HeadTailProperties DEF TypeInv
  <2> QED
    BY <2>1 DEF GoodOps, Ops
<1>3. /\ \A t, n \in Nat : AddAt(1, t, n) <=> IsAdd(op, t, n)
      /\ \A t \in Nat : RemoveAt(1, t) <=> IsRemove(op, t)
  BY <1>1, QueueShifted
<1>4. \/ op.kind = "add" /\ AddFdOnReactor(op)
      \/ op.kind = "remove" /\ RemoveFdOnReactor(op)
      \/ op.kind \notin {"add", "remove"} /\ UNCHANGED <<fds, epoll>>
  BY DEF RunOp, watchVars
<1> HIDE DEF op
<1>5. /\ FilesInv'
      /\ \A u \in DOMAIN fds' :
            (u \in DOMAIN fds /\ fds'[u] = fds[u]) \/ AddAt(1, u, fds'[u])
      /\ \A u \in Nat : RemoveAt(1, u) => u \notin DOMAIN fds'
  <2>1. CASE UNCHANGED <<fds, epoll>> /\ ~(op.kind = "remove" /\ op.token \in DOMAIN fds)
    <3>1. FilesInv'
      BY <1>1, <2>1 DEF FilesInv
    <3>2. \A u \in Nat : RemoveAt(1, u) => u \notin DOMAIN fds'
      BY <1>3, <2>1 DEF IsRemove
    <3> QED
      BY <2>1, <3>1, <3>2
  <2>2. CASE /\ op.kind = "add" /\ epoll[op.fd] = 0
             /\ epoll' = [epoll EXCEPT ![op.fd] = op.token]
             /\ fds' = With(fds, op.token, op.fd)
    <3>1. op.fd \in FdNumbers /\ op.fd \in Nat /\ AddAt(1, op.token, op.fd)
      BY <1>2, <1>3, <2>2, ReactorAssumption DEF IsAdd
    <3>2. FilesInv'
      BY <1>1, <1>2, <2>2, <3>1, AddRunFiles
    <3>3. ASSUME NEW u \in DOMAIN fds'
          PROVE  (u \in DOMAIN fds /\ fds'[u] = fds[u]) \/ AddAt(1, u, fds'[u])
      BY <2>2, <3>1 DEF With
    <3>4. \A u \in Nat : ~RemoveAt(1, u)
      BY <1>3, <2>2 DEF IsRemove
    <3> QED
      BY <3>2, <3>3, <3>4
  <2>3. CASE /\ op.kind = "remove" /\ op.token \in DOMAIN fds
             /\ epoll' = [epoll EXCEPT ![fds[op.token]] = 0]
             /\ fds' = Without(fds, op.token)
    <3>1. FilesInv'
      BY <1>1, <2>3, RemoveRunFiles
    <3>2. \A u \in DOMAIN fds' : u \in DOMAIN fds /\ fds'[u] = fds[u] /\ u # op.token
      BY <2>3 DEF Without
    <3>3. \A u \in Nat : RemoveAt(1, u) => u = op.token
      BY <1>3 DEF IsRemove
    <3> QED
      BY <3>1, <3>2, <3>3
  <2> QED
    BY <1>4, <2>1, <2>2, <2>3 DEF AddFdOnReactor, RemoveFdOnReactor, watchVars
<1>6. QueueInv'
  BY <1>1, <1>5, QueueRun
<1> QED
  BY <1>1, <1>5, <1>6 DEF RegistrationInv

LEMMA RegistrationStep == RegistrationInv /\ [Next]_vars => RegistrationInv'
<1> SUFFICES ASSUME RegistrationInv, [Next]_vars PROVE RegistrationInv'
  OBVIOUS
<1>1. TypeInv /\ TypeInv' /\ TypeOK
  BY TypeStep DEF RegistrationInv, TypeInv
<1>2. ASSUME UNCHANGED <<pending, batch, fds, epoll, file, token, nextToken>>,
             pc' # "failed" => pc # "failed", pc' # "ops" => batch = <<>>
      PROVE  RegistrationInv'
  <2>1. Queue' = Queue
    BY <1>2 DEF Queue
  <2> QED
    BY <1>1, <1>2, <2>1, RegistrationsUntouched
<1>3. ASSUME NEW c \in Callers, Post(c) PROVE RegistrationInv'
  <2>1. Task(posted + 1) \in GoodOps /\ Task(posted + 1).kind \notin {"add", "remove"}
    BY <1>1, OpKinds DEF TypeOK
  <2> QED
    BY <1>1, <1>3, <2>1, OtherPushed DEF Post, Enqueue, loopVars, watchVars
<1>4. ASSUME NEW c \in Callers, NEW d \in Delays, AddTimer(c, d) PROVE RegistrationInv'
  <2>1. d \in Nat /\ nextToken \in Nat
    BY <1>1, ReactorAssumption DEF TypeOK
  <2>2. Timer(nextToken, d) \in GoodOps /\ Timer(nextToken, d).kind \notin {"add", "remove"}
    BY <2>1, OpKinds
  <2> QED
    BY <1>1, <1>4, <2>2, OtherPushed DEF AddTimer, Enqueue, loopVars, watchVars
<1>5. ASSUME NEW c \in Callers, Stop(c) \/ Wake(c) PROVE RegistrationInv'
  BY <1>2, <1>5 DEF Stop, Wake, loopVars, watchVars, clientVars, RegistrationInv
<1>6. ASSUME NEW c \in Callers, Caller(c) \/ Wake(c) PROVE RegistrationInv'
  BY <1>1, <1>3, <1>4, <1>5, <1>6, AddFdStep, RemoveFdStep, FilesStep DEF Caller
<1>7. CASE Drain
  <2>1. batch = <<>> /\ batch' = pending /\ pending' = <<>> /\ pc' = "ops" /\ pc = "drain"
    BY <1>7 DEF Drain, RegistrationInv
  <2>2. Queue' = Queue
    BY <1>1, <2>1, QueueDrained
  <2> QED
    BY <1>1, <1>7, <2>1, <2>2, RegistrationsUntouched DEF Drain, watchVars, clientVars
<1>8. CASE OpsDone \/ FireTimer \/ TimersDone \/ WaitTimeout \/ WaitReturns \/ DispatchDone
           \/ WaitInterrupted \/ (\E e \in ready : DispatchReadyEvent(e))
  BY <1>2, <1>8 DEF OpsDone, FireTimer, TimersDone, WaitTimeout, WaitReturns, DispatchDone,
                    WaitInterrupted, DispatchReadyEvent, watchVars, clientVars, RegistrationInv
<1>9. CASE CallbackThrows
  <2>1. pc' = "failed" /\ batch' = <<>> /\ FilesInv'
    BY <1>9 DEF CallbackThrows, RegistrationInv, FilesInv, watchVars, clientVars
  <2> QED
    BY <1>1, <2>1 DEF RegistrationInv
<1>10. CASE Tick \/ UNCHANGED vars
  BY <1>2, <1>10 DEF Tick, vars, loopVars, watchVars, clientVars, RegistrationInv
<1>11. CASE RunOp
  BY <1>1, <1>11, RunOpStep
<1> QED
  BY <1>6, <1>7, <1>8, <1>9, <1>10, <1>11 DEF Next, Loop

\* Callers, kernel list and callbacks agree through every reuse of a descriptor's
\* number: what a holder registered is watched under its own token, the kernel reports
\* only tokens with a callback, and a callback is a holder's or its removal is queued
\* (reactor.cpp:616-657, 715-725).
THEOREM RegistrationsStayExact == Spec => []RegistrationsExact
<1>1. RegistrationInv => RegistrationsExact
  <2> SUFFICES ASSUME RegistrationInv PROVE RegistrationsExact
    OBVIOUS
  <2>1. RegistrationWatched
    BY DEF RegistrationInv, FilesInv, RegistrationWatched
  <2>2. Watched \subseteq DOMAIN fds
    BY DEF RegistrationInv, FilesInv, Watched
  <2>3. ASSUME NEW t \in DOMAIN fds, pc # "failed", ~Held(t) PROVE RemovalQueued(t)
    <3>1. QueueInv /\ t \in Nat /\ fds[t] \in Nat
      BY <2>3, ReactorAssumption DEF RegistrationInv, TypeInv, TypeOK
    <3>2. PICK j \in Nat : RemoveAt(j, t)
      BY <2>3, <3>1 DEF QueueInv, ClaimsInv, Claims
    <3>3. j \in 1 .. Len(Queue) /\ Queue[j] = Remove(t)
      BY <3>1, <3>2 DEF QueueInv, RemovesInv, RemoveAt
    <3>4. /\ Len(batch) \in Nat /\ Len(pending) \in Nat
          /\ Len(Queue) = Len(batch) + Len(pending)
          /\ \A i \in 1 .. Len(batch) + Len(pending) :
                Queue[i] = IF i <= Len(batch) THEN batch[i] ELSE pending[i - Len(batch)]
      BY ConcatProperties DEF Queue, RegistrationInv, TypeInv
    <3>5. CASE j <= Len(batch)
      BY <3>3, <3>4, <3>5 DEF RemovalQueued
    <3>6. CASE ~(j <= Len(batch))
      <4>1. j - Len(batch) \in 1 .. Len(pending) /\ pending[j - Len(batch)] = Remove(t)
        BY <3>3, <3>4, <3>6
      <4> QED
        BY <4>1 DEF RemovalQueued
    <3> QED
      BY <3>5, <3>6
  <2> QED
    BY <2>1, <2>2, <2>3 DEF RegistrationsExact, NoOrphanRegistration, Held
<1> QED
  BY <1>1, RegistrationInit, RegistrationStep, PTL DEF Spec
=============================================================================
