---------------------------- MODULE TimerThread ----------------------------
(***************************************************************************)
(* kernel/scheduling/timer_thread.cpp: the thread that owns deadlines and  *)
(* executes nothing.  Any number of client threads arm and cancel tokens;  *)
(* the internal thread moves expired tokens from armed_ to due_ and makes  *)
(* wake_fd_ readable; a consumer polls wake_fd_ and drains due_.           *)
(*                                                                         *)
(* A step that holds mutex_ is one action.  What happens after the mutex   *)
(* is released is another: a client's write to control_fd_ is separate     *)
(* from the change it announces, and the internal thread's timerfd_settime *)
(* and poll are separate from the collection that chose the deadline.      *)
(* The instrument and the counters are left out: nothing reads them back.  *)
(***************************************************************************)
EXTENDS Integers, FiniteSets

CONSTANTS Clients,     \* threads that call arm() and cancel()
          MaxClock,     \* the clock stops here
          MaxTokens    \* tokens handed out before arm() is no longer called

ASSUME TimerAssumption ==
    /\ MaxClock \in Nat
    /\ MaxTokens \in Nat

Time  == 0 .. MaxClock
Token == 1 .. MaxTokens
None  == -1            \* std::nullopt, and a timerfd whose it_value is zero

VARIABLES
    clock,        \* steady_clock, which is CLOCK_MONOTONIC
    armedTokens,  \* armed_: the tokens waiting for their deadline
    deadline,     \* Entry::deadline of every token handed out
    due,          \* due_: expired and not yet drained
    nextToken,    \* next_token_
    stopping,     \* stopping_
    wakeFd,       \* wake_fd_ is readable
    controlFd,    \* control_fd_ is readable
    timerFd,      \* what timer_fd_ is programmed for, None when disarmed
    worker,       \* where run() stands
    next,         \* run()'s local: the deadline it will program
    revents,      \* run()'s local: the descriptors poll() reported
    client,       \* clients between a change and the control_fd_ write
    stopper,      \* where stop() stands
    cancelled,    \* history: tokens whose cancel() released the mutex
    delivered,    \* history: tokens returned by a drain()
    unprogrammed  \* history: the last timerfd_settime failed

tokenVars == <<armedTokens, deadline, due, nextToken>>
fdVars    == <<wakeFd, controlFd, timerFd>>
loopVars  == <<worker, next, revents>>
stopVars  == <<stopping, stopper>>
history   == <<cancelled, delivered, unprogrammed>>
timerVars      == <<clock, tokenVars, fdVars, loopVars, stopVars, client, history>>

WorkerState  == {"collect", "arm", "poll", "drain", "exited"}
StopperState == {"idle", "signal", "join", "joined"}

TimerTypeOK ==
    /\ clock \in Time
    /\ armedTokens \subseteq Token
    /\ deadline \in [Token -> Time]
    /\ due \subseteq Token
    /\ nextToken \in 1 .. MaxTokens + 1
    /\ stopping \in BOOLEAN
    /\ wakeFd \in BOOLEAN
    /\ controlFd \in BOOLEAN
    /\ timerFd \in Time \cup {None}
    /\ worker \in WorkerState
    /\ next \in Time \cup {None}
    /\ revents \subseteq {"timer", "control"}
    /\ client \subseteq Clients
    /\ stopper \in StopperState
    /\ cancelled \subseteq Token
    /\ delivered \subseteq Token
    /\ unprogrammed \in BOOLEAN

\* The constructor, descriptors acquired and worker_ started.
TimerInit ==
    /\ clock = 0
    /\ armedTokens = {}
    /\ deadline = [t \in Token |-> 0]
    /\ due = {}
    /\ nextToken = 1
    /\ stopping = FALSE
    /\ wakeFd = FALSE
    /\ controlFd = FALSE
    /\ timerFd = None
    /\ worker = "collect"
    /\ next = None
    /\ revents = {}
    /\ client = {}
    /\ stopper = "idle"
    /\ cancelled = {}
    /\ delivered = {}
    /\ unprogrammed = FALSE

-----------------------------------------------------------------------------
(* The clock. *)

TimerTick ==
    /\ clock < MaxClock
    /\ clock' = clock + 1
    /\ UNCHANGED <<tokenVars, fdVars, loopVars, stopVars, client, history>>

-----------------------------------------------------------------------------
(* Clients. *)
\* Mutant: the entry is recorded and control_fd_ is never written.
ArmWithoutSignal(c, d) ==
    /\ c \notin client
    /\ nextToken <= MaxTokens
    /\ nextToken' = nextToken + 1
    /\ deadline' = [deadline EXCEPT ![nextToken] = d]
    /\ armedTokens' = IF stopping THEN armedTokens ELSE armedTokens \cup {nextToken}
    /\ UNCHANGED <<clock, due, fdVars, loopVars, stopVars, client, history>>

\* arm(d) under the mutex.  While stopping, a token is handed out, nothing is
\* recorded and control_fd_ is not written.
Arm(c, d) ==
    /\ c \notin client
    /\ nextToken <= MaxTokens
    /\ nextToken' = nextToken + 1
    /\ deadline' = [deadline EXCEPT ![nextToken] = d]
    /\ IF stopping
       THEN UNCHANGED <<armedTokens, client>>
       ELSE /\ armedTokens' = armedTokens \cup {nextToken}
            /\ client' = client \cup {c}
    /\ UNCHANGED <<clock, due, fdVars, loopVars, stopVars, history>>

\* Mutant: an expired token is left in due_.
CancelArmedOnly(c, t) ==
    /\ c \notin client
    /\ t < nextToken
    /\ armedTokens' = armedTokens \ {t}
    /\ client' = client \cup {c}
    /\ cancelled' = cancelled \cup {t}
    /\ UNCHANGED <<clock, deadline, due, nextToken, fdVars, loopVars, stopVars, delivered,
                   unprogrammed>>

\* cancel(t) under the mutex: forgotten whether or not it had expired.
Cancel(c, t) ==
    /\ c \notin client
    /\ t < nextToken
    /\ armedTokens' = armedTokens \ {t}
    /\ due' = due \ {t}
    /\ client' = client \cup {c}
    /\ cancelled' = cancelled \cup {t}
    /\ UNCHANGED <<clock, deadline, nextToken, fdVars, loopVars, stopVars, delivered,
                   unprogrammed>>

\* signal_fd( control_fd_ ), after the mutex, at the end of arm() and cancel().
Signal(c) ==
    /\ c \in client
    /\ client' = client \ {c}
    /\ controlFd' = TRUE
    /\ UNCHANGED <<clock, tokenVars, wakeFd, timerFd, loopVars, stopVars, history>>

\* drain(): the tokens taken and wake_fd_ cleared under one lock.
Drain ==
    /\ delivered' = delivered \cup due
    /\ due' = {}
    /\ wakeFd' = FALSE
    /\ UNCHANGED <<clock, armedTokens, deadline, nextToken, controlFd, timerFd, loopVars,
                   stopVars, client, cancelled, unprogrammed>>

-----------------------------------------------------------------------------
(* stop(): the flag under the mutex, the control write, the join. *)
\* Mutant: stop() sets the flag and joins without writing control_fd_.
StopWithoutSignal ==
    /\ stopper = "idle"
    /\ stopping' = TRUE
    /\ stopper' = "join"
    /\ UNCHANGED <<clock, tokenVars, fdVars, loopVars, client, history>>

StopSet ==
    /\ stopper = "idle"
    /\ stopping' = TRUE
    /\ stopper' = "signal"
    /\ UNCHANGED <<clock, tokenVars, fdVars, loopVars, client, history>>

StopSignal ==
    /\ stopper = "signal"
    /\ controlFd' = TRUE
    /\ stopper' = "join"
    /\ UNCHANGED <<clock, tokenVars, wakeFd, timerFd, loopVars, stopping, client,
                   history>>

StopJoin ==
    /\ stopper = "join"
    /\ worker = "exited"
    /\ stopper' = "joined"
    /\ UNCHANGED <<clock, tokenVars, fdVars, loopVars, stopping, client, history>>

-----------------------------------------------------------------------------
(* run(), the internal thread. *)
ExpiredTokens == {t \in armedTokens : deadline[t] <= clock}

\* d is min_element of the deadlines of rest, None when rest is empty.
Earliest(rest, d) ==
    IF rest = {}
    THEN d = None
    ELSE /\ \E t \in rest : d = deadline[t]
         /\ \A t \in rest : d <= deadline[t]

\* One locked pass of the loop: collect_due_locked( now ).
WorkerCollect ==
    /\ worker = "collect"
    /\ ~stopping
    /\ due' = due \cup ExpiredTokens
    /\ armedTokens' = armedTokens \ ExpiredTokens
    /\ wakeFd' = (wakeFd \/ ExpiredTokens # {})
    /\ \E d \in Time \cup {None} : Earliest(armedTokens \ ExpiredTokens, d) /\ next' = d
    /\ worker' = "arm"
    /\ UNCHANGED <<clock, deadline, nextToken, controlFd, timerFd, revents, stopVars,
                   client, history>>

\* The same pass when stop() came first: run() returns.
WorkerExit ==
    /\ worker = "collect"
    /\ stopping
    /\ worker' = "exited"
    /\ UNCHANGED <<clock, tokenVars, fdVars, next, revents, stopVars, client, history>>

\* arm_timer( next ): programs or disarms timer_fd_, without the mutex.
WorkerArmTimer ==
    /\ worker = "arm"
    /\ timerFd' = next
    /\ unprogrammed' = FALSE
    /\ worker' = "poll"
    /\ UNCHANGED <<clock, tokenVars, wakeFd, controlFd, next, revents, stopVars,
                   client, cancelled, delivered>>

\* timerfd_settime fails: the error is logged, timer_fd_ stays as it was programmed, and
\* the thread polls all the same.
WorkerSettimeFails ==
    /\ worker = "arm"
    /\ unprogrammed' = TRUE
    /\ worker' = "poll"
    /\ UNCHANGED <<clock, tokenVars, fdVars, next, revents, stopVars, client, cancelled,
                   delivered>>

TimerReadable == timerFd # None /\ timerFd <= clock

\* poll() returns because a descriptor is readable, and reports which are.
WorkerWake ==
    /\ worker = "poll"
    /\ TimerReadable \/ controlFd
    /\ revents' = (IF TimerReadable THEN {"timer"} ELSE {})
                  \cup (IF controlFd THEN {"control"} ELSE {})
    /\ worker' = "drain"
    /\ UNCHANGED <<clock, tokenVars, fdVars, next, stopVars, client, history>>

\* poll() fails: EINTR starts the loop again without draining, any other
\* error ends the thread and leaves stopping_ as it was.
WorkerPollFails ==
    /\ worker = "poll"
    /\ worker' \in {"collect", "exited"}
    /\ UNCHANGED <<clock, tokenVars, fdVars, next, revents, stopVars, client, history>>

\* The two drains after poll().  A one-shot timerfd that was read stays silent
\* until it is programmed again.
WorkerDrain ==
    /\ worker = "drain"
    /\ timerFd' = IF "timer" \in revents THEN None ELSE timerFd
    /\ controlFd' = (controlFd /\ "control" \notin revents)
    /\ worker' = "collect"
    /\ UNCHANGED <<clock, tokenVars, wakeFd, next, revents, stopVars, client, history>>

Worker ==
    \/ WorkerCollect
    \/ WorkerExit
    \/ WorkerArmTimer
    \/ WorkerWake
    \/ WorkerDrain

TimerNext ==
    \/ TimerTick
    \/ \E c \in Clients, d \in Time : Arm(c, d)
    \/ \E c \in Clients, t \in Token : Cancel(c, t)
    \/ \E c \in Clients : Signal(c)
    \/ Drain
    \/ StopSet
    \/ StopSignal
    \/ StopJoin
    \/ Worker
    \/ WorkerPollFails
    \/ WorkerSettimeFails

TimerSpec == TimerInit /\ [][TimerNext]_timerVars

\* The kernel schedules the internal thread and the clock runs; a client that
\* released the mutex reaches its control_fd_ write, a stop() its own write and
\* its join.  Nobody is obliged to arm, cancel, drain or stop, and neither
\* poll() nor timerfd_settime need fail.
TimerFairSpec ==
    /\ TimerSpec
    /\ WF_timerVars(TimerTick)
    /\ WF_timerVars(Worker)
    /\ \A c \in Clients : WF_timerVars(Signal(c))
    /\ WF_timerVars(StopSignal)
    /\ WF_timerVars(StopJoin)

-----------------------------------------------------------------------------
(* Properties. *)

\* A token in due_ always finds wake_fd_ readable (timer_thread.hpp:153-156):
\* drain() clears the readability atomically with taking the tokens, so an
\* expiry racing a drain() is never left behind unannounced.
WakeNotLost == due # {} => wakeFd

\* After cancel(t) returns, t is in neither armed_ nor due_, so no later drain()
\* can return it, whichever side of its expiry the cancel fell on
\* (timer_thread.hpp:139-142).
CancelIsFinal == cancelled \cap (armedTokens \cup due) = {}

\* A token expires once, is drained once, and is never handed out again:
\* whatever drain() returned is neither waiting nor expired.
DeliveredOnce ==
    /\ armedTokens \cap due = {}
    /\ delivered \cap (armedTokens \cup due) = {}
    /\ \A t \in armedTokens \cup due \cup delivered : t < nextToken

\* No token is reported before its deadline passed (timer_thread.cpp:645).
NeverEarly == \A t \in due \cup delivered : deadline[t] <= clock

\* What timer_thread.hpp:139-156 promises the consumer of wake_fd(), whatever the
\* interleaving of arm, cancel, drain and the thread's own collection: the four above.
TokensSafe == WakeNotLost /\ CancelIsFinal /\ DeliveredOnce /\ NeverEarly

\* The self-pipe argument of timer_thread.cpp:375-378: when the thread blocks
\* in poll(), either timer_fd_ is programmed no later than every armed
\* deadline, or control_fd_ is readable, or the client that changed the set has
\* its control_fd_ write still ahead of it.  The exception is a thread whose last
\* timerfd_settime failed (timer_thread.cpp:710): it has only control_fd_, and stays
\* without its deadline until the next successful pass.
Covered ==
    /\ timerFd # None
    /\ \A t \in armedTokens : timerFd <= deadline[t]

NoUnwatchedDeadline ==
    worker = "poll" /\ armedTokens # {} => controlFd \/ client # {} \/ Covered \/ unprogrammed

\* stop() never strands its join: while the thread is blocked with stopping_
\* set, the wake that gets it out is there or is still to be written.
StopIsHeard ==
    worker = "poll" /\ stopping => controlFd \/ stopper = "signal"

\* An armed token whose deadline passes is eventually reported or cancelled,
\* unless the thread has ended or could not program its timer.
ArmedEventuallyDue ==
    \A t \in Token : t \in armedTokens /\ deadline[t] <= clock
        ~> t \notin armedTokens \/ stopping \/ worker = "exited" \/ unprogrammed

\* stop() terminates: once the flag is set the join is reached, with a timer or without.
StopTerminates == stopping ~> stopper = "joined"

\* The thread neither sleeps through a deadline nor through a stop().
ThreadServes == ArmedEventuallyDue /\ StopTerminates

=============================================================================
