------------------------------ MODULE Reactor ------------------------------
(***************************************************************************)
(* kernel/scheduling/reactor.cpp: the epoll loop every backend shares.     *)
(* Any thread queues operations (tasks, timers, descriptors to watch or to *)
(* drop) under mutex_ and then writes the wake eventfd; the loop thread    *)
(* drains the queue, fires expired timers, arms the timerfd, waits and     *)
(* dispatches.  A callback's own calls into the reactor are among the      *)
(* interleavings of the callers.                                           *)
(*                                                                         *)
(* The callers own the descriptors.  As WindowTracker and the AT-SPI       *)
(* monitor do, they call remove_fd() before they close, and the number may *)
(* then be reused by somebody else while the removal is still queued.      *)
(***************************************************************************)
EXTENDS Integers, Sequences, FiniteSets, FiniteSetsExt

CONSTANTS
    Callers,      \* threads that use the reactor
    FdNumbers,    \* descriptor numbers the process may be given
    Delays,       \* add_timer() delays
    Milli,        \* ticks per millisecond: epoll_wait's resolution
    MaxTime,      \* bound on the clock
    MaxTasks, MaxTimers, MaxFds    \* bounds on each kind of operation

ASSUME ReactorAssumption ==
    /\ FdNumbers \subseteq Nat \ {0}
    /\ Delays \subseteq Nat
    /\ Milli \in Nat \ {0}
    /\ {MaxTime, MaxTasks, MaxTimers, MaxFds} \subseteq Nat

None       == -1     \* no deadline, an infinite wait
WakeToken  == 0
FirstToken == 1
TimerToken == -1     \* the top of the token space

VARIABLES
    pending,      \* pending_ops_
    call,         \* caller: "idle", or "wake" between the push and the eventfd write
    wakeFd,       \* wake_fd_ is readable
    stop,         \* stop_requested_
    pc,           \* where the loop thread is
    batch,        \* the swapped-out ops still to run
    ready,        \* what epoll_wait reported and is still to dispatch
    fds,          \* fds_: token -> descriptor number
    cancelled,    \* cancelled_tokens_
    epoll,        \* the kernel's interest list: number -> token, 0 if none
    timers,       \* timers_
    cutoff,       \* the clock reading of dispatch_expired_timers()
    armed,        \* the timerfd's expiry
    limit,        \* when epoll_wait times out
    now,
    file,         \* caller -> the descriptor it has open, 0 if none
    token,        \* caller -> the token it holds for it, 0 if none
    nextToken,    \* next_token_
    posted,       \* number of tasks posted so far
    ran           \* history: the tasks run, in order

loopVars   == <<pc, batch, ready, cutoff, armed, limit>>
watchVars  == <<fds, cancelled, epoll>>
clientVars == <<file, token, nextToken, posted>>
vars == <<pending, call, wakeFd, stop, loopVars, watchVars, timers, now, clientVars, ran>>

\* PendingOp.
Task(n)        == [kind |-> "task",   token |-> n, fd |-> 0, delay |-> 0]
Timer(n, d)    == [kind |-> "timer",  token |-> n, fd |-> 0, delay |-> d]
Add(n, fd)     == [kind |-> "add",    token |-> n, fd |-> fd, delay |-> 0]
Remove(n)      == [kind |-> "remove", token |-> n, fd |-> 0, delay |-> 0]
Ops == [kind : {"task", "timer", "add", "remove"}, token : Nat, fd : Nat, delay : Nat]

LoopStates == {"drain", "ops", "timers", "arm", "wait", "dispatch",
               "stopped", "failed"}
Ended      == {"stopped", "failed"}

TypeOK ==
    /\ pending \in Seq(Ops) /\ batch \in Seq(Ops)
    /\ call \in [Callers -> {"idle", "wake"}]
    /\ wakeFd \in BOOLEAN /\ stop \in BOOLEAN
    /\ pc \in LoopStates
    /\ ready \subseteq Nat \cup {TimerToken}
    /\ DOMAIN fds \subseteq Nat /\ \A t \in DOMAIN fds : fds[t] \in FdNumbers
    /\ cancelled \subseteq Nat
    /\ epoll \in [FdNumbers -> Nat]
    /\ \A t \in timers : t.token \in Nat /\ t.deadline \in Nat
    /\ cutoff \in Nat /\ now \in 0 .. MaxTime
    /\ armed \in Nat \cup {None} /\ limit \in Nat \cup {None}
    /\ file \in [Callers -> FdNumbers \cup {0}]
    /\ token \in [Callers -> Nat]
    /\ nextToken \in Nat /\ posted \in Nat
    /\ ran \in Seq(Nat)

Init ==
    /\ pending = <<>> /\ batch = <<>> /\ ran = <<>>
    /\ call = [c \in Callers |-> "idle"]
    /\ wakeFd = FALSE /\ stop = FALSE
    /\ pc = "drain" /\ ready = {}
    /\ fds = <<>> /\ cancelled = {}
    /\ epoll = [n \in FdNumbers |-> 0]
    /\ timers = {}
    /\ cutoff = 0 /\ now = 0 /\ armed = None /\ limit = None
    /\ file = [c \in Callers |-> 0] /\ token = [c \in Callers |-> 0]
    /\ nextToken = FirstToken /\ posted = 0

-----------------------------------------------------------------------------
(* The callers. *)

\* Mutant: only the first operation of a queue wakes the loop, and the wake is
\* forgotten when the loop is not waiting at that moment.
EnqueueLazyWake(c, op) ==
    /\ call[c] = "idle"
    /\ pending' = Append(pending, op)
    /\ call' = [call EXCEPT ![c] = IF pc = "wait" THEN "wake" ELSE "idle"]

\* enqueue(): pushed under the mutex, the wake follows after the unlock.
Enqueue(c, op) ==
    /\ call[c] = "idle"
    /\ pending' = Append(pending, op)
    /\ call' = [call EXCEPT ![c] = "wake"]

Wake(c) ==
    /\ call[c] = "wake"
    /\ wakeFd' = TRUE
    /\ call' = [call EXCEPT ![c] = "idle"]
    /\ UNCHANGED <<pending, stop, loopVars, watchVars, timers, now, clientVars, ran>>

Post(c) ==
    /\ posted < MaxTasks
    /\ Enqueue(c, Task(posted + 1))
    /\ posted' = posted + 1
    /\ UNCHANGED <<wakeFd, stop, loopVars, watchVars, timers, now, file, token,
                   nextToken, ran>>

AddTimer(c, d) ==
    /\ nextToken < FirstToken + MaxTimers
    /\ Enqueue(c, Timer(nextToken, d))
    /\ nextToken' = nextToken + 1
    /\ UNCHANGED <<wakeFd, stop, loopVars, watchVars, timers, now, file, token,
                   posted, ran>>

\* The token is handed out only once the registration is queued.
AddFd(c) ==
    /\ nextToken < FirstToken + MaxFds
    /\ file[c] # 0 /\ token[c] = 0
    /\ Enqueue(c, Add(nextToken, file[c]))
    /\ token' = [token EXCEPT ![c] = nextToken]
    /\ nextToken' = nextToken + 1
    /\ UNCHANGED <<wakeFd, stop, loopVars, watchVars, timers, now, file, posted, ran>>

RemoveFd(c) ==
    /\ token[c] # 0
    /\ Enqueue(c, Remove(token[c]))
    /\ token' = [token EXCEPT ![c] = 0]
    /\ UNCHANGED <<wakeFd, stop, loopVars, watchVars, timers, now, file, nextToken,
                   posted, ran>>

\* Mutant: the flag is set and nobody is woken.
StopQuiet(c) ==
    /\ call[c] = "idle"
    /\ ~stop
    /\ stop' = TRUE
    /\ UNCHANGED <<pending, call, wakeFd, loopVars, watchVars, timers, now, clientVars, ran>>

\* stop(): the flag first, then the wake, and only by the thread that set it.
Stop(c) ==
    /\ call[c] = "idle"
    /\ ~stop
    /\ stop' = TRUE
    /\ call' = [call EXCEPT ![c] = "wake"]
    /\ UNCHANGED <<pending, wakeFd, loopVars, watchVars, timers, now, clientVars, ran>>

\* A caller opens a descriptor and gets the lowest free number.
Open(c) ==
    /\ call[c] = "idle" /\ file[c] = 0
    /\ LET free == FdNumbers \ {file[d] : d \in Callers} IN
          /\ free # {}
          /\ file' = [file EXCEPT ![c] = Min(free)]
    /\ UNCHANGED <<pending, call, wakeFd, stop, loopVars, watchVars, timers, now,
                   token, nextToken, posted, ran>>

\* Mutant: the descriptor is closed first and remove_fd() called afterwards.
CloseEarly(c) ==
    /\ call[c] = "idle" /\ file[c] # 0
    /\ epoll' = [epoll EXCEPT ![file[c]] = 0]
    /\ file' = [file EXCEPT ![c] = 0]
    /\ UNCHANGED <<pending, call, wakeFd, stop, loopVars, fds, cancelled, timers, now,
                   token, nextToken, posted, ran>>

\* WindowTracker::stop(): remove_fd() was called, the connection is closed; the
\* kernel forgets a closed descriptor by itself.
Close(c) ==
    /\ call[c] = "idle" /\ file[c] # 0 /\ token[c] = 0
    /\ epoll' = [epoll EXCEPT ![file[c]] = 0]
    /\ file' = [file EXCEPT ![c] = 0]
    /\ UNCHANGED <<pending, call, wakeFd, stop, loopVars, fds, cancelled, timers, now,
                   token, nextToken, posted, ran>>

-----------------------------------------------------------------------------
(* drain_pending_ops(). *)

Drain ==
    /\ pc = "drain"
    /\ batch' = pending
    /\ pending' = <<>>
    /\ pc' = "ops"
    /\ UNCHANGED <<call, wakeFd, stop, ready, cutoff, armed, limit, watchVars, timers,
                   now, clientVars, ran>>

Without(f, t) == [x \in DOMAIN f \ {t} |-> f[x]]
With(f, t, v) == [x \in DOMAIN f \cup {t} |-> IF x = t THEN v ELSE f[x]]

IsOpen(n) == \E c \in Callers : file[c] = n

\* add_fd_on_reactor(): a number that is closed or already watched costs this
\* one registration and nothing else.
AddFdOnReactor(op) ==
    IF op.token \in cancelled
    THEN cancelled' = cancelled \ {op.token} /\ UNCHANGED <<fds, epoll>>
    ELSE IF IsOpen(op.fd) /\ epoll[op.fd] = 0
    THEN /\ epoll' = [epoll EXCEPT ![op.fd] = op.token]
         /\ fds' = With(fds, op.token, op.fd)
         /\ UNCHANGED cancelled
    ELSE UNCHANGED watchVars

\* Mutant: the registration is taken out of the kernel's list only.
RemoveFdKernelOnly(op) ==
    IF op.token \notin DOMAIN fds
    THEN cancelled' = cancelled \cup {op.token} /\ UNCHANGED <<fds, epoll>>
    ELSE epoll' = [epoll EXCEPT ![fds[op.token]] = 0] /\ UNCHANGED <<fds, cancelled>>

\* remove_fd_on_reactor(): EPOLL_CTL_DEL goes by number; EBADF and ENOENT, the
\* errors it has for an open epoll descriptor, are as good as success.
RemoveFdOnReactor(op) ==
    IF op.token \notin DOMAIN fds
    THEN cancelled' = cancelled \cup {op.token} /\ UNCHANGED <<fds, epoll>>
    ELSE /\ epoll' = [epoll EXCEPT ![fds[op.token]] = 0]
         /\ fds' = Without(fds, op.token)
         /\ UNCHANGED cancelled

RunOp ==
    /\ pc = "ops" /\ batch # <<>>
    /\ batch' = Tail(batch)
    /\ LET op == Head(batch) IN
          \/ op.kind = "add" /\ AddFdOnReactor(op) /\ UNCHANGED <<timers, ran>>
          \/ op.kind = "remove" /\ RemoveFdOnReactor(op) /\ UNCHANGED <<timers, ran>>
          \/ /\ op.kind = "timer"
             /\ timers' = timers \cup {[token |-> op.token, deadline |-> now + op.delay]}
             /\ UNCHANGED <<watchVars, ran>>
          \/ /\ op.kind = "task"
             /\ ran' = Append(ran, op.token)
             /\ UNCHANGED <<watchVars, timers>>
    /\ UNCHANGED <<pending, call, wakeFd, stop, pc, ready, cutoff, armed, limit, now,
                   clientVars>>

\* A task, timer or descriptor callback throws: run() returns the error and the
\* rest of the batch is destroyed with it.
CallbackThrows ==
    /\ \/ pc = "ops" /\ batch # <<>> /\ Head(batch).kind = "task"
       \/ pc = "timers" /\ \E t \in timers : t.deadline <= cutoff
       \/ pc = "dispatch" /\ ready \cap DOMAIN fds # {}
    /\ pc' = "failed"
    /\ batch' = <<>>
    /\ UNCHANGED <<pending, call, wakeFd, stop, ready, cutoff, armed, limit, watchVars,
                   timers, now, clientVars, ran>>

OpsDone ==
    /\ pc = "ops" /\ batch = <<>>
    /\ pc' = IF stop THEN "stopped" ELSE "timers"
    /\ cutoff' = now
    /\ UNCHANGED <<pending, call, wakeFd, stop, batch, ready, armed, limit, watchVars,
                   timers, now, clientVars, ran>>

-----------------------------------------------------------------------------
(* Timers. *)

Earliest == IF timers = {} THEN None ELSE Min({t.deadline : t \in timers})

\* dispatch_expired_timers(): the heap's front, then a look at the stop flag.
FireTimer ==
    /\ pc = "timers"
    /\ \E t \in timers :
          /\ t.deadline = Earliest /\ t.deadline <= cutoff
          /\ timers' = timers \ {t}
    /\ pc' = IF stop THEN "stopped" ELSE "timers"
    /\ UNCHANGED <<pending, call, wakeFd, stop, batch, ready, cutoff, armed, limit,
                   watchVars, now, clientVars, ran>>

TimersDone ==
    /\ pc = "timers"
    /\ \A t \in timers : t.deadline > cutoff
    /\ pc' = IF stop THEN "stopped" ELSE "arm"
    /\ UNCHANGED <<pending, call, wakeFd, stop, batch, ready, cutoff, armed, limit,
                   watchVars, timers, now, clientVars, ran>>

\* epoll_timeout(): the remaining time rounded up to milliseconds.
EpollTimeout ==
    IF timers = {} THEN None
    ELSE IF Earliest <= now THEN now
    ELSE now + Milli * ((Earliest - now + Milli - 1) \div Milli)

\* Mutant: an arm that fails is ignored and the wait is infinite.
WaitTimeoutForever ==
    /\ pc = "arm"
    /\ pc' = "wait"
    /\ armed' \in {Earliest, armed}
    /\ limit' = None
    /\ UNCHANGED <<pending, call, wakeFd, stop, batch, ready, cutoff, watchVars, timers,
                   now, clientVars, ran>>

\* wait_timeout(): the timerfd carries the deadline and the wait is infinite; with
\* no timerfd, or when arming it fails, the wait carries it.
WaitTimeout ==
    /\ pc = "arm"
    /\ pc' = "wait"
    /\ \/ armed' = Earliest /\ limit' = None
       \/ armed' = armed /\ limit' = EpollTimeout
    /\ UNCHANGED <<pending, call, wakeFd, stop, batch, ready, cutoff, watchVars, timers,
                   now, clientVars, ran>>

-----------------------------------------------------------------------------
(* epoll_wait() and dispatch_ready_event(). *)

TimerFdReadable == armed # None /\ armed <= now

\* Any watched descriptor may be readable.
Watched == {epoll[n] : n \in {k \in FdNumbers : epoll[k] # 0}}

WaitReturns ==
    /\ pc = "wait"
    /\ \E readable \in SUBSET Watched :
          /\ ready' = readable
                      \cup (IF wakeFd THEN {WakeToken} ELSE {})
                      \cup (IF TimerFdReadable THEN {TimerToken} ELSE {})
          /\ ready' # {} \/ (limit # None /\ limit <= now)
    /\ pc' = "dispatch"
    /\ UNCHANGED <<pending, call, wakeFd, stop, batch, cutoff, armed, limit, watchVars,
                   timers, now, clientVars, ran>>

\* EINTR starts the loop over, any other error ends it.
WaitInterrupted ==
    /\ pc = "wait"
    /\ pc' \in {"drain", "failed"}
    /\ UNCHANGED <<pending, call, wakeFd, stop, batch, ready, cutoff, armed, limit,
                   watchVars, timers, now, clientVars, ran>>

\* A wake or an expiry is drained to the last count; a descriptor's callback is
\* looked up by token, and one that is gone is skipped.
DispatchReadyEvent(e) ==
    /\ pc = "dispatch" /\ e \in ready
    /\ ready' = ready \ {e}
    /\ wakeFd' = IF e = WakeToken THEN FALSE ELSE wakeFd
    /\ armed' = IF e = TimerToken /\ TimerFdReadable THEN None ELSE armed
    /\ UNCHANGED <<pending, call, stop, pc, batch, cutoff, limit, watchVars, timers, now,
                   clientVars, ran>>

DispatchDone ==
    /\ pc = "dispatch" /\ ready = {}
    /\ pc' = "drain"
    /\ UNCHANGED <<pending, call, wakeFd, stop, batch, ready, cutoff, armed, limit,
                   watchVars, timers, now, clientVars, ran>>

Tick ==
    /\ now < MaxTime
    /\ now' = now + 1
    /\ UNCHANGED <<pending, call, wakeFd, stop, loopVars, watchVars, timers, clientVars,
                   ran>>

-----------------------------------------------------------------------------
Caller(c) ==
    \/ Post(c) \/ AddFd(c) \/ RemoveFd(c) \/ Stop(c) \/ Open(c) \/ Close(c)
    \/ \E d \in Delays : AddTimer(c, d)

Loop ==
    \/ Drain \/ RunOp \/ OpsDone \/ FireTimer \/ TimersDone \/ WaitTimeout
    \/ WaitReturns \/ DispatchDone
    \/ \E e \in ready : DispatchReadyEvent(e)

Next ==
    \/ \E c \in Callers : Caller(c) \/ Wake(c)
    \/ Loop
    \/ CallbackThrows
    \/ WaitInterrupted
    \/ Tick

Spec == Init /\ [][Next]_vars

\* The loop thread and a thread inside wake() keep running, and time passes.
FairSpec ==
    /\ Spec
    /\ WF_vars(Loop)
    /\ \A c \in Callers : WF_vars(Wake(c))
    /\ WF_vars(Tick)

-----------------------------------------------------------------------------
(* Properties. *)

Waking == \E c \in Callers : call[c] = "wake"

\* The loop never sleeps on a queued operation: from the swap of pending_ops_ to the
\* end of the wait, whatever was queued since then has written the eventfd or is
\* about to (reactor.cpp:514-522, 547-574).
QueuedIsAnnounced ==
    pc \in {"ops", "timers", "arm", "wait"} /\ pending # <<>> => wakeFd \/ Waking

\* Nor on a stop request that came after its last look at the flag
\* (reactor.cpp:398-408, 439-449).
StopIsAnnounced ==
    pc \in {"arm", "wait"} /\ stop => wakeFd \/ Waking

\* Nothing asked of the reactor by another thread is slept through: the two above.
RequestsAnnounced == QueuedIsAnnounced /\ StopIsAnnounced

\* While the loop waits, the next deadline is watched by the timerfd or by the
\* wait's own timeout ("Waiting forever with nothing armed is a deadlock",
\* reactor.cpp:816-828), and the timeout is never late by a millisecond or more.
DeadlineWatched ==
    pc = "wait" /\ timers # {} =>
        \/ armed # None /\ armed <= Earliest
        \/ /\ limit # None
           /\ limit < (IF Earliest < now THEN now ELSE Earliest) + Milli

\* A registration whose owner still holds it is watched under its own token, although
\* descriptor numbers are reused while older removals are queued
\* (reactor.cpp:616-628, 646-655).
RegistrationWatched ==
    \A c \in Callers :
        file[c] # 0 /\ token[c] # 0 /\ token[c] \in DOMAIN fds => epoll[file[c]] = token[c]

\* Once a removal has been carried out the kernel's list and fds_ have both forgotten
\* the token: every token the kernel can report has a callback, and every callback
\* belongs to a holder or to a removal still queued (reactor.cpp:631-657, 715-725).
RemovalQueued(t) ==
    \E q \in {pending, batch} : \E i \in 1 .. Len(q) : q[i] = Remove(t)

NoOrphanRegistration ==
    /\ Watched \subseteq DOMAIN fds
    /\ \A t \in DOMAIN fds : (\E c \in Callers : token[c] = t) \/ RemovalQueued(t) \/ pc = "failed"

\* Descriptors, kernel list and callbacks agree through every reuse of a number.
RegistrationsExact == RegistrationWatched /\ NoOrphanRegistration

\* Every posted task is run unless the loop ends (reactor.cpp:500-522, 567-606).
TaskEventuallyRun ==
    \A n \in 1 .. MaxTasks :
        posted >= n ~> (pc \in Ended \/ \E i \in 1 .. Len(ran) : ran[i] = n)

\* A timer whose deadline the clock reaches fires unless the loop ends
\* (reactor.cpp:678-693, 728-852).
TimerEventuallyFires ==
    \A n \in FirstToken .. FirstToken + MaxTimers - 1 :
        (\E t \in timers : t.token = n /\ t.deadline <= MaxTime - Milli + 1)
            ~> (pc \in Ended \/ ~\E t \in timers : t.token = n)

\* stop() ends the loop, whatever it was doing (reactor.cpp:439-449).
StopEndsLoop == stop ~> pc \in Ended

\* What is asked of the reactor happens: tasks run, timers fire, stop() is obeyed.
Progress == TaskEventuallyRun /\ TimerEventuallyFires /\ StopEndsLoop
=============================================================================
