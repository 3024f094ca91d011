---------------------------- MODULE SessionClose ----------------------------
(***************************************************************************)
(* kernel/lifecycle/session.cpp: the overlay facade and the shutdown of a  *)
(* session.                                                                *)
(*                                                                         *)
(* A facade call from a foreign thread is posted to the reactor thread and *)
(* its caller blocks on a promise; detach() promises that nobody stays     *)
(* blocked and that no posted call touches the core once it is torn down.  *)
(* close() may be called by any thread, by several at once, and by the     *)
(* reactor thread from a callback, also from one that runs inside a posted *)
(* facade call.                                                            *)
(*                                                                         *)
(* Failing allocations (the catch blocks at 915-918 and 1355-1360) are     *)
(* left out.  The reactor is reduced to a queue of tasks: once asked to    *)
(* stop, or when a callback throws, its loop ends at some point between    *)
(* two tasks and drops what is left (see Reactor).                         *)
(***************************************************************************)
EXTENDS Integers, Sequences, FiniteSets

CONSTANTS
    Callers,         \* foreign threads that may call the facade and post
    ClosingThreads,  \* foreign threads that may close the session
    R,               \* the reactor thread
    NestedClose,     \* a callback inside a facade call may call close(): never, only
                     \* as the first to close, or at any time
    MayFail          \* the reactor loop may end on its own

ASSUME CloseAssumption ==
    /\ R \notin Callers \cup ClosingThreads
    /\ NestedClose \in {"never", "first", "any"}
    /\ MayFail \in BOOLEAN

Users          == Callers \cup ClosingThreads
SessionThreads == Users \cup {R}
NoOwner        == "free"

VARIABLES
    attached,     \* Overlay::Impl::reactor_ and reactor_thread_ are set
    alive,        \* execution_gate_->alive
    shared,       \* the reactor thread holds the gate's shared side
    registry,     \* callers with an entry in the pending registry
    drained,      \* thread -> the entries its cancel_all() has taken and is yet to cancel
    settled,      \* caller -> its settled flag
    settlements,  \* history: caller -> how often its promise was given a value
    open,         \* open_
    closeMutex,   \* owner of close_mutex_
    core,         \* SessionCore: "live", "closed" (its overlay), "destroyed"
    queue,        \* the reactor's tasks
    stopAsked,    \* the reactor was asked to stop
    loop,         \* what the reactor thread does
    running,      \* reactor_running_
    overlayDone,  \* closers whose posted close_overlay() has completed
    call,         \* caller -> state of its facade call
    closing,      \* thread -> where it is in close()
    onReactor     \* detach() found itself on the reactor thread

facadeVars  == <<attached, alive, registry, drained, settled, settlements>>
reactorVars == <<queue, stopAsked, loop, running>>
closeVars   == <<open, closeMutex, overlayDone, closing, onReactor>>
sessionVars == <<facadeVars, shared, reactorVars, closeVars, core, call>>

Exec(u)         == [kind |-> "exec", of |-> u]
OverlayTask(u) == [kind |-> "overlay", of |-> u]
Finish          == [kind |-> "finish", of |-> R]
Callback(u)     == [kind |-> "callback", of |-> u]
SessionTasks == [kind : {"exec", "overlay", "finish", "callback"}, of : SessionThreads]

\* "op" runs a posted facade operation, "refused" answers one that came too late,
\* "callback" is a posted user callback and "inline" one that calls the facade itself.
LoopStates  == {"idle", "op", "refused", "callback", "inline", "ended", "exited"}
CloseStates == {"no", "alive", "gate", "settle", "cancel", "lock", "locked", "overlay",
                "waiting", "stop", "join", "reset", "done"}

SessionTypeOK ==
    /\ {attached, alive, shared, open, stopAsked, running, onReactor} \subseteq BOOLEAN
    /\ registry \subseteq Users /\ overlayDone \subseteq Users
    /\ drained \in [SessionThreads -> SUBSET Users]
    /\ settled \in [Users -> BOOLEAN]
    /\ settlements \in [Users -> Nat]
    /\ closeMutex \in SessionThreads \cup {NoOwner}
    /\ core \in {"live", "closed", "destroyed"}
    /\ queue \in Seq(SessionTasks)
    /\ loop \in [at : LoopStates, of : SessionThreads]
    /\ call \in [Users -> {"none", "blocked", "posted", "returned"}]
    /\ closing \in [SessionThreads -> CloseStates]

LoopAt(state, t) == [at |-> state, of |-> t]

\* An open session with a composed core and the facade bound to it.
SessionInit ==
    /\ attached = TRUE /\ alive = TRUE /\ shared = FALSE
    /\ registry = {} /\ overlayDone = {}
    /\ drained = [t \in SessionThreads |-> {}]
    /\ settled = [u \in Users |-> FALSE]
    /\ settlements = [u \in Users |-> 0]
    /\ open = TRUE /\ closeMutex = NoOwner /\ core = "live"
    /\ queue = <<>> /\ stopAsked = FALSE /\ running = TRUE
    /\ loop = LoopAt("idle", R)
    /\ call = [u \in Users |-> "none"]
    /\ closing = [t \in SessionThreads |-> "no"]
    /\ onReactor = FALSE

\* The compare-exchange that decides who gives the promise its value.
Claim(u) == settled' = [settled EXCEPT ![u] = TRUE]

SetValue(u) == settlements' = [settlements EXCEPT ![u] = @ + 1]

\* The reactor thread has claimed u's promise and is yet to give it its value.
Answering(u) == loop \in {LoopAt("op", u), LoopAt("refused", u)}

-----------------------------------------------------------------------------
(* Foreign threads. *)

\* Mutant: the reactor pointer was read before the lock was taken.
InvokeStale(u) ==
    /\ call[u] = "none" /\ closing[u] = "no"
    /\ registry' = registry \cup {u}
    /\ queue' = Append(queue, Exec(u))
    /\ call' = [call EXCEPT ![u] = "blocked"]
    /\ UNCHANGED <<attached, alive, drained, settled, settlements, shared, stopAsked, loop, running,
                   closeVars, core>>

\* Overlay::Impl::invoke(): registered and posted under mutex_, then blocked.
Invoke(u) ==
    /\ call[u] = "none" /\ closing[u] = "no"
    /\ IF attached
       THEN /\ registry' = registry \cup {u}
            /\ queue' = Append(queue, Exec(u))
            /\ call' = [call EXCEPT ![u] = "blocked"]
       ELSE /\ call' = [call EXCEPT ![u] = "returned"]
            /\ UNCHANGED <<registry, queue>>
    /\ UNCHANGED <<attached, alive, drained, settled, settlements, shared, stopAsked, loop, running,
                   closeVars, core>>

Return(u) ==
    /\ call[u] = "blocked" /\ settlements[u] > 0
    /\ call' = [call EXCEPT ![u] = "returned"]
    /\ UNCHANGED <<facadeVars, shared, reactorVars, closeVars, core>>

\* Session::post() of a callback; once the session is closed it is refused.
PostCallback(u) ==
    /\ call[u] = "none" /\ closing[u] = "no"
    /\ open /\ running
    /\ queue' = Append(queue, Callback(u))
    /\ call' = [call EXCEPT ![u] = "posted"]
    /\ UNCHANGED <<facadeVars, shared, stopAsked, loop, running, closeVars, core>>

-----------------------------------------------------------------------------
(* Overlay::detach(), by thread t. *)

InCall(t) == IF t = R THEN loop.at \in {"callback", "inline", "op"} ELSE call[t] # "blocked"

\* Session::close(): the reactor thread may call it from a callback, and again from
\* the same one; stopped cursor feedback is not modelled here.
CloseBegin(t) ==
    /\ t \in ClosingThreads \cup {R}
    /\ closing[t] \in (IF t = R THEN {"no", "done"} ELSE {"no"})
    /\ InCall(t)
    /\ t = R /\ loop.at = "op" =>
          NestedClose = "any" \/ (NestedClose = "first" /\ attached)
    /\ onReactor' = IF t = R THEN attached ELSE onReactor
    /\ attached' = FALSE
    /\ closing' = [closing EXCEPT ![t] = "alive"]
    /\ UNCHANGED <<alive, registry, drained, settled, settlements, shared, reactorVars, open,
                   closeMutex, overlayDone, core, call>>

DetachAlive(t) ==
    /\ closing[t] = "alive"
    /\ alive' = FALSE
    /\ closing' = [closing EXCEPT ![t] = IF t = R /\ onReactor THEN "settle" ELSE "gate"]
    /\ UNCHANGED <<attached, registry, drained, settled, settlements, shared, reactorVars, open,
                   closeMutex, overlayDone, onReactor, core, call>>

\* The exclusive side of the gate is taken and given back.
DetachGate(t) ==
    /\ closing[t] = "gate"
    /\ ~shared
    /\ closing' = [closing EXCEPT ![t] = "settle"]
    /\ UNCHANGED <<facadeVars, shared, reactorVars, open, closeMutex, overlayDone,
                   onReactor, core, call>>

\* cancel_all(): the whole registry is taken under its mutex.
DetachSwap(t) ==
    /\ closing[t] = "settle"
    /\ drained' = [drained EXCEPT ![t] = registry]
    /\ registry' = {}
    /\ closing' = [closing EXCEPT ![t] = IF registry = {} THEN "lock" ELSE "cancel"]
    /\ UNCHANGED <<attached, alive, settled, settlements, shared, reactorVars, open, closeMutex,
                   overlayDone, onReactor, core, call>>

\* After the unlock one entry after the other is cancelled: its promise is given a
\* value unless its execution was first.
DetachCancel(t) ==
    /\ closing[t] = "cancel"
    /\ \E u \in drained[t] :
          /\ IF settled[u] THEN UNCHANGED <<settled, settlements>>
                           ELSE Claim(u) /\ SetValue(u)
          /\ drained' = [drained EXCEPT ![t] = @ \ {u}]
          /\ closing' = [closing EXCEPT ![t] = IF drained[t] = {u} THEN "lock" ELSE "cancel"]
    /\ UNCHANGED <<attached, alive, registry, shared, reactorVars, open, closeMutex,
                   overlayDone, onReactor, core, call>>

-----------------------------------------------------------------------------
(* Session::Impl::close(), on the reactor thread. *)

\* Mutant: the reactor thread waits for close_mutex_ like everybody else.
ReactorCloseBlocks ==
    /\ closing[R] = "lock" /\ closeMutex = NoOwner
    /\ closing' = [closing EXCEPT ![R] = "done"]
    /\ open' = FALSE
    /\ queue' = IF open THEN Append(queue, Finish) ELSE queue
    /\ UNCHANGED <<facadeVars, shared, stopAsked, loop, running, closeMutex, overlayDone,
                   onReactor, core, call>>

\* Mutant: the core is torn down at once, not from the tail of the queue.
ReactorCloseAtOnce ==
    /\ closing[R] = "lock"
    /\ closing' = [closing EXCEPT ![R] = "done"]
    /\ open' = FALSE /\ stopAsked' = TRUE /\ core' = "destroyed"
    /\ UNCHANGED <<facadeVars, shared, queue, loop, running, closeMutex, overlayDone,
                   onReactor, call>>

\* A close already under way elsewhere is left to it.  Otherwise the teardown is
\* put at the tail of the queue.
ReactorClose ==
    /\ closing[R] = "lock"
    /\ closing' = [closing EXCEPT ![R] = "done"]
    /\ IF closeMutex = NoOwner
       THEN /\ open' = FALSE
            /\ queue' = IF open THEN Append(queue, Finish) ELSE queue
       ELSE UNCHANGED <<open, queue>>
    /\ UNCHANGED <<facadeVars, shared, stopAsked, loop, running, closeMutex, overlayDone,
                   onReactor, core, call>>

-----------------------------------------------------------------------------
(* Session::Impl::close(), on a foreign thread. *)

CloseGoto(u, state) == closing' = [closing EXCEPT ![u] = state]

CloseLock(u) ==
    /\ closing[u] = "lock" /\ closeMutex = NoOwner
    /\ closeMutex' = u
    /\ CloseGoto(u, "locked")
    /\ UNCHANGED <<facadeVars, shared, reactorVars, open, overlayDone, onReactor, core, call>>

CloseExchange(u) ==
    /\ closing[u] = "locked"
    /\ open' = FALSE
    /\ CloseGoto(u, IF open THEN "overlay" ELSE "join")
    /\ UNCHANGED <<facadeVars, shared, reactorVars, closeMutex, overlayDone, onReactor,
                   core, call>>

\* close_overlay_on_reactor(): posted and waited for while the reactor runs.
CloseOverlayOnReactor(u) ==
    /\ closing[u] = "overlay"
    /\ IF core # "destroyed" /\ running
       THEN /\ queue' = Append(queue, OverlayTask(u))
            /\ CloseGoto(u, "waiting")
            /\ UNCHANGED core
       ELSE /\ core' = IF core = "live" THEN "closed" ELSE core
            /\ CloseGoto(u, "stop")
            /\ UNCHANGED queue
    /\ UNCHANGED <<facadeVars, shared, stopAsked, loop, running, open, closeMutex,
                   overlayDone, onReactor, call>>

\* Mutant: the wait gives up after one poll interval.
OverlayWaitGivesUp(u) ==
    /\ closing[u] = "waiting"
    /\ core' = IF core = "live" THEN "closed" ELSE core
    /\ CloseGoto(u, "stop")
    /\ UNCHANGED <<facadeVars, shared, reactorVars, open, closeMutex, overlayDone,
                   onReactor, call>>

\* The completion, or a reactor that ended without it.
OverlayWait(u) ==
    /\ closing[u] = "waiting"
    /\ \/ u \in overlayDone /\ UNCHANGED core
       \/ /\ u \notin overlayDone /\ ~running
          /\ core' = IF core = "live" THEN "closed" ELSE core
    /\ CloseGoto(u, "stop")
    /\ UNCHANGED <<facadeVars, shared, reactorVars, open, closeMutex, overlayDone,
                   onReactor, call>>

StopReactor(u) ==
    /\ closing[u] = "stop"
    /\ stopAsked' = TRUE
    /\ CloseGoto(u, "join")
    /\ UNCHANGED <<facadeVars, shared, queue, loop, running, open, closeMutex,
                   overlayDone, onReactor, core, call>>

Join(u) ==
    /\ closing[u] = "join" /\ loop.at = "exited"
    /\ CloseGoto(u, "reset")
    /\ UNCHANGED <<facadeVars, shared, reactorVars, open, closeMutex, overlayDone,
                   onReactor, core, call>>

ResetCore(u) ==
    /\ closing[u] = "reset"
    /\ core' = "destroyed"
    /\ closeMutex' = NoOwner
    /\ CloseGoto(u, "done")
    /\ UNCHANGED <<facadeVars, shared, reactorVars, open, overlayDone, onReactor, call>>

-----------------------------------------------------------------------------
(* The reactor thread. *)

\* What the posted lambda does with a call it has claimed: the operation runs, unless
\* detach() has been here.
Execute(u) ==
    /\ loop' = LoopAt(IF alive THEN "op" ELSE "refused", u)
    /\ shared' = TRUE

\* The posted lambda of invoke(), under the gate's shared side.
RunExec(u) ==
    /\ IF settled[u]
       THEN /\ registry' = registry \ {u}
            /\ UNCHANGED <<settled, loop, shared>>
       ELSE Claim(u) /\ Execute(u) /\ UNCHANGED registry
    /\ UNCHANGED <<settlements, stopAsked, core, overlayDone>>

\* finish_close_on_reactor().
RunFinish ==
    /\ core' = "destroyed"
    /\ stopAsked' = TRUE
    /\ UNCHANGED <<registry, settled, settlements, loop, shared, overlayDone>>

RunCloseOverlay(u) ==
    /\ core' = IF core = "live" THEN "closed" ELSE core
    /\ overlayDone' = overlayDone \cup {u}
    /\ UNCHANGED <<registry, settled, settlements, loop, shared, stopAsked>>

RunCallback(u) ==
    /\ loop' = LoopAt("callback", u)
    /\ UNCHANGED <<registry, settled, settlements, shared, stopAsked, core, overlayDone>>

RunTask ==
    /\ loop.at = "idle" /\ queue # <<>>
    /\ queue' = Tail(queue)
    /\ LET task == Head(queue) IN
          \/ task.kind = "exec" /\ RunExec(task.of)
          \/ task.kind = "finish" /\ RunFinish
          \/ task.kind = "overlay" /\ RunCloseOverlay(task.of)
          \/ task.kind = "callback" /\ RunCallback(task.of)
    /\ UNCHANGED <<attached, alive, drained, running, open, closeMutex, closing, onReactor, call>>

\* invoke() from a callback: on the reactor thread the operation runs at once, without
\* the gate; what the callback does after it is part of it here.
InvokeInline ==
    /\ loop.at = "callback" /\ closing[R] \in {"no", "done"}
    /\ attached
    /\ loop' = LoopAt("inline", loop.of)
    /\ UNCHANGED <<facadeVars, shared, queue, stopAsked, running, closeVars, core, call>>

\* The operation or the callback returns; a claimed promise gets its value.
Returns ==
    /\ loop.at \in {"op", "refused", "callback", "inline"}
    /\ closing[R] \in {"no", "done"}
    /\ IF loop.at \in {"op", "refused"}
       THEN SetValue(loop.of) /\ registry' = registry \ {loop.of}
       ELSE UNCHANGED <<settlements, registry>>
    /\ shared' = FALSE
    /\ loop' = LoopAt("idle", R)
    /\ closing' = [closing EXCEPT ![R] = "no"]
    /\ UNCHANGED <<attached, alive, drained, settled, queue, stopAsked, running, open, closeMutex,
                   overlayDone, onReactor, core, call>>

\* run() returns: asked to stop, or a wait or a callback failed.
LoopEnds ==
    /\ loop.at = "idle"
    /\ stopAsked \/ MayFail
    /\ loop' = LoopAt("ended", R)
    /\ UNCHANGED <<facadeVars, shared, queue, stopAsked, running, closeVars, core, call>>

ThreadExits ==
    /\ loop.at = "ended"
    /\ running' = FALSE
    /\ loop' = LoopAt("exited", R)
    /\ UNCHANGED <<facadeVars, shared, queue, stopAsked, closeVars, core, call>>

-----------------------------------------------------------------------------
Close(t) ==
    \/ DetachAlive(t) \/ DetachGate(t) \/ DetachSwap(t) \/ DetachCancel(t)
    \/ t = R /\ ReactorClose
    \/ /\ t # R
       /\ \/ CloseLock(t) \/ CloseExchange(t) \/ CloseOverlayOnReactor(t)
          \/ OverlayWait(t) \/ StopReactor(t) \/ Join(t) \/ ResetCore(t)

ReactorStep == RunTask \/ Returns \/ ThreadExits \/ (stopAsked /\ LoopEnds)

SessionNext ==
    \/ \E u \in Callers : Invoke(u) \/ Return(u) \/ PostCallback(u)
    \/ \E t \in SessionThreads : CloseBegin(t) \/ Close(t)
    \/ ReactorStep \/ InvokeInline
    \/ LoopEnds

SessionSpec == SessionInit /\ [][SessionNext]_sessionVars

\* Threads that can take a step eventually do; nobody has to call anything.
SessionFairSpec ==
    /\ SessionSpec
    /\ \A t \in SessionThreads : WF_sessionVars(Close(t))
    /\ \A u \in Users : WF_sessionVars(Return(u))
    /\ WF_sessionVars(RunTask \/ ThreadExits)
    /\ WF_sessionVars(stopAsked /\ LoopEnds)
    /\ SF_sessionVars(Returns)

-----------------------------------------------------------------------------
(* Properties. *)

\* A facade operation only ever runs on a core whose overlay and runtime are there:
\* detach() has waited for it, or it finds itself refused, or it runs on the thread
\* that alone may close the overlay (session.cpp:129-132, 156-161, 191-209, 524-530).
NoUseOfDeadCore == loop.at \in {"op", "inline"} => core = "live"

\* "Each operation settles exactly once" (session.cpp:79-82): a second value for a
\* promise throws into the reactor.
SettledAtMostOnce == \A u \in Users : settlements[u] <= 1

\* Once a thread is through with detach(), a caller that waits has its value, or the
\* reactor thread is about to give it, or another thread is in cancel_all() with its
\* entry: nobody depends on a task that a stopped reactor may drop (session.cpp:109-120,
\* 534-536).
NobodyStranded ==
    (\E t \in SessionThreads :
        closing[t] \in CloseStates \ {"no", "alive", "gate", "settle", "cancel"}) =>
      \A u \in Users :
          call[u] = "blocked" =>
              \/ settlements[u] = 1
              \/ Answering(u)
              \/ \E t \in SessionThreads : closing[t] = "cancel" /\ u \in drained[t]

\* A promise is never settled twice and never left to a reactor that stops.
PromisesKept == SettledAtMostOnce /\ NobodyStranded

\* The overlay is closed by the reactor thread, or when that thread has ended
\* (session.cpp:1322-1353), and the core is destroyed by a foreign thread only after
\* the reactor thread was joined (session.cpp:922-928).
TeardownOnOwnThread ==
    [][core' # core =>
         \/ loop.at = "exited"
         \/ queue # <<>> /\ queue' = Tail(queue)]_sessionVars

\* Nobody waits for everybody: whatever threads close at once, close() returns on each
\* foreign thread (session.cpp:876-929).
CloseReturns == \A u \in Users : closing[u] # "no" ~> closing[u] = "done"

\* "... instead of leaving callers blocked forever" (session.cpp:79-82): when some
\* thread closes the session, every blocked facade call returns.
CallersReturn ==
    \A u \in Users :
        (call[u] = "blocked" /\ \E t \in SessionThreads : closing[t] # "no") ~> call[u] = "returned"

\* No thread is left inside the session: neither a closer nor a caller.
EveryoneReturns == CloseReturns /\ CallersReturn
=============================================================================
