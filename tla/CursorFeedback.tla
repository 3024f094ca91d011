--------------------------- MODULE CursorFeedback ---------------------------
(***************************************************************************)
(* kernel/presentation/cursor_feedback.cpp under a session: observers that *)
(* a publisher notifies from any thread, that drain and draw on the        *)
(* reactor thread, and that their owner and Session::close() stop from     *)
(* threads of their own; and the observation of the session they share     *)
(* with the user's own start_observation() (session.cpp:963-1313).         *)
(*                                                                         *)
(* Events and gap markers are counted, not told apart, and the gesture     *)
(* classifier may answer any of them with any gesture: a marker's cancel() *)
(* is a hold that ends.                                                    *)
(***************************************************************************)
EXTENDS Naturals, Sequences, SequencesExt

CONSTANTS
    Observers,    \* CursorFeedbackObserver objects; each has one owner thread
    Busy,         \* the observers that input reaches
    Closers,      \* threads that call Session::close()
    MaxEvents     \* input events that are published

Free == "free"

ASSUME FeedbackAssumption ==
    /\ Observers \cap Closers = {}
    /\ Busy \subseteq Observers
    /\ Free \notin Observers \cup Closers
    /\ MaxEvents \in Nat

VARIABLES
    obs,         \* the members of every observer, see Observer below
    note,        \* how far the publishing thread is with notify() of each
    published,   \* events published so far
    tasks,       \* the reactor's task queue
    reactor,     \* what the reactor thread is doing: [at, obs]
    stop,        \* what every stopping thread is doing: [at, obs, todo]
    close,       \* how far every thread in Session::close() is
    session,     \* the flags of Session::Impl, see Session below
    watch        \* manual_observation_, feedback_observation_count_, pump_

vars == <<obs, note, published, tasks, reactor, stop, close, session, watch>>

Threads == Observers \cup Closers
Shapes  == {"ripple", "progress"}
Gestures(o) == IF o \in Busy THEN {"none", "click", "hold", "holdEnd"} ELSE {"none"}

Observer == [phase      : {"absent", "subscribe", "arm", "activate", "release", "running", "gone"},
             active     : BOOLEAN,             \* active_
             scheduled  : BOOLEAN,             \* drain_scheduled_
             owns       : BOOLEAN,             \* owns_observation_
             subscribed : BOOLEAN,             \* subscription_
             queued     : 0 .. MaxEvents,      \* items in its queue
             owned      : SUBSET Shapes,       \* presenter_.owned_shapes_
             shown      : SUBSET Shapes,       \* of those, on the overlay
             timer      : BOOLEAN,             \* a timer is pending
             holder     : Threads \cup {Free}, \* lifecycle_mutex_
             cleaned    : {"no", "ok", "error"}, \* the completion of stop()
             clean      : BOOLEAN]             \* history: a stop() succeeded

NewObserver ==
    [phase |-> "absent", active |-> FALSE, scheduled |-> FALSE, owns |-> FALSE,
     subscribed |-> FALSE, queued |-> 0, owned |-> {}, shown |-> {}, timer |-> FALSE,
     holder |-> Free, cleaned |-> "no", clean |-> FALSE]

Session == [open     : BOOLEAN,                \* open_
            alive    : BOOLEAN,                \* reactor_running_
            attached : BOOLEAN,                \* the overlay facade has a core
            closing  : BOOLEAN,                \* feedback_closing_
            mutex    : Observers \cup {Free},  \* feedback_mutex_
            feedback : SUBSET Observers]       \* feedback_

Watch == [manual : BOOLEAN, count : Nat, pump : BOOLEAN]

Tasks == {"drain", "cleanup"} \X Observers \cup {<<"unused">>, <<"close">>}

Idle   == [at |-> "idle"]
NoStop == [at |-> "none", todo |-> {}]

DrainSteps == {"inner", "consume", "release", "recheck", "claim", "last",
               "more", "advance"}
Looks      == {"look", "lookAnyway"}
StopSteps  == {"clear", "check", "post", "wait", "failed", "look", "abandon"}

TypeOK ==
    /\ obs \in [Observers -> Observer]
    /\ note \in [Observers -> {"none", "load", "cas", "post"}]
    /\ published \in 0 .. MaxEvents
    /\ tasks \in Seq(Tasks)
    /\ reactor \in {Idle} \cup [at : DrainSteps \cup Looks, obs : Observers]
    /\ \A t \in Threads :
          stop[t] \in [at : {"none"}, todo : SUBSET Observers]
                 \cup [at : StopSteps, obs : Observers, todo : SUBSET Observers]
    /\ close \in [Closers -> {"no", "feedback", "facade", "overlay", "stop", "closed"}]
    /\ session \in Session
    /\ watch \in Watch

Init ==
    /\ obs = [o \in Observers |-> NewObserver]
    /\ note = [o \in Observers |-> "none"]
    /\ published = 0
    /\ tasks = <<>>
    /\ reactor = Idle
    /\ stop = [t \in Threads |-> NoStop]
    /\ close = [c \in Closers |-> "no"]
    /\ session = [open |-> TRUE, alive |-> TRUE, attached |-> TRUE, closing |-> FALSE,
                  mutex |-> Free, feedback |-> {}]
    /\ watch = [manual |-> FALSE, count |-> 0, pump |-> FALSE]
-----------------------------------------------------------------------------
(* The observation the feedbacks share with the user, under                *)
(* observation_mutex_.                                                     *)

\* start_manual_observation() and stop_manual_observation(): observation starts
\* with the first who wants it and stops with the last.
StartManual ==
    /\ session.open
    /\ ~watch.manual
    /\ watch' = [watch EXCEPT !.manual = TRUE, !.pump = @ \/ watch.count = 0]
    /\ UNCHANGED <<obs, note, published, tasks, reactor, stop, session, close>>

StopManual ==
    /\ watch.manual
    /\ watch' = [watch EXCEPT !.manual = FALSE, !.pump = @ /\ watch.count # 0]
    /\ UNCHANGED <<obs, note, published, tasks, reactor, stop, session, close>>

\* acquire_feedback_observation().
Acquired ==
    [watch EXCEPT !.count = @ + 1,
                  !.pump = @ \/ (~watch.manual /\ watch.count = 0)]

\* release_feedback_observation(): the last one out does not stop observation; it
\* leaves observation_mutex_ and then posts a look at whether somebody wants it again.
LastOut  == watch.count = 1 /\ ~watch.manual
OneOut   == [watch EXCEPT !.count = IF @ = 0 THEN 0 ELSE @ - 1]
PostLook == tasks' = IF session.open THEN Append(tasks, <<"unused">>) ELSE tasks

\* Mutant: whoever posted it was the last one, so there is no need to look.
StopUnusedBlindly ==
    /\ reactor = Idle
    /\ session.alive
    /\ tasks # <<>>
    /\ Head(tasks) = <<"unused">>
    /\ tasks' = Tail(tasks)
    /\ watch' = [watch EXCEPT !.pump = FALSE]
    /\ UNCHANGED <<obs, note, published, reactor, stop, session, close>>

\* stop_feedback_observation_if_unused(), on the reactor.
StopUnused ==
    /\ reactor = Idle
    /\ session.alive
    /\ tasks # <<>>
    /\ Head(tasks) = <<"unused">>
    /\ tasks' = Tail(tasks)
    /\ watch' = [watch EXCEPT !.pump = @ /\ (watch.count # 0 \/ watch.manual)]
    /\ UNCHANGED <<obs, note, published, reactor, stop, session, close>>

-----------------------------------------------------------------------------
(* start_feedback() and install(), under feedback_mutex_ and the observer's *)
(* startup_mutex_.                                                          *)

\* startup_mutex_ is free.
Installed(o) == obs[o].phase \notin {"subscribe", "arm", "activate"}

StartAcquire(o) ==
    /\ obs[o].phase = "absent"
    /\ session.mutex = Free
    /\ ~session.closing
    /\ session.open
    /\ session' = [session EXCEPT !.mutex = o]
    /\ watch' = Acquired
    /\ obs' = [obs EXCEPT ![o].phase = "subscribe"]
    /\ UNCHANGED <<note, published, tasks, reactor, stop, close>>

StartSubscribe(o) ==
    /\ obs[o].phase = "subscribe"
    /\ obs' = [obs EXCEPT ![o].phase = "arm", ![o].subscribed = TRUE]
    /\ UNCHANGED <<note, published, tasks, reactor, stop, session, watch, close>>

\* The first timer and the first drain, which waits for startup_mutex_.
StartArm(o) ==
    /\ obs[o].phase = "arm"
    /\ obs' = [obs EXCEPT ![o].phase = "activate", ![o].timer = TRUE,
                          ![o].scheduled = TRUE]
    /\ tasks' = Append(tasks, <<"drain", o>>)
    /\ UNCHANGED <<note, published, reactor, stop, session, watch, close>>

\* subscribe(), schedule() or post() throws: rollback_start(), and the observation
\* is released.
StartFails(o) ==
    /\ ~Installed(o)
    /\ obs' = [obs EXCEPT ![o].phase = IF LastOut THEN "release" ELSE "gone",
                          ![o].subscribed = FALSE, ![o].queued = 0, ![o].timer = FALSE]
    /\ session' = IF LastOut THEN session ELSE [session EXCEPT !.mutex = Free]
    /\ watch' = OneOut
    /\ UNCHANGED <<note, published, tasks, reactor, stop, close>>

StartLook(o) ==
    /\ obs[o].phase = "release"
    /\ obs' = [obs EXCEPT ![o].phase = "gone"]
    /\ session' = [session EXCEPT !.mutex = Free]
    /\ PostLook
    /\ UNCHANGED <<note, published, reactor, stop, watch, close>>

StartActivate(o) ==
    /\ obs[o].phase = "activate"
    /\ obs' = [obs EXCEPT ![o].phase = "running", ![o].active = TRUE, ![o].owns = TRUE]
    /\ session' = [session EXCEPT !.mutex = Free, !.feedback = @ \cup {o}]
    /\ UNCHANGED <<note, published, tasks, reactor, stop, watch, close>>

-----------------------------------------------------------------------------
(* A thread that publishes an input event, and notify(). *)

Reached(o) == o \in Busy /\ obs[o].subscribed

Publish ==
    /\ published < MaxEvents
    /\ \A o \in Observers : note[o] = "none"
    /\ published' = published + 1
    /\ obs' = [o \in Observers |->
                  IF Reached(o) THEN [obs[o] EXCEPT !.queued = @ + 1] ELSE obs[o]]
    /\ note' = [o \in Observers |-> IF Reached(o) THEN "load" ELSE "none"]
    /\ UNCHANGED <<tasks, reactor, stop, session, watch, close>>

NotifyLoad(o) ==
    /\ note[o] = "load"
    /\ note' = [note EXCEPT ![o] = IF obs[o].active THEN "cas" ELSE "none"]
    /\ UNCHANGED <<obs, published, tasks, reactor, stop, session, watch, close>>

\* schedule_drain(): one drain is posted at a time.
NotifyCas(o) ==
    /\ note[o] = "cas"
    /\ note' = [note EXCEPT ![o] = IF obs[o].scheduled THEN "none" ELSE "post"]
    /\ obs' = [obs EXCEPT ![o].scheduled = TRUE]
    /\ UNCHANGED <<published, tasks, reactor, stop, session, watch, close>>

NotifyPost(o) ==
    /\ note[o] = "post"
    /\ note' = [note EXCEPT ![o] = "none"]
    /\ IF session.open
       THEN tasks' = Append(tasks, <<"drain", o>>) /\ UNCHANGED obs
       ELSE obs' = [obs EXCEPT ![o].scheduled = FALSE] /\ UNCHANGED tasks
    /\ UNCHANGED <<published, reactor, stop, session, watch, close>>

-----------------------------------------------------------------------------
(* CursorFeedbackPresenter, under presenter_mutex_. *)

Gone(g)  == IF g \in {"click", "holdEnd"} THEN {"progress"} ELSE {}
Added(g) == IF g = "click" THEN {"ripple"} ELSE IF g = "hold" THEN {"progress"} ELSE {}

\* consume(): once the overlay is detached every add and remove fails.
Present(ob, g) ==
    IF ~session.attached THEN ob
    ELSE [ob EXCEPT !.owned = (@ \ Gone(g)) \cup Added(g),
                    !.shown = (@ \ Gone(g)) \cup Added(g)]

\* teardown(): a shape the overlay has let go of already is not an error.
TornDown(ob) ==
    [ob EXCEPT !.owned = {},
               !.shown = IF session.attached THEN @ \ ob.owned ELSE @]

\* A ripple's Ttl runs out in the scene; the presenter still lists it.
Expire(o) ==
    /\ "ripple" \in obs[o].shown
    /\ obs' = [obs EXCEPT ![o].shown = @ \ {"ripple"}]
    /\ UNCHANGED <<note, published, tasks, reactor, stop, session, watch, close>>

-----------------------------------------------------------------------------
(* The reactor thread: drain(), one read or write of shared state a step.  *)

At(step, o) == reactor.at = step /\ reactor.obs = o
Goto(step, o) == reactor' = [at |-> step, obs |-> o]

DrainBegin(o) ==
    /\ reactor = Idle
    /\ session.alive
    /\ tasks # <<>>
    /\ Head(tasks) = <<"drain", o>>
    /\ Installed(o)
    /\ tasks' = Tail(tasks)
    /\ IF obs[o].active
       THEN Goto("inner", o) /\ UNCHANGED obs
       ELSE obs' = [obs EXCEPT ![o].scheduled = FALSE] /\ UNCHANGED reactor
    /\ UNCHANGED <<note, published, stop, session, watch, close>>

\* The nested loops test active_ before every item.
DrainInner(o) ==
    /\ At("inner", o)
    /\ IF obs[o].active /\ obs[o].queued > 0
       THEN Goto("consume", o) /\ obs' = [obs EXCEPT ![o].queued = @ - 1]
       ELSE Goto("release", o) /\ UNCHANGED obs
    /\ UNCHANGED <<note, published, tasks, stop, session, watch, close>>

DrainConsume(o) ==
    /\ At("consume", o)
    /\ \E g \in Gestures(o) : obs' = [obs EXCEPT ![o] = Present(@, g)]
    /\ Goto("inner", o)
    /\ UNCHANGED <<note, published, tasks, stop, session, watch, close>>

\* Mutant: the drain is over once the queue was empty.
DrainReleaseAndLeave(o) ==
    /\ At("release", o)
    /\ obs' = [obs EXCEPT ![o].scheduled = FALSE]
    /\ reactor' = Idle
    /\ UNCHANGED <<note, published, tasks, stop, session, watch, close>>

DrainRelease(o) ==
    /\ At("release", o)
    /\ obs' = [obs EXCEPT ![o].scheduled = FALSE]
    /\ Goto("recheck", o)
    /\ UNCHANGED <<note, published, tasks, stop, session, watch, close>>

\* An item that was queued while drain_scheduled_ was still up.
DrainRecheck(o) ==
    /\ At("recheck", o)
    /\ IF obs[o].active /\ obs[o].queued > 0
       THEN Goto("claim", o) /\ obs' = [obs EXCEPT ![o].queued = @ - 1]
       ELSE reactor' = Idle /\ UNCHANGED obs
    /\ UNCHANGED <<note, published, tasks, stop, session, watch, close>>

\* The item is consumed in any case; the rest is left to whoever owns the flag.
DrainClaim(o) ==
    /\ At("claim", o)
    /\ obs' = [obs EXCEPT ![o].scheduled = TRUE]
    /\ Goto(IF obs[o].scheduled THEN "last" ELSE "more", o)
    /\ UNCHANGED <<note, published, tasks, stop, session, watch, close>>

DrainRaced(o) ==
    /\ At("last", o) \/ At("more", o)
    /\ \E g \in Gestures(o) : obs' = [obs EXCEPT ![o] = Present(@, g)]
    /\ IF reactor.at = "last" THEN reactor' = Idle ELSE Goto("inner", o)
    /\ UNCHANGED <<note, published, tasks, stop, session, watch, close>>

\* timer_fired(); with no input behind it the timer of an observer draws nothing.
TimerFires(o) ==
    /\ o \in Busy
    /\ reactor = Idle
    /\ session.alive
    /\ obs[o].timer
    /\ Installed(o)
    /\ obs' = [obs EXCEPT ![o].timer = FALSE]
    /\ IF obs[o].active THEN Goto("advance", o) ELSE UNCHANGED reactor
    /\ UNCHANGED <<note, published, tasks, stop, session, watch, close>>

TimerAdvance(o) ==
    /\ At("advance", o)
    /\ \E g \in Gestures(o) :
          obs' = [obs EXCEPT ![o] = [Present(@, g) EXCEPT !.timer = obs[o].active]]
    /\ reactor' = Idle
    /\ UNCHANGED <<note, published, tasks, stop, session, watch, close>>

\* The task that stop() posted: cleanup_on_reactor() and release_observation().
Cleanup(o) ==
    LET torn == session.attached \/ obs[o].owned = {}
        last == obs[o].owns /\ LastOut
    IN
    /\ reactor = Idle
    /\ session.alive
    /\ tasks # <<>>
    /\ Head(tasks) = <<"cleanup", o>>
    /\ tasks' = Tail(tasks)
    /\ watch' = IF obs[o].owns THEN OneOut ELSE watch
    /\ obs' = [obs EXCEPT ![o] =
                  [TornDown(@) EXCEPT
                      !.scheduled = FALSE, !.owns = FALSE,
                      !.cleaned = IF last THEN obs[o].cleaned
                                  ELSE IF torn THEN "ok" ELSE "error"]]
    /\ IF last THEN Goto(IF torn THEN "look" ELSE "lookAnyway", o) ELSE UNCHANGED reactor
    /\ UNCHANGED <<note, published, stop, session, close>>

CleanupLook(o) ==
    /\ At("look", o) \/ At("lookAnyway", o)
    /\ PostLook
    /\ obs' = [obs EXCEPT ![o].cleaned =
                  IF reactor.at = "look" /\ session.open THEN "ok" ELSE "error"]
    /\ reactor' = Idle
    /\ UNCHANGED <<note, published, stop, session, watch, close>>

-----------------------------------------------------------------------------
(* stop(), in the thread of the owner who drops the handle or of a closer. *)

Stopping(t, step) == stop[t].at = step
Step(t, step) == stop' = [stop EXCEPT ![t].at = step]

DropHandle(o) ==
    /\ obs[o].phase = "running"
    /\ stop[o] = NoStop
    /\ stop' = [stop EXCEPT ![o].todo = {o}]
    /\ obs' = [obs EXCEPT ![o].phase = "gone"]
    /\ UNCHANGED <<note, published, tasks, reactor, session, watch, close>>

\* lifecycle_mutex_ is taken; only the first stop() goes on.
StopLock(t, o) ==
    /\ Stopping(t, "none")
    /\ o \in stop[t].todo
    /\ obs[o].holder = Free
    /\ IF obs[o].active
       THEN /\ obs' = [obs EXCEPT ![o].active = FALSE, ![o].holder = t]
            /\ stop' = [stop EXCEPT ![t] = [at |-> "clear", obs |-> o, todo |-> @.todo]]
       ELSE /\ stop' = [stop EXCEPT ![t].todo = @ \ {o}]
            /\ UNCHANGED obs
    /\ UNCHANGED <<note, published, tasks, reactor, session, watch, close>>

\* clear_subscription().
StopClear(t) ==
    /\ Stopping(t, "clear")
    /\ obs' = [obs EXCEPT ![stop[t].obs].subscribed = FALSE, ![stop[t].obs].queued = 0]
    /\ Step(t, "check")
    /\ UNCHANGED <<note, published, tasks, reactor, session, watch, close>>

\* Session::Impl::post() looks at open_ and then hands the task to the reactor,
\* which may have stopped in between.
StopCheck(t) ==
    /\ Stopping(t, "check")
    /\ Step(t, IF session.open THEN "post" ELSE "failed")
    /\ UNCHANGED <<obs, note, published, tasks, reactor, session, watch, close>>

\* Mutant: the presenter is torn down in the thread that stops it.
StopPostInline(t) ==
    /\ Stopping(t, "post")
    /\ obs' = [obs EXCEPT ![stop[t].obs] =
                  [TornDown(@) EXCEPT !.scheduled = FALSE, !.cleaned = "ok"]]
    /\ Step(t, "wait")
    /\ UNCHANGED <<note, published, tasks, reactor, session, watch, close>>

StopPost(t) ==
    /\ Stopping(t, "post")
    /\ tasks' = Append(tasks, <<"cleanup", stop[t].obs>>)
    /\ Step(t, "wait")
    /\ UNCHANGED <<obs, note, published, reactor, session, watch, close>>

\* The mutex is released and stop() returns.
Finished(t) ==
    stop' = [stop EXCEPT ![t] = [at |-> "none", todo |-> @.todo \ {stop[t].obs}]]

StopDone(t) ==
    /\ Stopping(t, "wait")
    /\ obs[stop[t].obs].cleaned = "ok"
    /\ obs' = [obs EXCEPT ![stop[t].obs].holder = Free, ![stop[t].obs].clean = TRUE]
    /\ Finished(t)
    /\ UNCHANGED <<note, published, tasks, reactor, session, watch, close>>

\* The poll of stop(): an error came back, or the reactor is gone.
StopGivesUp(t) ==
    /\ Stopping(t, "wait")
    /\ \/ obs[stop[t].obs].cleaned = "error"
       \/ obs[stop[t].obs].cleaned = "no" /\ ~session.alive
    /\ Step(t, "failed")
    /\ UNCHANGED <<obs, note, published, tasks, reactor, session, watch, close>>

\* The observation is released from here, and the presenter abandoned: it forgets
\* its shapes without removing them.
StopRelease(t) ==
    LET o == stop[t].obs IN
    /\ Stopping(t, "failed")
    /\ watch' = IF obs[o].owns THEN OneOut ELSE watch
    /\ obs' = [obs EXCEPT ![o].owns = FALSE]
    /\ Step(t, IF obs[o].owns /\ LastOut THEN "look" ELSE "abandon")
    /\ UNCHANGED <<note, published, tasks, reactor, session, close>>

StopLook(t) ==
    /\ Stopping(t, "look")
    /\ PostLook
    /\ Step(t, "abandon")
    /\ UNCHANGED <<obs, note, published, reactor, session, watch, close>>

StopAbandon(t) ==
    LET o == stop[t].obs IN
    /\ Stopping(t, "abandon")
    /\ obs' = [obs EXCEPT ![o].owned = {}, ![o].holder = Free]
    /\ Finished(t)
    /\ UNCHANGED <<note, published, tasks, reactor, session, watch, close>>

-----------------------------------------------------------------------------
(* Session::close(), of which several threads may be in at once. *)

\* stop_feedback(): no more observers, and the ones there are taken over.
CloseFeedback(c) ==
    /\ close[c] = "no"
    /\ session.mutex = Free
    /\ close' = [close EXCEPT ![c] = "feedback"]
    /\ stop' = [stop EXCEPT ![c].todo = session.feedback]
    /\ session' = [session EXCEPT !.closing = TRUE, !.feedback = {}]
    /\ UNCHANGED <<obs, note, published, tasks, reactor, watch>>

\* Overlay::detach().
CloseFacade(c) ==
    /\ close[c] = "feedback"
    /\ stop[c] = NoStop
    /\ close' = [close EXCEPT ![c] = "facade"]
    /\ session' = [session EXCEPT !.attached = FALSE]
    /\ UNCHANGED <<obs, note, published, tasks, reactor, stop, watch>>

\* Impl::close(): the first one posts the close of the overlay and waits for it.
CloseSession(c) ==
    /\ close[c] = "facade"
    /\ IF session.open
       THEN /\ session' = [session EXCEPT !.open = FALSE]
            /\ tasks' = Append(tasks, <<"close">>)
            /\ close' = [close EXCEPT ![c] = "overlay"]
       ELSE /\ close' = [close EXCEPT ![c] = "closed"]
            /\ UNCHANGED <<tasks, session>>
    /\ UNCHANGED <<obs, note, published, reactor, stop, watch>>

CloseOverlay(c) ==
    /\ close[c] = "overlay"
    /\ reactor = Idle
    /\ tasks # <<>>
    /\ Head(tasks) = <<"close">>
    /\ tasks' = Tail(tasks)
    /\ obs' = [o \in Observers |-> [obs[o] EXCEPT !.shown = {}]]
    /\ close' = [close EXCEPT ![c] = "stop"]
    /\ UNCHANGED <<note, published, reactor, stop, session, watch>>

\* Reactor::stop(): what is still queued is not run.  The core goes, and its pump.
CloseReactor(c) ==
    /\ close[c] = "stop"
    /\ reactor = Idle
    /\ session' = [session EXCEPT !.alive = FALSE]
    /\ watch' = [watch EXCEPT !.pump = FALSE]
    /\ close' = [close EXCEPT ![c] = "closed"]
    /\ UNCHANGED <<obs, note, published, tasks, reactor, stop>>

-----------------------------------------------------------------------------

Next ==
    \/ StartManual \/ StopManual \/ StopUnused
    \/ Publish
    \/ \E o \in Observers :
          \/ StartAcquire(o) \/ StartSubscribe(o) \/ StartArm(o) \/ StartFails(o)
          \/ StartLook(o) \/ StartActivate(o) \/ DropHandle(o)
          \/ NotifyLoad(o) \/ NotifyCas(o) \/ NotifyPost(o)
          \/ Expire(o) \/ TimerFires(o) \/ TimerAdvance(o)
          \/ DrainBegin(o) \/ DrainInner(o) \/ DrainConsume(o)
          \/ DrainRelease(o) \/ DrainRecheck(o) \/ DrainClaim(o) \/ DrainRaced(o)
          \/ Cleanup(o) \/ CleanupLook(o)
    \/ \E t \in Threads :
          \/ \E o \in Observers : StopLock(t, o)
          \/ StopClear(t) \/ StopCheck(t) \/ StopPost(t)
          \/ StopDone(t) \/ StopGivesUp(t) \/ StopRelease(t)
          \/ StopLook(t) \/ StopAbandon(t)
    \/ \E c \in Closers :
          \/ CloseFeedback(c) \/ CloseFacade(c) \/ CloseSession(c) \/ CloseOverlay(c)
          \/ CloseReactor(c)

Spec == Init /\ [][Next]_vars

-----------------------------------------------------------------------------
(* Properties. *)

\* A drain of o is on its way: in the task queue, about to be posted, or running
\* with the flag in its hands or a look at the queue still to come.
DrainComing(o) ==
    \/ <<"drain", o>> \in ToSet(tasks)
    \/ note[o] # "none"
    \/ \E step \in {"inner", "consume", "release", "recheck", "claim", "more"} :
          At(step, o)

\* No event is left in the queue of a running observer with nobody to drain it:
\* the publisher that finds drain_scheduled_ up relies on the drain's second look
\* (cursor_feedback.cpp:874-901), and events queued before active_ rely on the
\* first drain waiting for startup_mutex_ (cursor_feedback.cpp:715-728, 851-857).
NoEventStranded ==
    session.open =>
        \A o \in Observers : obs[o].active /\ obs[o].queued > 0 => DrainComing(o)

\* Once a stop() has succeeded, none of its shapes is on the overlay and none comes
\* back, whatever drain, timer or notification was under way when it was called
\* (cursor_feedback.cpp:542-664, 848-951).
NothingShownAfterStop == \A o \in Observers : obs[o].clean => obs[o].shown = {}

\* Some thread has taken its share out of the count and is yet to post the look.
Releasing ==
    \/ \E o \in Observers : obs[o].phase = "release"
    \/ \E t \in Threads : Stopping(t, "look")
    \/ reactor.at \in Looks

\* While the session is open it observes exactly when somebody wants it to, or a
\* look at whether anybody does is queued or about to be posted: neither does a stop
\* overtake a start that came between the count and the look, nor is observation left
\* running (session.cpp:963-1140).
ObservedIffWanted ==
    session.open =>
        LET wanted == watch.manual \/ watch.count > 0 IN
        /\ wanted => watch.pump
        /\ watch.pump => wanted \/ Releasing \/ <<"unused">> \in ToSet(tasks)
=============================================================================
