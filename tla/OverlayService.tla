--------------------------- MODULE OverlayService ---------------------------
(***************************************************************************)
(* The overlay as a session runs it: the verbs of                          *)
(* kernel/presentation/overlay_service.cpp, its delegate's event loop, and *)
(* a server that restarts its compositor, changes its screens, breaks      *)
(* grabs and refuses requests.  Verbs, fd callbacks, timers and posted     *)
(* events are tasks of one reactor thread: one action each.                *)
(***************************************************************************)
EXTENDS OverlayEdit

CONSTANTS
    Batches,      \* the sequences of shapes callers add
    Redrawn,      \* the shapes they update to
    MaxMoves,     \* bound: calls of the user, events of the server and requests it
                  \* refuses, together
    MaxTime       \* bound on the clock

Shapes == [kind : {"plain", "brief", "foreign", "animated", "invalid", "unknown"},
           pos : {0, 1}]

ASSUME OverlayAssumption ==
    /\ Batches \subseteq Seq(Shapes) /\ Redrawn \subseteq Shapes
    /\ {MaxMoves, MaxTime} \subseteq Nat
    /\ Ttl \in Nat /\ MaxTime + Ttl < Never
    /\ None \notin Nat

VARIABLES
    now, topo,
    scene, svc, sess, del, posted,
    x,            \* external: [comp, grab, region, queue]
    drags,        \* history: drags begun and not yet reported to their owner
    moves,
    flushed       \* history: when the flush() began that was the last step and
                  \* succeeded, Never otherwise

vars == <<now, topo, scene, svc, sess, del, posted, x, drags, moves, flushed>>

NoService ==
    [desync |-> FALSE, captured |-> FALSE, opened |-> FALSE, closed |-> FALSE,
     sessions |-> 0, lapsed |-> FALSE, mixed |-> FALSE]

Init ==
    /\ now = 0 /\ topo = 1 /\ scene = EmptyScene
    /\ svc = NoService /\ sess = NoSession /\ del = ClosedDelegate /\ posted = <<>>
    /\ x = [comp |-> TRUE, grab |-> FALSE, region |-> "none", queue |-> <<>>]
    /\ drags = 0 /\ moves = 0 /\ flushed = Never

World(bad) ==
    [now |-> now, topo |-> topo, scene |-> scene, svc |-> svc, sess |-> sess, del |-> del,
     posted |-> posted, x |-> x, drags |-> drags, flushed |-> Never,
     told |-> <<>>, note |-> "", halt |-> FALSE, bad |-> bad, calls |-> 0, ok |-> TRUE]

\* One of the requests the handler F makes may be refused, if a move is left for that.
Refusable(F(_), n) ==
    IF n < MaxMoves THEN {{i} : i \in 1 .. F(World({})).calls} ELSE {}

\* F runs to its end, as the n-th move.
Run(F(_), n) ==
    \E bad \in {{}} \cup Refusable(F, n) :
        /\ n + Cardinality(bad) <= MaxMoves
        /\ moves' = n + Cardinality(bad)
        /\ \E w \in {F(World(bad))} :
              /\ now' = w.now /\ topo' = w.topo
              /\ scene' = w.scene /\ svc' = w.svc /\ sess' = w.sess
              /\ del' = w.del /\ posted' = w.posted /\ x' = w.x /\ drags' = w.drags
              /\ flushed' = w.flushed

-----------------------------------------------------------------------------
(* The delegate's event loop. *)

\* dispatch_edit_event(): w.told is what the delegate has to say to its handler.
Dispatch(w, kind) ==
    IF w.del.handler = 0 THEN w
    ELSE [w EXCEPT !.told = Append(@, [kind |-> kind, id |-> w.del.handler])]

\* It is said at once or, under the service's lock, through the reactor.
Hear(w, e) == HandleEditEvent(w, e.kind, e.id)

Direct(w)   == FoldLeft(Hear, [w EXCEPT !.told = <<>>], w.told)
Deferred(w) == [w EXCEPT !.posted = @ \o w.told, !.told = <<>>]

\* notify_edit_surface_invalidated()
Invalidated(w, yes) == IF yes THEN Dispatch(w, "ungrab") ELSE w

\* handle_compositor_owner(): one that leaves takes the grab and the window's use along;
\* one that comes back gets a new surface.
CompositorLost(w) ==
    Invalidated(Desync([Unmap(ReleaseBestEffort(w)) EXCEPT !.del.lost = TRUE]), w.del.grabbed)

CompositorBack(w) ==
    LET revive(m) == ScheduleWakeup([m EXCEPT !.del.state = "synced", !.del.lost = FALSE,
                                              !.del.dirty = TRUE, !.del.presented = FALSE,
                                              !.del.presentedRevision = 0,
                                              !.del.revived = TRUE])
    IN Invalidated(Either(Then(CreateSurface(DestroySurface(w)), MapSurface),
                          revive, LAMBDA f : Desync(DestroySurface(f))),
                   w.del.grabbed)

\* handle_topology_change(): the records were resolved for the old screens, so the
\* new surface waits for a resync.
TopologyChange(w) ==
    LET surface(r) == CreateSurface(DestroySurface([r EXCEPT !.topo = @ + 1,
                                                             !.del.region = "none"]))
        fresh(m) == [m EXCEPT !.del.presented = FALSE, !.del.presentedRevision = 0]
        mapped(m) == IF m.del.epoch # None THEN Desync(fresh(m))
                     ELSE ScheduleWakeup([fresh(m) EXCEPT !.del.dirty = TRUE])
        show(o) == IF o.x.comp THEN Either(MapSurface(o), mapped, Desync)
                   ELSE CompositorLost(o)
        renew(r) == Either(Then(surface(r), Request), show, Desync)
    IN Either(Request(w), LAMBDA r : Invalidated(renew(r), TRUE), Desync)

\* restack_best_effort()
Restack(w) == IF w.del.mapped THEN OrElse(Request(w), Desync) ELSE w

\* One event; what is meant for a window that is gone is dropped.
OnEvent(w, e) ==
    CASE e.kind \in {"press", "motion", "release"} ->
            IF e.window = w.del.window THEN Dispatch(w, e.kind) ELSE w
      [] e.kind = "ungrab" ->
            IF e.window = w.del.window /\ w.del.grabbed
            THEN Dispatch([w EXCEPT !.del.grabbed = FALSE, !.svc.lapsed = @ \/ w.x.grab],
                          "ungrab") ELSE w
      [] e.kind = "owner"  -> IF e.window = 0 THEN CompositorLost(w)
                              ELSE IF w.del.lost THEN CompositorBack(w) ELSE w
      [] e.kind = "screen" -> TopologyChange(w)
      [] e.kind = "raised" -> Restack(w)
      [] e.kind = "error"  -> [Desync(w) EXCEPT !.halt = TRUE]

\* drain_events(): up to n events; a protocol error ends it.
DrainOne(w, Deliver(_)) ==
    IF w.halt \/ w.x.queue = <<>> THEN w
    ELSE Deliver(OnEvent([w EXCEPT !.x.queue = Tail(@)], Head(w.x.queue)))

DrainDirect(w, i)   == DrainOne(w, Direct)
DrainDeferred(w, i) == DrainOne(w, Deferred)

DrainEvents(w, n, one(_, _)) ==
    [FoldLeft(one, w, [i \in 1 .. n |-> i]) EXCEPT !.halt = FALSE]

All(w) == Len(w.x.queue) + 2   \* with the crossings its own requests cause

-----------------------------------------------------------------------------
(* resync() and flush() of the delegate, called under the service's lock. *)

Resync(w) ==
    LET surface(o) == IF w.del.lost THEN OrElse(CreateSurface(DestroySurface(o)), DestroySurface)
                      ELSE o
        load(n) == [n EXCEPT !.del.shapes = [id \in DOMAIN w.scene.live |->
                                                Resolve(w.scene.live[id], w.topo)],
                             !.del.epoch = w.scene.epoch, !.del.revision = w.scene.revision,
                             !.del.dirty = TRUE, !.del.state = "synced"]
        map(s) == IF s.del.mapped THEN s ELSE MapSurface(s)
        up(m) == ScheduleWakeup([m EXCEPT !.del.lost = FALSE, !.del.revived = FALSE])
        tell(v) == Deferred(Invalidated(v, w.del.grabbed /\ w.del.lost))
        go(o) == IF o.x.comp
                 THEN Either(Then(surface(o), LAMBDA n : map(load(n))),
                             LAMBDA m : tell(up(m)), LAMBDA v : Desync(tell(v)))
                 ELSE Deferred(CompositorLost(o))
    IN IF w.del.state = "closed" THEN Fail(w) ELSE Either(Request(w), go, Desync)

\* flush(): present if need be, a round trip, and a look at what it brought;
\* seen is how many events the first look finds.
DelegateFlush(w, seen, through) ==
    LET show(a) == IF ~a.del.presented \/ a.del.dirty \/ a.del.presentedRevision < through
                   THEN PresentTick(a) ELSE Done(a)
        look(b) == [b EXCEPT !.ok = b.del.state = "synced"]
        rest(f) == look(DrainEvents(f, All(f), DrainDeferred))
        fence(p) == Either(Request(p), rest, Desync)
        go(a) == IF a.del.state # "synced" \/ through > a.del.revision THEN Fail(a)
                 ELSE Then(show(a), fence)
    IN go(DrainEvents(w, seen, DrainDeferred))

-----------------------------------------------------------------------------
(* The service's verbs. *)

\* recover()
Recover(w) == Noted(Resync(w))

RecoverBestEffort(w) == IF w.svc.desync THEN Recover(Snapshot(w)) ELSE w

\* create(): open() of the delegate, with its second look at the compositor.
Create(w) ==
    LET up(m) == ScheduleWakeup([m EXCEPT !.del.state = "synced", !.del.dirty = TRUE,
                                          !.svc.opened = TRUE])
        open(p) == Either(Then(Then(CreateSurface(p), Request), MapSurface), up, DestroySurface)
    IN Then(Request(w), LAMBDA p : IF p.x.comp THEN open(p) ELSE Fail(p))

\* ~OverlayService()
Destroy(w) ==
    [Tell(DestroySurface(Abandon(w))) EXCEPT
        !.del = ClosedDelegate, !.sess = NoSession, !.x.queue = <<>>,
        !.scene = EmptyScene, !.svc = [NoService EXCEPT !.closed = TRUE]]

\* transform_shape() as a preflight.
Resolvable(shape) == shape.kind # "unknown"

\* add() and add_many(): nothing is added unless all can be resolved; a shape the
\* scene refuses ends the batch.
AddOne(w, s) ==
    Then(w, LAMBDA u :
        [Publish(u, SceneAdd(u.scene, s, u.now)) EXCEPT !.ok = s.kind # "invalid"])

AddMany(w, shapes) ==
    LET all(r) == IF \A i \in 1 .. Len(shapes) : Resolvable(shapes[i])
                  THEN FoldLeft(AddOne, Done(r), shapes) ELSE r
    IN Tell(RefreshEdit(all(RecoverBestEffort(w))))

\* A verb that succeeded on the shape that is being dragged ends the drag.
OverDrag(w, id) == IF w.ok /\ w.sess.target = id THEN CancelDrag(w, FALSE) ELSE w

Update(w, id, shape) ==
    LET put(r) == IF Resolvable(shape) THEN UpdateShape(r, id, shape) ELSE Fail(r)
    IN Tell(RefreshEdit(OverDrag(put(RecoverBestEffort(w)), id)))

RemoveShape(w, id) ==
    LET drop(r) == [Publish(r, SceneRemove(r.scene, id, r.now)) EXCEPT
                       !.ok = id \in DOMAIN DrainExpired(r.scene, r.now).live]
    IN Tell(RefreshEdit(OverDrag(drop(RecoverBestEffort(w)), id)))

Clear(w) ==
    LET wipe(r) == Publish(r, SceneClear(r.scene, r.now))
    IN Tell(RefreshEdit(CancelDrag(wipe(RecoverBestEffort(w)), FALSE)))

\* flush(): "recover and retry the fence ONCE".  A frame is drawn at a later reading of
\* the clock than the one that drained the scene.
Flush(w, seen, later) ==
    LET fence(v, n) == DelegateFlush([v EXCEPT !.now = later], n, v.scene.revision)
        keep(v) == [v EXCEPT !.svc.desync = @ \/ ~v.ok]
        retry(f) == Then(Recover(f), LAMBDA h : keep(fence(h, All(h))))
        ready(s) == IF s.svc.desync THEN Recover(s) ELSE Done(s)
        report(v) == [v EXCEPT !.flushed = IF v.ok THEN w.now ELSE Never]
    IN Tell(report(Then(ready(Snapshot(RefreshEdit(w))), LAMBDA r :
                        OrElse(fence(r, seen), retry))))

\* start_edit(); the session is taken back if any of its requests fails.
StartEdit(w, editable) ==
    LET fit(s) == /\ editable \subseteq DOMAIN s.scene.live
                  /\ \A id \in editable :
                        s.scene.live[id].shape.kind \notin {"animated", "foreign"}
        session(s) == [s EXCEPT !.svc.sessions = @ + 1,
                                !.sess = [NoSession EXCEPT !.id = s.svc.sessions + 1,
                                             !.editable = editable, !.handler = TRUE]]
        handle(s) == SetEditHandler(s, s.sess.id)
        on(i) == [i EXCEPT !.sess.live = TRUE, !.svc.mixed = @ \/ w.svc.captured]
        back(v) == [OrElse(Stop(v), Stop) EXCEPT !.sess = NoSession]
        start(s) == IF fit(s) THEN Either(Then(handle(session(s)), RefreshRegion), on, back)
                    ELSE s
    IN IF w.sess.live THEN w
       ELSE Then(Terminate(w), LAMBDA t : start(Snapshot(RecoverBestEffort(t))))

\* stop_edit()
StopEdit(w) == Tell(Abandon(w))

\* release_pointer_locked(): click-through is restored even if the ungrab failed.
ReleaseCapture(w) ==
    LET forget(v) == [v EXCEPT !.svc.captured = FALSE, !.svc.lapsed = @ \/ ~v.ok]
    IN IF ~w.svc.captured THEN w
       ELSE forget(Also(UngrabPointer(w), LAMBDA u : SetInputRegion(u, "none")))

\* capture_pointer(): a failed grab is treated as possibly installed.
Capture(w) ==
    LET grab(i) == GrabPointer([i EXCEPT !.svc.captured = TRUE,
                                         !.svc.mixed = @ \/ w.sess.id # 0])
    IN IF w.svc.captured THEN w
       ELSE Then(SetInputRegion(w, "full"), LAMBDA i : OrElse(grab(i), ReleaseCapture))

\* handle_wakeup(): the wakeup is spent, whatever comes of it.
Wakeup(w, later) ==
    LET next(p) == ScheduleNext(p, later)
        show(d) == IF d.del.state # "synced" THEN d
                   ELSE Either(PresentTick(d), next, Desync)
    IN show(DrainEvents([w EXCEPT !.del.wake = Never], All(w), DrainDirect))

ReadEvents(w) == DrainEvents(w, All(w), DrainDirect)

RunPosted(w) ==
    HandleEditEvent([w EXCEPT !.posted = Tail(@)], Head(w.posted).kind, Head(w.posted).id)

-----------------------------------------------------------------------------
(* The specification. *)

Verb(F(_)) == svc.opened /\ Run(F, moves + 1)
Task(F(_)) == Run(F, moves)

DoCreate   == /\ ~svc.opened /\ ~svc.closed
              /\ Task(Create)
DoDestroy  == svc.opened /\ Task(Destroy)
DoAdd      == \E b \in Batches : Verb(LAMBDA w : AddMany(w, b))
DoUpdate   == \E id \in DOMAIN scene.live, s \in Redrawn : Verb(LAMBDA w : Update(w, id, s))
DoRemove   == \E id \in DOMAIN scene.live : Verb(LAMBDA w : RemoveShape(w, id))
DoClear    == Verb(Clear)
DoFlush    == \E seen \in 0 .. Len(x.queue), later \in now .. MaxTime :
                 Verb(LAMBDA w : Flush(w, seen, later))
DoStartEdit == \E ids \in (SUBSET DOMAIN scene.live) \ {{}} : Verb(LAMBDA w : StartEdit(w, ids))
DoStopEdit == sess.id # 0 /\ Verb(StopEdit)
DoCapture  == Verb(Capture)
DoRelease  == Verb(ReleaseCapture)
DoWakeup   == del.wake <= now /\ \E later \in now .. MaxTime :
                 Task(LAMBDA w : Wakeup(w, later))
DoRead     == svc.opened /\ x.queue # <<>> /\ Task(ReadEvents)
DoPosted   == posted # <<>> /\ Task(RunPosted)

\* external: the server and its other clients.
Server(kind, window) ==
    /\ svc.opened /\ moves < MaxMoves
    /\ moves' = moves + 1
    /\ x' = [x EXCEPT !.queue = Append(@, [kind |-> kind, window |-> window]),
                      !.comp = IF kind = "owner" THEN window = 1 ELSE @,
                      !.grab = IF kind = "ungrab" THEN FALSE ELSE @]
    /\ flushed' = Never
    /\ UNCHANGED <<now, topo, scene, svc, sess, del, posted, drags>>

OverWindow == del.handler # 0 /\ del.mapped /\ x.region # "none"

Press        == ~x.grab /\ OverWindow /\ Server("press", del.window)
Motion       == (x.grab \/ OverWindow) /\ Server("motion", del.window)
ButtonUp     == (x.grab \/ OverWindow) /\ Server("release", del.window)
BreakGrab    == x.grab /\ del.handler # 0 /\ Server("ungrab", del.window)
Compositor   == Server("owner", IF x.comp THEN 0 ELSE 1)
ScreenChange == Server("screen", 0)
OtherRaised  == Server("raised", 0)
XError       == Server("error", 0)

Tick ==
    /\ svc.opened /\ now < MaxTime
    /\ now' = now + 1
    /\ flushed' = Never
    /\ UNCHANGED <<topo, scene, svc, sess, del, posted, x, drags, moves>>

Next ==
    \/ DoCreate \/ DoDestroy \/ DoAdd \/ DoUpdate \/ DoRemove \/ DoClear
    \/ DoFlush \/ DoStartEdit \/ DoStopEdit \/ DoCapture \/ DoRelease
    \/ DoWakeup \/ DoRead \/ DoPosted
    \/ Press \/ Motion \/ ButtonUp \/ BreakGrab
    \/ Compositor \/ ScreenChange \/ OtherRaised \/ XError
    \/ Tick

Spec == Init /\ [][Next]_vars

-----------------------------------------------------------------------------
(* Properties. *)

Current == [id \in DOMAIN scene.live |-> Resolve(scene.live[id], topo)]

\* Whenever the delegate believes itself in step and the service agrees, it holds the
\* scene: same epoch, same revision, same records (overlay_service.cpp publish/recover,
\* overlay_delegate.cpp apply/resync); and unless the compositor's return revived it,
\* each record is resolved for the present screens.
DelegateIsReplica ==
    del.state = "synced" /\ ~svc.desync =>
        /\ DOMAIN del.shapes = DOMAIN scene.live
        /\ \A id \in DOMAIN del.shapes : del.shapes[id].shape = scene.live[id].shape
                                         /\ del.shapes[id].start = scene.live[id].start
        /\ del.revision = scene.revision
        /\ del.epoch \in {None, scene.epoch}
        /\ del.revived \/ del.shapes = Current

\* A flush() that reports success has put the scene on a mapped window, as it was at
\* some time since the call began, whatever the server did meanwhile; a compositor that
\* went and came back in between is the exception, and then the next frame is due.
FlushShows ==
    flushed # Never =>
        IF del.revived THEN del.presented \/ del.wake # Never
        ELSE del.mapped /\ \E t \in flushed .. now : del.screen = Render(Current, t)

\* The screen never waits for a verb: what it still has to show or to take away has a
\* wakeup (schedule_wakeup, handle_wakeup), unless its lifetime ended in the very turn
\* that drew it, before that turn looked for the next wakeup.
FrameScheduled ==
    /\ del.looked <= now
    /\ del.state = "synced" /\ (del.dirty \/ \E id \in DOMAIN del.screen :
                                   /\ Deadline(del.screen[id]) > del.looked
                                   /\ Deadline(del.screen[id]) # Never)
           => del.wake # Never

\* What is on the screen follows the scene: the two above.
ScreenFollows == FlushShows /\ FrameScheduled

\* "A pointer grab left behind freezes the user's whole desktop": a grab or an input
\* region on the server has an owner who will give it back, unless a release was
\* already reported as failed or a capture was mixed with an edit session; a window that
\* was never shaped, and so takes every click, is one that no frame was drawn on.
NothingLeftBehind ==
    svc.lapsed \/ svc.mixed \/
        /\ x.grab => svc.captured \/ sess.grabbed
        /\ x.region \in {"edit", "full"} => svc.captured \/ sess.id # 0
        /\ x.region = "default" => del.surface = "partial" /\ del.screen = <<>>
        /\ del.handler # 0 => sess.id = del.handler

\* Every drag that began is reported to its owner exactly once, as an edit or as a
\* cancellation, also when its shape, its grab, its session or the service goes.
DragToldOnce == drags = IF sess.target = None THEN 0 ELSE 1

\* An edit session leaves nothing behind, on the server or with its owner.
EditReleased == NothingLeftBehind /\ DragToldOnce
=============================================================================
