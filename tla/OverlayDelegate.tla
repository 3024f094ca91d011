-------------------------- MODULE OverlayDelegate --------------------------
(***************************************************************************)
(* drivers/desktop/x11/overlay_delegate.cpp, the part below its event      *)
(* loop: the copy of the scene, the window and the pointer grab on the     *)
(* server, and the wakeup that presents frames.                            *)
(*                                                                         *)
(* Everything here runs on the reactor thread, one handler at a time.  A   *)
(* handler makes several requests that the server may refuse, so it is     *)
(* written as a function of the world w, a record with                     *)
(*   now, topo    the clock; the version of the space graph                *)
(*   scene        OverlayScene                                             *)
(*   svc, sess    the service and its edit session (OverlayService)        *)
(*   del          this delegate                                            *)
(*   x            external: the server's window, grab and event queue      *)
(*   posted       edit events deferred through the reactor                 *)
(*   bad, calls   which of the handler's checked requests fail; how many   *)
(*                it has made; ok is the outcome of the last operation     *)
(***************************************************************************)
EXTENDS OverlayScene

\* A checked request, or a reply that is waited for.
Request(w) == [w EXCEPT !.calls = @ + 1, !.ok = (w.calls + 1) \notin w.bad]
Fail(w)    == [w EXCEPT !.ok = FALSE]
Done(w)    == [w EXCEPT !.ok = TRUE]

\* How a handler goes on after an operation: only if it succeeded, only if it failed,
\* one way or the other, or in any case, with the success of both.
Then(w, F(_))         == IF w.ok THEN F(w) ELSE w
OrElse(w, F(_))       == IF w.ok THEN w ELSE F(w)
Either(w, F(_), G(_)) == IF w.ok THEN F(w) ELSE G(w)
Also(w, F(_))         == [F(w) EXCEPT !.ok = @ /\ w.ok]

\* mark_desynced()
Desync(w)  == [w EXCEPT !.del.state = "desynced", !.ok = FALSE]

ClosedDelegate ==
    [state |-> "closed", epoch |-> None, revision |-> 0, shapes |-> <<>>,
     presentedRevision |-> 0, dirty |-> FALSE, presented |-> FALSE, screen |-> <<>>,
     surface |-> "none", window |-> 0, mapped |-> FALSE, lost |-> FALSE,
     grabbed |-> FALSE, region |-> "none", handler |-> 0, wake |-> Never,
     revived |-> FALSE,
     looked |-> 0]   \* history: the clock when the frame on the screen was drawn or,
                     \* after that, its next wakeup was looked for

-----------------------------------------------------------------------------
(* Frames. *)

\* transform_shape(): what the delegate stores is resolved through the graph.
Resolve(rec, topo) ==
    [shape |-> rec.shape, start |-> rec.start,
     topo |-> IF rec.shape.kind = "foreign" THEN topo ELSE 0]

\* The raster leaves out what has expired.
Render(shapes, now) ==
    Restrict(shapes, {id \in DOMAIN shapes : Deadline(shapes[id]) > now})

Animating(rec, now) == rec.shape.kind = "animated" /\ rec.start + Ttl > now

\* Mutant: only the frame clock is looked at, not the lifetimes.
NextFrameOnly(d, now) ==
    IF d.dirty \/ \E id \in DOMAIN d.shapes : Animating(d.shapes[id], now)
    THEN now ELSE Never

\* overlay_damage_plan(): a frame at once, or at the next lifetime's end.
NextFrame(d, now) ==
    IF d.dirty \/ \E id \in DOMAIN d.shapes : Animating(d.shapes[id], now)
    THEN now
    ELSE Min({Never} \cup {t \in {Deadline(d.shapes[id]) : id \in DOMAIN d.shapes} : t > now})

\* schedule_wakeup(): an earlier wakeup stands; none needed cancels it.
ScheduleWakeup(w) ==
    LET next == NextFrame(w.del, w.now) IN
    IF w.del.state = "closed" \/ (w.del.wake <= next /\ next # Never) THEN w
    ELSE [w EXCEPT !.del.wake = next]

\* present_tick(): render, convert, put, flush.
PresentTick(w) ==
    Then(Request(w), LAMBDA r :
        IF r.del.surface # "full" THEN Fail(r)
        ELSE [r EXCEPT !.del.screen = Render(w.del.shapes, w.now), !.del.looked = w.now,
                       !.del.dirty = FALSE, !.del.presented = TRUE,
                       !.del.presentedRevision = w.del.revision])

\* After a frame schedule_wakeup() reads the clock again, and counts only the deadlines
\* still to come: a lifetime that ended since the frame was drawn gets no wakeup.
ScheduleNext(w, later) ==
    ScheduleWakeup([w EXCEPT !.now = later, !.del.looked = later])

-----------------------------------------------------------------------------
(* The delta stream. *)

ApplyChange(shapes, d, topo) ==
    CASE d.op = "upsert" -> Put(shapes, d.id, Resolve(d.rec, topo))
      [] d.op = "remove" -> Drop(shapes, d.id)
      [] d.op = "clear"  -> <<>>

Accept(w, d) ==
    ScheduleWakeup([w EXCEPT !.del.shapes = ApplyChange(@, d, w.topo),
                             !.del.epoch = d.epoch, !.del.revision = d.revision,
                             !.del.dirty = TRUE, !.ok = TRUE])

\* Is d the next delta?  The first one is revision 1, every other the next of its
\* epoch; only a Clear as revision 1 opens another epoch.
Continues(d, epoch, revision) ==
    IF epoch = None THEN d.revision = 1
    ELSE IF epoch = d.epoch THEN d.revision = revision + 1
    ELSE d.op = "clear" /\ d.revision = 1

\* apply(): what is already there is skipped, a gap puts the delegate out of step.
Apply(w, d) ==
    IF w.del.state # "synced" THEN Fail(w)
    ELSE IF w.del.epoch = d.epoch /\ d.revision <= w.del.revision THEN Done(w)
    ELSE IF Continues(d, w.del.epoch, w.del.revision) THEN Accept(w, d)
    ELSE Desync(w)

-----------------------------------------------------------------------------
(* The window.  Without its raster it is a partial surface; with an id the server has  *)
(* no window for it is a bogus one, and what is asked of it is refused.                *)

\* external: the grab ends with the window, or when it is no longer viewable.
EndGrab(w) == [w EXCEPT !.x.grab = FALSE]

\* destroy_surface()
DestroySurface(w) ==
    [EndGrab(w) EXCEPT !.del.grabbed = FALSE, !.del.surface = "none",
                       !.del.mapped = FALSE, !.del.presented = FALSE,
                       !.del.screen = <<>>, !.x.region = "none"]

\* create_surface(), request by request: a new window takes all input, until it is made
\* click-through and the cached input region is put back; then comes the raster.
NewWindow(w)    == Request([w EXCEPT !.del.window = @ + 1, !.del.surface = "bogus"])
PassThrough(w)  == Request([w EXCEPT !.del.surface = "partial", !.x.region = "default"])
RestoreRegion(w) ==
    LET through == [w EXCEPT !.x.region = "none"]
    IN IF w.del.region = "none" THEN through
       ELSE Then(Request(through), LAMBDA r : [r EXCEPT !.x.region = w.del.region])
WithRaster(w)   == [w EXCEPT !.del.surface = "full"]
CreateSurface(w) ==
    Then(Then(Then(Then(Then(Request(w), NewWindow), PassThrough), RestoreRegion), Request),
         WithRaster)

\* A checked request about the window.
WindowRequest(w) ==
    IF w.del.surface = "bogus" THEN Fail(Request(w)) ELSE Request(w)

\* map_surface()
MapSurface(w) ==
    Then(WindowRequest(w), LAMBDA r :
        IF r.del.surface = "none" THEN Fail(r) ELSE [r EXCEPT !.del.mapped = TRUE])

Unmap(w) ==
    IF w.del.mapped THEN [EndGrab(w) EXCEPT !.del.mapped = FALSE] ELSE w

\* release_pointer_best_effort()
ReleaseBestEffort(w) ==
    IF w.del.grabbed THEN [EndGrab(w) EXCEPT !.del.grabbed = FALSE] ELSE w

-----------------------------------------------------------------------------
(* Input. *)

\* set_input_region()
SetInputRegion(w, region) ==
    IF w.del.surface = "none"
    THEN IF region = "none" THEN Done([w EXCEPT !.del.region = "none"]) ELSE Fail(w)
    ELSE Then(WindowRequest(w), LAMBDA r :
              [r EXCEPT !.del.region = region, !.x.region = region])

\* set_edit_handler(): 0 is the empty handler.
SetEditHandler(w, handler) ==
    IF w.del.surface = "none"
    THEN IF handler = 0 THEN Done([w EXCEPT !.del.handler = 0]) ELSE Fail(w)
    ELSE Then(WindowRequest(w), LAMBDA r : [r EXCEPT !.del.handler = handler])

\* grab_pointer(): an error or a lost reply may hide a grab, a refusal does not.
GrabPointer(w) ==
    LET refused(r) == [r EXCEPT !.x.grab = FALSE, !.del.grabbed = FALSE]
    IN IF w.del.grabbed THEN Done(w)
       ELSE IF w.del.surface = "none" THEN Fail(w)
       ELSE IF w.del.surface = "bogus" THEN Fail([w EXCEPT !.del.grabbed = TRUE])
       ELSE Then(Request([w EXCEPT !.x.grab = TRUE, !.del.grabbed = TRUE]), LAMBDA sent :
                 OrElse(Request(sent), refused))

\* external: the server tells of the end of a grab, also of one the client ended, if
\* the pointer has left the window meanwhile and the window selects edit events.
Crossing(w) ==
    IF w.del.handler = 0 THEN w
    ELSE [w EXCEPT !.x.queue = Append(@, [kind |-> "ungrab", window |-> w.del.window])]

\* ungrab_pointer()
UngrabPointer(w) ==
    IF ~w.del.grabbed THEN Done(w)
    ELSE Then(Request(w), LAMBDA r : [Crossing(EndGrab(r)) EXCEPT !.del.grabbed = FALSE])
=============================================================================
