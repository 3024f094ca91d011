----------------------------- MODULE OverlayEdit -----------------------------
(***************************************************************************)
(* kernel/presentation/overlay_edit_session.cpp and the half of            *)
(* overlay_service.cpp that serves it: one edit session at a time, whose   *)
(* drags move a shape of the scene, and which must hand back the event     *)
(* handler, the input region and the pointer grab whatever fails.          *)
(*                                                                         *)
(* sess = [id, live, editable, target, original, grabbed, handler, region];*)
(* id 0: the service holds none.  A drag lasts while target is set.        *)
(* w.note is the notification the handler will invoke after its unlock.    *)
(***************************************************************************)
EXTENDS OverlayDelegate

NoSession ==
    [id |-> 0, live |-> FALSE, editable |-> {}, target |-> None, original |-> None,
     grabbed |-> FALSE, handler |-> FALSE, region |-> FALSE]

Dragging(w) == w.sess.target # None

-----------------------------------------------------------------------------
(* The scene's sink. *)

\* The service's belief after it spoke to the delegate.
Noted(w) == [w EXCEPT !.svc.desync = ~w.ok]

\* Mutant: a delta that the delegate refused is not remembered.
PublishOneForgets(w, d) == IF w.svc.desync THEN w ELSE Apply(w, d)

\* publish(): once out of step nothing more is sent until a resync.
PublishOne(w, d) ==
    IF w.svc.desync THEN w ELSE Noted(Apply(w, d))

\* drain_publications()
Publish(w, scene) ==
    FoldLeft(PublishOne, [w EXCEPT !.scene = [scene EXCEPT !.pending = <<>>]], scene.pending)

Snapshot(w) == Publish(w, DrainExpired(w.scene, w.now))

\* A verb on a live shape; ok says whether it was.
UpdateShape(w, id, shape) ==
    [Publish(w, SceneUpdate(w.scene, id, shape, w.now)) EXCEPT
        !.ok = id \in DOMAIN DrainExpired(w.scene, w.now).live /\ shape.kind # "invalid"]

-----------------------------------------------------------------------------
(* The session's obligations. *)

\* release_pointer(): the obligation stays when the request fails.
ReleasePointer(w) ==
    IF ~w.sess.grabbed THEN Done(w)
    ELSE Then(UngrabPointer(w), LAMBDA r : [r EXCEPT !.sess.grabbed = FALSE])

StopRegion(w) ==
    IF ~w.sess.handler /\ ~w.sess.region THEN Done(w)
    ELSE Then(SetInputRegion(w, "none"), LAMBDA r : [r EXCEPT !.sess.region = FALSE])

StopHandler(w) ==
    IF ~w.sess.handler THEN Done(w)
    ELSE Then(SetEditHandler(w, 0), LAMBDA r : [r EXCEPT !.sess.handler = FALSE])

DropDrag(w) == [w EXCEPT !.sess.target = None, !.sess.original = None]

\* Mutant: stop() gives up at its first failure and says nothing of it.
StopAtOnce(w) ==
    Done(Then(Then(ReleasePointer(DropDrag([w EXCEPT !.sess.live = FALSE])), StopRegion),
              StopHandler))

\* stop(): each of the three is tried whatever became of the others.
Stop(w) ==
    Also(Also(ReleasePointer(DropDrag([w EXCEPT !.sess.live = FALSE])), StopRegion),
         StopHandler)

\* terminate_edit_locked(): one retry; a session that cannot be cleaned up is kept.
Terminate(w) ==
    IF w.sess.id = 0 THEN Done(w)
    ELSE Then(OrElse(Stop(w), Stop), LAMBDA b : [b EXCEPT !.sess = NoSession])

\* cancel_drag_locked()
CancelDrag(w, restore) ==
    LET put(v) == IF restore THEN UpdateShape(v, v.sess.target, v.sess.original) ELSE v
    IN IF ~Dragging(w) THEN w
       ELSE [OrElse(ReleasePointer(DropDrag(put(w))), Terminate) EXCEPT !.note = "cancelled"]

\* refresh_region() of the session.
RefreshRegion(w) ==
    LET region == IF w.sess.editable \cap DOMAIN w.scene.live = {} THEN "none" ELSE "edit"
    IN Then(SetInputRegion([w EXCEPT !.sess.region = @ \/ region # "none"], region),
            LAMBDA r : [r EXCEPT !.sess.region = region # "none"])

Ineligible(w) ==
    \E id \in w.sess.editable \cap DOMAIN w.scene.live :
        w.scene.live[id].shape.kind \in {"animated", "foreign"}

Abandon(w) == Terminate(CancelDrag(w, TRUE))

\* refresh_edit_locked(): what every verb and every event ends or begins with.
RefreshEdit(w) ==
    LET follow(a) == IF Dragging(a) /\ a.sess.target \notin DOMAIN a.scene.live
                     THEN Snapshot(CancelDrag(a, FALSE)) ELSE a
        region(b) == IF Ineligible(b) THEN Fail(b) ELSE RefreshRegion(b)
        settle(b) == IF b.sess.id = 0 THEN b ELSE OrElse(region(b), Abandon)
    IN IF w.sess.id = 0 THEN w
       ELSE IF ~w.sess.live THEN Terminate(w)
       ELSE settle(follow(Snapshot(w)))

-----------------------------------------------------------------------------
(* handle_edit_event(). *)

\* invoke_notification(), after the unlock.
Tell(w) == IF w.note = "" THEN w ELSE [w EXCEPT !.drags = @ - 1, !.note = ""]

\* hit_test(): the topmost editable shape.
Hit(w) ==
    LET under == w.sess.editable \cap DOMAIN w.scene.live
    IN IF under = {} THEN None ELSE CHOOSE id \in under : \A k \in under : k[2] <= id[2]

\* ButtonPress: begin(), then the grab; a session that cannot grab is ended.
OnPress(w, id) ==
    LET begun == [w EXCEPT !.sess.target = id, !.sess.original = w.scene.live[id].shape,
                           !.drags = @ + 1]
        grab(b) == IF b.sess.grabbed THEN Done(b)
                   ELSE GrabPointer([b EXCEPT !.sess.grabbed = TRUE])
    IN IF w.note # "" \/ Dragging(w) \/ id = None THEN w
       ELSE OrElse(grab(begun), LAMBDA g : Terminate(CancelDrag(g, FALSE)))

\* EditInteraction::update(): the original moved by the way of the pointer.
Moved(w) == [w.sess.original EXCEPT !.pos = 1 - @]

\* scene_.update() with the preview, then the refresh.
Drag(w) ==
    Either(UpdateShape(w, w.sess.target, Moved(w)), RefreshEdit, LAMBDA u : CancelDrag(u, FALSE))

OnMotion(w) == IF w.note # "" \/ ~Dragging(w) THEN w ELSE Drag(w)

Commit(w) == [DropDrag(w) EXCEPT !.note = "edited"]

\* ButtonRelease: the last preview, the release of the pointer, the commit.
OnRelease(w) ==
    LET finish(d) == IF d.sess.id = 0 \/ ~Dragging(d) THEN d
                     ELSE Either(ReleasePointer(d), Commit, Abandon)
    IN IF w.note # "" \/ ~Dragging(w) THEN w ELSE finish(Drag(w))

\* The session believes it has no grab; svc.lapsed records that a drag begun since the
\* grab was lost has one, which then nobody gives back.
OnUngrab(w) ==
    LET u == [w EXCEPT !.sess.grabbed = FALSE, !.svc.lapsed = @ \/ w.del.grabbed] IN
    IF Dragging(u) THEN RefreshEdit(CancelDrag(u, TRUE)) ELSE u

\* An event of an earlier session, or of one that is no longer live, is dropped.
HandleEditEvent(w, kind, id) ==
    LET on(r) == IF r.sess.id = 0 \/ ~r.sess.live THEN r
                 ELSE CASE kind = "press"   -> OnPress(r, Hit(r))
                        [] kind = "motion"  -> OnMotion(r)
                        [] kind = "release" -> OnRelease(r)
                        [] kind = "ungrab"  -> OnUngrab(r)
    IN IF id # w.sess.id \/ ~w.sess.live THEN w ELSE Tell(on(RefreshEdit(w)))
=============================================================================
