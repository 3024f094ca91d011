---------------------------- MODULE OverlayScene ----------------------------
(***************************************************************************)
(* kernel/presentation/overlay_scene.cpp: the shapes a session shows, kept *)
(* under ids that are never given twice, and the stream of numbered deltas *)
(* that a renderer follows.  Every call first removes what has expired;    *)
(* nothing removes an expired shape until somebody calls.                  *)
(*                                                                         *)
(* A shape is [kind, pos].  What tells the kinds apart:                    *)
(*   plain     drawn in the delegate's own space, for ever                 *)
(*   brief     the same, with a lifetime                                   *)
(*   foreign   in another space: its geometry depends on the topology      *)
(*   animated  not editable                                                *)
(*   invalid   refused by the scene (shape_is_valid)                       *)
(* Physical slots, the exhaustion of ids and of revisions are not modelled;*)
(* the drawing order is a function of the records and is left out.         *)
(***************************************************************************)
EXTENDS Integers, Sequences, FiniteSets, SequencesExt, FiniteSetsExt, Functions

CONSTANTS
    Ttl,         \* the lifetime of a brief shape
    None

Never == 1000    \* the deadline of a shape that has none

\* deadline_for()
Deadline(rec) == IF rec.shape.kind = "brief" THEN rec.start + Ttl ELSE Never

EmptyScene == [epoch |-> 0, revision |-> 0, next |-> 1, live |-> <<>>, pending |-> <<>>]

Delta(epoch, revision, op, id, rec) ==
    [epoch |-> epoch, revision |-> revision, op |-> op, id |-> id, rec |-> rec]

Put(f, id, rec) == [x \in DOMAIN f \cup {id} |-> IF x = id THEN rec ELSE f[x]]
Drop(f, id)     == Restrict(f, DOMAIN f \ {id})

\* queue_change()
QueueChange(s, op, id, rec) ==
    [s EXCEPT !.revision = @ + 1,
              !.pending = Append(@, Delta(s.epoch, s.revision + 1, op, id, rec))]

QueueUpsert(s, id, rec) == QueueChange([s EXCEPT !.live = Put(@, id, rec)], "upsert", id, rec)
QueueRemove(s, id) == QueueChange([s EXCEPT !.live = Drop(@, id)], "remove", id, None)

\* The table of deadlines is sorted by deadline, then by slot.
Before(live, a, b) ==
    \/ Deadline(live[a]) < Deadline(live[b])
    \/ Deadline(live[a]) = Deadline(live[b]) /\ a[2] < b[2]

\* The shapes that are due, in the table's order.
Expired(s, now) ==
    LET due == {id \in DOMAIN s.live : Deadline(s.live[id]) <= now}
    IN CHOOSE q \in SetToSeqs(due) :
           \A i, j \in DOMAIN q : i < j => Before(s.live, q[i], q[j])

\* drain_expired()
DrainExpired(s, now) == FoldLeft(QueueRemove, s, Expired(s, now))

\* add(); an id is <<epoch, slot>>.
SceneAdd(scene, shape, now) ==
    LET put(s) == [QueueUpsert(s, <<s.epoch, s.next>>, [shape |-> shape, start |-> now])
                       EXCEPT !.next = @ + 1]
    IN IF shape.kind = "invalid" THEN DrainExpired(scene, now)
       ELSE DrainExpired(put(DrainExpired(scene, now)), now)

\* A shape keeps its start as long as it keeps the kind of its lifetime.
StartOf(old, shape, now) ==
    IF (old.shape.kind = "brief") = (shape.kind = "brief") THEN old.start ELSE now

\* update() and remove() of an id that is not live are refused (StaleShape).
SceneUpdate(scene, id, shape, now) ==
    LET put(s) == IF id \notin DOMAIN s.live \/ shape.kind = "invalid" THEN s
                  ELSE DrainExpired(QueueUpsert(s, id,
                           [shape |-> shape,
                            start |-> StartOf(s.live[id], shape, now)]), now)
    IN put(DrainExpired(scene, now))

SceneRemove(scene, id, now) ==
    LET drop(s) == IF id \in DOMAIN s.live THEN QueueRemove(s, id) ELSE s
    IN drop(DrainExpired(scene, now))

\* clear(): a new epoch, whose first revision is the Clear itself.
SceneClear(scene, now) ==
    QueueChange([DrainExpired(scene, now) EXCEPT !.live = <<>>, !.epoch = @ + 1,
                                                 !.revision = 0, !.next = 1],
                "clear", None, None)
=============================================================================
