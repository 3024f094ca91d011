----------------------------- MODULE EventQueue -----------------------------
(***************************************************************************)
(* SubscriptionState of kernel/events/event_bus.cpp: the bounded queue     *)
(* between the bus and one subscriber, as operators on a record           *)
(*                                                                         *)
(*   items     what is queued, oldest first: an event carries its kind and *)
(*             its sequence, a gap marker the sequence last delivered when *)
(*             it was written                                              *)
(*   overflow  overflow_count_ (lagging_ is raised with it, never lowered) *)
(*   resync    needs_resync_                                               *)
(*   last      last_delivered_sequence_                                    *)
(*   lost      history: sequences discarded that the queue promises to own *)
(*             up to, and of which the subscriber was not yet told by a    *)
(*             marker                                                      *)
(*                                                                         *)
(* Every operator is one critical section of mutex_.  The ring buffer that *)
(* holds the items is in SubscriptionRing.                                 *)
(***************************************************************************)
EXTENDS Integers, Sequences

CONSTANTS
    Kinds,            \* the event kinds in play
    MotionKind,       \* EventKind::MouseMove
    NeverDropKinds    \* coalescing_class_of( kind ) = NeverDrop

ASSUME KindAssumption ==
    /\ MotionKind \in Kinds
    /\ NeverDropKinds \subseteq Kinds
    /\ MotionKind \notin NeverDropKinds
    /\ "gap" \notin Kinds

Policies == {"coalesce", "neverDrop"}

\* std::variant<Event, QueueGapMarker>
Event(k, n) == [kind |-> k, seq |-> n]
Marker(n)   == [kind |-> "gap", seq |-> n]
Items       == [kind : Kinds \cup {"gap"}, seq : Nat]
IsGap(item) == item.kind = "gap"

Queues == [items    : Seq(Items),
           overflow : Nat,
           resync   : BOOLEAN,
           last     : Nat,
           lost     : SUBSET Nat]

Queue(items, overflow, resync, last, lost) ==
    [items |-> items, overflow |-> overflow, resync |-> resync, last |-> last,
     lost |-> lost]

EmptyQueue == Queue(<<>>, 0, FALSE, 0, {})

Back(q) == q.items[Len(q.items)]

\* mark_overflow().
MarkOverflow(q) ==
    Queue(q.items, q.overflow + 1, q.resync, q.last, q.lost)

\* The items with the newest one overwritten in place.
ReplaceBack(q, item) == [q.items EXCEPT ![Len(q.items)] = item]

\* mark_gap() for event n: the newest queued event gives way to a marker, and
\* both it and the event that found no room are lost.
MarkGap(q, n) ==
    IF IsGap(Back(q))
    THEN Queue(q.items, q.overflow + 1, TRUE, q.last, q.lost \cup {n})
    ELSE Queue(ReplaceBack(q, Marker(q.last)), q.overflow + 1, TRUE, q.last,
               q.lost \cup {n, Back(q).seq})

\* The queue with other items and nothing lost.
WithItems(q, items) ==
    Queue(items, q.overflow, q.resync, q.last, q.lost)

\* enqueue().  A queue of capacity zero only counts.
Enqueue(q, e, capacity, policy) ==
    IF capacity = 0
    THEN MarkOverflow(q)
    ELSE IF Len(q.items) < capacity
    THEN WithItems(q, Append(q.items, e))
    ELSE IF policy = "coalesce" /\ e.kind = MotionKind /\ Back(q).kind = MotionKind
    THEN WithItems(q, ReplaceBack(q, e))
    ELSE IF policy = "neverDrop" \/ e.kind \in NeverDropKinds
    THEN MarkGap(q, e.seq)
    ELSE MarkOverflow(q)

\* Item j tells a reader that has come as far as "last" of the loss of n: it is a marker
\* to resume from, and it stands between the events older than n and those newer.
Tells(items, last, j, n) ==
    /\ IsGap(items[j]) /\ items[j].seq <= last /\ last < n
    /\ \A i \in 1 .. Len(items) :
          ~IsGap(items[i]) => /\ i < j => items[i].seq < n
                              /\ j < i => n < items[i].seq

\* History: the losses of which the oldest item does not tell.
Untold(items, last, lost) == {n \in lost : ~Tells(items, last, 1, n)}

\* try_pop_item() on a queue that holds something: only an event moves
\* last_delivered_sequence_.
TryPopItem(q) ==
    IF IsGap(Head(q.items))
    THEN Queue(Tail(q.items), q.overflow, q.resync, q.last, Untold(q.items, q.last, q.lost))
    ELSE Queue(Tail(q.items), q.overflow, q.resync, Head(q.items).seq, q.lost)

\* try_pop(): the same removal, but a marker is swallowed: the caller is told
\* the queue is empty, and has no record of the gap.
TryPop(q) ==
    IF IsGap(Head(q.items))
    THEN WithItems(q, Tail(q.items))
    ELSE TryPopItem(q)

-----------------------------------------------------------------------------
(* What a queue promises its subscriber.                                   *)

\* Queued events are in publication order, newer than anything delivered and
\* older than the next sequence the bus will hand out.
Ordered(q, nextSequence) ==
    /\ q.last < nextSequence
    /\ \A i \in 1 .. Len(q.items) :
          ~IsGap(q.items[i]) =>
              /\ q.last < q.items[i].seq
              /\ q.items[i].seq < nextSequence
    /\ \A i, j \in 1 .. Len(q.items) :
          i < j /\ ~IsGap(q.items[i]) /\ ~IsGap(q.items[j])
              => q.items[i].seq < q.items[j].seq

\* Every loss the queue owns up to, and of which its reader was not told, has a marker
\* in the queue that will tell: the reader meets it after the last event before the
\* loss and before the first one beyond it.
LossIsMarked(q) ==
    \A n \in q.lost : q.resync /\ \E j \in 1 .. Len(q.items) : Tells(q.items, q.last, j, n)
=============================================================================
