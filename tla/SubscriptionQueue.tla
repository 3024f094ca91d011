-------------------------- MODULE SubscriptionQueue --------------------------
(***************************************************************************)
(* One subscription as its subscriber sees it: the bus enqueues events     *)
(* with rising sequences (those of events it does not subscribe to are     *)
(* skipped), the subscriber pops items.                                    *)
(***************************************************************************)
EXTENDS QueueOptions

VARIABLES q, nextStamp

vars == <<q, nextStamp>>

TypeOK ==
    /\ q \in Queues
    /\ nextStamp \in Nat \ {0}

Init ==
    /\ q = EmptyQueue
    /\ nextStamp = 1

\* The bus stamps an event this subscription matches and enqueues it.
Publish(k) ==
    /\ nextStamp <= LastStamp
    /\ q' = Enqueue(q, Event(k, nextStamp), QueueCapacity, QueuePolicy)
    /\ nextStamp' = nextStamp + 1

\* The bus stamps an event for somebody else.
PublishElsewhere ==
    /\ nextStamp <= LastStamp
    /\ nextStamp' = nextStamp + 1
    /\ UNCHANGED q

Pop ==
    /\ q.items # <<>>
    /\ q' = TryPopItem(q)
    /\ UNCHANGED nextStamp

Next ==
    \/ \E k \in Kinds : Publish(k)
    \/ PublishElsewhere
    \/ Pop

Spec == Init /\ [][Next]_vars

-----------------------------------------------------------------------------
(* Properties. *)

\* The buffer never holds more than it was sized for (event_bus.cpp:128).
Bounded == Len(q.items) <= QueueCapacity

\* Whatever overflow and coalescing did to the queue, what is left in it is
\* still in the order the bus published it (event_bus.cpp:115-162).
InOrder == Ordered(q, nextStamp)

\* needs_resync_ is up and each event lost from a queue that may not drop it, the
\* overwritten one included, has a marker of its own place: a reader of items meets it
\* between what was published before the loss and what was published after
\* (event_bus.cpp:262-281).  A marker read earlier does not count for a later loss.
EveryLossMarked == LossIsMarked(q)

\* last_delivered_sequence_ only ever moves forward (event_bus.cpp:190-193).
DeliveryAdvances == [][q'.last >= q.last]_vars

=============================================================================
