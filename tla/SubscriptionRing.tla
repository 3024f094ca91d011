-------------------------- MODULE SubscriptionRing --------------------------
(***************************************************************************)
(* SubscriptionState as event_bus.cpp stores it: a vector used as a ring,  *)
(* with head_ and size_ and indices taken modulo the capacity.  Shown to   *)
(* implement SubscriptionQueue, in which the queue is a sequence.          *)
(***************************************************************************)
EXTENDS QueueOptions

VARIABLES
    buffer,         \* buffer_: slots 0 .. Capacity - 1
    head,           \* head_
    size,           \* size_
    overflow,       \* overflow_count_
    resync,         \* needs_resync_
    last,           \* last_delivered_sequence_
    nextStamp,      \* the bus's next_sequence_
    lost            \* history, as in EventQueue

counters == <<overflow, resync>>
ringVars == <<buffer, head, size, overflow, resync, last, nextStamp, lost>>

Slots   == 0 .. QueueCapacity - 1
Cleared == Event(MotionKind, 0)    \* SubscriptionEvent{ Event{} }, any kind does

RingTypeOK ==
    /\ buffer \in [Slots -> Items]
    /\ head \in Slots \cup {0}
    /\ size \in 0 .. QueueCapacity
    /\ overflow \in Nat
    /\ resync \in BOOLEAN
    /\ last \in Nat
    /\ nextStamp \in Nat

RingInit ==
    /\ buffer = [i \in Slots |-> Cleared]
    /\ head = 0
    /\ size = 0
    /\ overflow = 0
    /\ resync = FALSE
    /\ last = 0
    /\ nextStamp = 1
    /\ lost = {}

TailIndex == (head + size) % QueueCapacity

\* Mutant: the back is where the next item would go.
BackIndexTail == (head + size) % QueueCapacity

BackIndex == (head + size - 1) % QueueCapacity

NextIndex(i) == (i + 1) % QueueCapacity

\* The items from the oldest to the newest.
RingItems == [i \in 1 .. size |-> buffer[(head + i - 1) % QueueCapacity]]

\* The four outcomes of enqueue() for event e.
Store(e) ==
    /\ size < QueueCapacity
    /\ buffer' = [buffer EXCEPT ![TailIndex] = e]
    /\ size' = size + 1
    /\ UNCHANGED <<overflow, resync, lost>>

Coalesces(e) ==
    /\ QueuePolicy = "coalesce"
    /\ e.kind = MotionKind
    /\ buffer[BackIndex].kind = MotionKind

Coalesce(e) ==
    /\ size = QueueCapacity
    /\ QueueCapacity > 0
    /\ Coalesces(e)
    /\ buffer' = [buffer EXCEPT ![BackIndex] = e]
    /\ UNCHANGED <<size, overflow, resync, lost>>

MustNotDrop(e) == QueuePolicy = "neverDrop" \/ e.kind \in NeverDropKinds

\* The room is gone and the event may not be dropped in silence.
Overfull(e) ==
    /\ size = QueueCapacity
    /\ QueueCapacity > 0
    /\ ~Coalesces(e)
    /\ MustNotDrop(e)
    /\ overflow' = overflow + 1
    /\ resync' = TRUE
    /\ UNCHANGED size

\* Mutant: a subscriber that needs a resync already gets no second marker.
LeaveGapOnce(e) ==
    /\ Overfull(e)
    /\ IF IsGap(buffer[BackIndex]) \/ resync
       THEN /\ lost' = lost \cup {e.seq}
            /\ UNCHANGED buffer
       ELSE /\ lost' = lost \cup {e.seq, buffer[BackIndex].seq}
            /\ buffer' = [buffer EXCEPT ![BackIndex] = Marker(last)]

\* mark_gap(): the newest queued event gives way to a marker.
LeaveGap(e) ==
    /\ Overfull(e)
    /\ IF IsGap(buffer[BackIndex])
       THEN /\ lost' = lost \cup {e.seq}
            /\ UNCHANGED buffer
       ELSE /\ lost' = lost \cup {e.seq, buffer[BackIndex].seq}
            /\ buffer' = [buffer EXCEPT ![BackIndex] = Marker(last)]

Drop(e) ==
    /\ size = QueueCapacity
    /\ QueueCapacity > 0 => ~Coalesces(e) /\ ~MustNotDrop(e)
    /\ overflow' = overflow + 1
    /\ UNCHANGED <<buffer, size, resync, lost>>

RingEnqueue(k) ==
    /\ nextStamp <= LastStamp
    /\ LET e == Event(k, nextStamp) IN
          Store(e) \/ Coalesce(e) \/ LeaveGap(e) \/ Drop(e)
    /\ nextStamp' = nextStamp + 1
    /\ UNCHANGED <<head, last>>

Elsewhere ==
    /\ nextStamp <= LastStamp
    /\ nextStamp' = nextStamp + 1
    /\ UNCHANGED <<buffer, head, size, counters, last, lost>>

\* try_pop_item(): the slot is cleared as the item is moved out.
RingPop ==
    /\ size # 0
    /\ buffer' = [buffer EXCEPT ![head] = Cleared]
    /\ head' = NextIndex(head)
    /\ size' = size - 1
    /\ LET item == buffer[head] IN
          IF IsGap(item)
          THEN lost' = Untold(RingItems, last, lost) /\ UNCHANGED last
          ELSE last' = item.seq /\ UNCHANGED lost
    /\ UNCHANGED <<counters, nextStamp>>

RingNext ==
    \/ \E k \in Kinds : RingEnqueue(k)
    \/ Elsewhere
    \/ RingPop

RingSpec == RingInit /\ [][RingNext]_ringVars

-----------------------------------------------------------------------------
(* The ring read from its head is the queue. *)

Abstract == INSTANCE SubscriptionQueue WITH
    q <- [items |-> RingItems, overflow |-> overflow, resync |-> resync,
          last |-> last, lost |-> lost]

\* Every step of the ring is a step of the queue it stands for: the modulo
\* arithmetic of tail_index(), back_index() and next_index() and the overwrite
\* of the back slot never touch an item that is neither refused nor overwritten
\* in the queue (event_bus.cpp:115-195, 234-253).
RingIsQueue == Abstract!Spec

\* The promises to a reader hold of the ring's content: items in publication order, and
\* for every loss it may not keep silent about a marker that is met after what was
\* published before the loss and before what was published after (event_bus.cpp:262-281).
LossAccounted == Abstract!InOrder /\ Abstract!EveryLossMarked
=============================================================================
