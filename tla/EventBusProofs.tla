--------------------------- MODULE EventBusProofs ---------------------------
(***************************************************************************)
(* One subscription, for every capacity, both overflow policies and any    *)
(* stream of events: the ring buffer of event_bus.cpp implements the queue *)
(* of SubscriptionQueue, and the queue keeps its promises.  What every     *)
(* operation of SubscriptionState preserves is QueueInv.                   *)
(*                                                                         *)
(* Then the bus, for any number of subscribers, kinds, capacities and      *)
(* policies.  BusQueuesInv carries QueueInv to all queues of a bus, which  *)
(* share the sequence numbers: a number handed out for one subscriber is a *)
(* later sequence for the others.                                          *)
(*                                                                         *)
(* DemandInv is about the demand transitions, which other threads report   *)
(* outside the mutex and in any order.  The books balance because at any   *)
(* moment at most one thread has a first subscription of a kind to report  *)
(* (OneEnable): the next first subscriber can only come after a last one   *)
(* left, and that is not possible while the first has still to report.     *)
(***************************************************************************)
EXTENDS EventBus, SubscriptionRing, SequenceTheorems, FiniteSetTheorems, TLAPS

-----------------------------------------------------------------------------
(* The operations of one queue.                                            *)

\* The promises of a queue, with the two facts that make them inductive: a
\* marker never carries a sequence beyond what was delivered, and nothing that
\* was not yet published is lost.
QueueInv(q, next, capacity) ==
    /\ q \in Queues
    /\ Len(q.items) <= capacity
    /\ Ordered(q, next)
    /\ LossIsMarked(q)
    /\ \A i \in 1 .. Len(q.items) : IsGap(q.items[i]) => q.items[i].seq <= q.last
    /\ \A n \in q.lost : n < next

USE DEF IsGap

\* The fields of a queue.
LEMMA QueueFields ==
    ASSUME NEW q \in Queues
    PROVE  /\ q.items \in Seq(Items)
           /\ Len(q.items) \in Nat
           /\ \A i \in 1 .. Len(q.items) : q.items[i] \in Items /\ q.items[i].seq \in Nat
           /\ q.overflow \in Nat
           /\ q.resync \in BOOLEAN
           /\ q.last \in Nat
           /\ q.lost \subseteq Nat
<1>1. /\ q.items \in Seq(Items)
      /\ q.overflow \in Nat
      /\ q.resync \in BOOLEAN
      /\ q.last \in Nat
      /\ q.lost \subseteq Nat
  BY DEF Queues
<1>2. Len(q.items) \in Nat /\ \A i \in 1 .. Len(q.items) : q.items[i] \in Items
  BY <1>1
<1>3. \A x \in Items : x.seq \in Nat
  BY DEF Items
<1> QED
  BY <1>1, <1>2, <1>3

\* A queue starts out keeping its promises (event_bus.cpp:74-82).
LEMMA EmptyQueueInv ==
    ASSUME NEW capacity \in Nat, NEW n \in Nat, n > 0
    PROVE  QueueInv(EmptyQueue, n, capacity)
<1>1. /\ EmptyQueue \in Queues
      /\ EmptyQueue.items = <<>>
      /\ EmptyQueue.last = 0
      /\ EmptyQueue.lost = {}
  BY DEF EmptyQueue, Queue, Queues
<1> QED
  BY <1>1 DEF QueueInv, Ordered, LossIsMarked

\* Later sequences leave a queue's promises as they are.
LEMMA LaterSequence ==
    ASSUME NEW capacity \in Nat, NEW n \in Nat, NEW m \in Nat, n <= m,
           NEW q, QueueInv(q, n, capacity)
    PROVE  QueueInv(q, m, capacity)
<1>1. /\ q \in Queues
      /\ q.items \in Seq(Items)
      /\ q.lost \subseteq Nat
      /\ q.last \in Nat
      /\ \A i \in 1 .. Len(q.items) : q.items[i] \in Items /\ q.items[i].seq \in Nat
  BY QueueFields DEF QueueInv
<1>2. Ordered(q, m)
  BY <1>1 DEF QueueInv, Ordered
<1>3. \A l \in q.lost : l < m
  BY <1>1 DEF QueueInv
<1> QED
  BY <1>2, <1>3 DEF QueueInv

\* enqueue() keeps them for the event with the next sequence
\* (event_bus.cpp:115-162).
LEMMA EnqueueInv ==
    ASSUME NEW capacity \in Nat, NEW policy \in Policies, NEW n \in Nat,
           NEW k \in Kinds, NEW q, QueueInv(q, n, capacity)
    PROVE  QueueInv(Enqueue(q, Event(k, n), capacity, policy), n + 1, capacity)
<1> DEFINE e == Event(k, n)
           r == Enqueue(q, e, capacity, policy)
           L == Len(q.items)
<1>1. /\ q \in Queues
      /\ q.items \in Seq(Items)
      /\ q.overflow \in Nat
      /\ q.resync \in BOOLEAN
      /\ q.last \in Nat
      /\ q.lost \subseteq Nat
      /\ L \in Nat
      /\ \A i \in 1 .. L : q.items[i] \in Items /\ q.items[i].seq \in Nat
  BY QueueFields DEF QueueInv
<1>2. /\ L <= capacity
      /\ q.last < n
      /\ \A l \in q.lost : l < n
  BY DEF QueueInv, Ordered
<1>3. e \in Items /\ e.kind = k /\ e.seq = n /\ ~IsGap(e)
  BY KindAssumption DEF Event, Items
<1> SUFFICES QueueInv(r, n + 1, capacity)
  OBVIOUS
<1> HIDE DEF e
<1>4. QueueInv(MarkOverflow(q), n + 1, capacity)
  <2> DEFINE s == MarkOverflow(q)
  <2>1. /\ s \in Queues
        /\ s.items = q.items /\ s.resync = q.resync /\ s.last = q.last
        /\ s.lost = q.lost
    BY <1>1 DEF MarkOverflow, Queue, Queues
  <2> HIDE DEF s
  <2>2. QueueInv(s, n, capacity)
    BY <2>1 DEF QueueInv, Ordered, LossIsMarked
  <2> QED
    BY <2>2, LaterSequence DEF s
<1>5. ASSUME L < capacity, NEW s \in Queues,
             s.items = Append(q.items, e), s.resync = q.resync, s.last = q.last,
             s.lost = q.lost
      PROVE  QueueInv(s, n + 1, capacity)
  <2>2. /\ Len(s.items) = L + 1
        /\ \A i \in 1 .. L : s.items[i] = q.items[i]
        /\ s.items[L + 1] = e
    BY <1>1, <1>3, <1>5
  <2>3. Ordered(s, n + 1)
    BY <1>1, <1>2, <1>3, <1>5, <2>2 DEF QueueInv, Ordered
  <2>4. LossIsMarked(s)
    <3> SUFFICES ASSUME NEW l \in q.lost
                 PROVE  q.resync /\ \E j \in 1 .. L + 1 : Tells(s.items, q.last, j, l)
      BY <1>5, <2>2 DEF LossIsMarked
    <3>1. l \in Nat /\ l < n /\ q.resync
      BY <1>1, <1>2 DEF QueueInv, LossIsMarked
    <3>2. PICK j \in 1 .. L : Tells(q.items, q.last, j, l)
      BY DEF QueueInv, LossIsMarked
    <3>5. L + 1 \in Nat /\ s.items[j] = q.items[j] /\ j \in Nat /\ j <= L
      BY <1>1, <2>2
    <3>6. ASSUME NEW i \in 1 .. L + 1, ~IsGap(s.items[i])
          PROVE  (i < j => s.items[i].seq < l) /\ (j < i => l < s.items[i].seq)
      <4>1. CASE i = L + 1
        BY <1>1, <1>3, <2>2, <3>1, <3>5, <4>1
      <4>2. CASE i \in 1 .. L
        BY <2>2, <3>2, <3>6, <4>2 DEF Tells
      <4> QED
        BY <1>1, <4>1, <4>2
    <3>3. Tells(s.items, q.last, j, l)
      BY <2>2, <3>2, <3>5, <3>6 DEF Tells
    <3>4. j \in 1 .. L + 1
      BY <1>1
    <3> QED
      BY <3>1, <3>3, <3>4
  <2>8. \A i \in 1 .. L + 1 : IsGap(s.items[i]) => s.items[i].seq <= s.last
    BY <1>1, <1>3, <1>5, <2>2 DEF QueueInv
  <2>9. \A l \in s.lost : l < n + 1
    BY <1>1, <1>2, <1>5
  <2> QED
    BY <1>1, <1>2, <1>5, <2>2, <2>3, <2>4, <2>8, <2>9 DEF QueueInv
<1>6. ASSUME L = capacity, capacity > 0, ~IsGap(Back(q)),
             NEW item \in Items, NEW s \in Queues,
             s.items = [q.items EXCEPT ![L] = item],
             s.last = q.last,
             \/ /\ ~IsGap(item) /\ item.seq = n
                /\ s.resync = q.resync /\ s.lost = q.lost
             \/ /\ IsGap(item) /\ item.seq = q.last
                /\ s.resync /\ s.lost = q.lost \cup {n, Back(q).seq}
      PROVE  QueueInv(s, n + 1, capacity)
  <2>1. /\ Len(s.items) = L
        /\ s.items[L] = item
        /\ \A i \in 1 .. L : i # L => s.items[i] = q.items[i]
        /\ q.items[L] = Back(q)
        /\ L \in 1 .. L
    BY <1>1, <1>6 DEF Back
  <2>2. /\ q.last < Back(q).seq /\ Back(q).seq < n /\ Back(q).seq \in Nat
        /\ \A i \in 1 .. L : ~IsGap(q.items[i]) /\ i # L => q.items[i].seq < Back(q).seq
    BY <1>1, <1>6, <2>1 DEF QueueInv, Ordered
  <2>3. Ordered(s, n + 1)
    BY <1>1, <1>2, <1>3, <1>6, <2>1, <2>2 DEF QueueInv, Ordered
  <2>4. ASSUME NEW l \in q.lost
        PROVE  q.resync /\ \E j \in 1 .. L : Tells(s.items, q.last, j, l)
    <3>1. l \in Nat /\ l < n /\ q.resync
      BY <1>1, <1>2 DEF QueueInv, LossIsMarked
    <3>2. PICK j \in 1 .. L : Tells(q.items, q.last, j, l)
      BY DEF QueueInv, LossIsMarked
    <3>3. j # L
      BY <1>6, <2>1, <3>2 DEF Tells
    <3>4. ASSUME NEW i \in 1 .. L, ~IsGap(s.items[i])
          PROVE  (i < j => s.items[i].seq < l) /\ (j < i => l < s.items[i].seq)
      <4>1. CASE i = L
        <5>1. ~IsGap(item) /\ s.items[i] = item
          BY <2>1, <3>4, <4>1
        <5>2. s.items[i].seq = n /\ ~(i < j)
          BY <1>1, <1>6, <4>1, <5>1
        <5> QED
          BY <3>1, <5>2
      <4>2. CASE i # L
        <5>1. s.items[i] = q.items[i]
          BY <2>1, <4>2
        <5> QED
          BY <3>2, <3>4, <5>1 DEF Tells
      <4> QED
        BY <4>1, <4>2
    <3>5. Tells(s.items, q.last, j, l)
      BY <2>1, <3>2, <3>3, <3>4 DEF Tells
    <3> QED
      BY <3>1, <3>5
  <2>5. ASSUME IsGap(item), NEW l \in {n, Back(q).seq}
        PROVE  Tells(s.items, q.last, L, l)
    <3>1. l \in Nat /\ q.last < l /\ Back(q).seq <= l
      BY <1>1, <1>2, <2>2
    <3>2. IsGap(s.items[L]) /\ s.items[L].seq <= q.last
      BY <1>1, <1>3, <1>6, <2>1, <2>5
    <3>3. ASSUME NEW i \in 1 .. L, ~IsGap(s.items[i]) PROVE i < L /\ s.items[i].seq < l
      BY <1>1, <2>1, <2>2, <3>1, <3>2, <3>3
    <3> QED
      BY <1>1, <2>1, <3>1, <3>2, <3>3 DEF Tells
  <2>6. LossIsMarked(s)
    BY <1>3, <1>6, <2>1, <2>4, <2>5 DEF LossIsMarked
  <2>11. \A i \in 1 .. L : IsGap(s.items[i]) => s.items[i].seq <= s.last
    BY <1>1, <1>3, <1>6, <2>1 DEF QueueInv
  <2>12. \A l \in s.lost : l < n + 1
    BY <1>1, <1>2, <1>6, <2>2
  <2> QED
    BY <1>1, <1>2, <1>6, <2>1, <2>3, <2>6, <2>11, <2>12 DEF QueueInv
<1>7. ASSUME L = capacity, capacity > 0, IsGap(Back(q)),
             NEW s \in Queues,
             s.items = q.items, s.last = q.last, s.resync,
             s.lost = q.lost \cup {n}
      PROVE  QueueInv(s, n + 1, capacity)
  <2>1. L \in 1 .. L /\ q.items[L].kind = "gap" /\ q.items[L].seq <= q.last
    BY <1>1, <1>7 DEF QueueInv, Back
  <2>2. Tells(s.items, q.last, L, n)
    BY <1>1, <1>2, <1>7, <2>1 DEF Tells, QueueInv, Ordered
  <2>3. Ordered(s, n + 1)
    BY <1>1, <1>2, <1>7 DEF QueueInv, Ordered
  <2>4. LossIsMarked(s)
    BY <1>1, <1>7, <2>1, <2>2 DEF QueueInv, LossIsMarked
  <2>6. \A l \in s.lost : l < n + 1
    BY <1>1, <1>2, <1>7
  <2> QED
    BY <1>1, <1>2, <1>7, <2>3, <2>4, <2>6 DEF QueueInv
<1>8. CASE capacity = 0
  BY <1>4, <1>8 DEF Enqueue
<1>9. CASE capacity > 0 /\ L < capacity
  <2>1. r = WithItems(q, Append(q.items, e))
    BY <1>1, <1>9 DEF Enqueue
  <2>2. Append(q.items, e) \in Seq(Items)
    BY <1>1, <1>3
  <2>3. /\ r \in Queues
        /\ r.items = Append(q.items, e) /\ r.resync = q.resync /\ r.last = q.last
        /\ r.lost = q.lost
    BY <1>1, <2>1, <2>2 DEF WithItems, Queue, Queues
  <2> QED
    BY <1>5, <1>9, <2>3
<1>10. CASE /\ capacity > 0 /\ L = capacity
            /\ policy = "coalesce" /\ k = MotionKind /\ Back(q).kind = MotionKind
  <2>1. r = WithItems(q, ReplaceBack(q, e))
    BY <1>1, <1>3, <1>10 DEF Enqueue
  <2>2. ~IsGap(Back(q))
    BY <1>10, KindAssumption
  <2>3. /\ ReplaceBack(q, e) = [q.items EXCEPT ![L] = e]
        /\ ReplaceBack(q, e) \in Seq(Items)
    BY <1>1, <1>3, <1>10, ExceptSeq DEF ReplaceBack
  <2>4. /\ r \in Queues /\ r.items = [q.items EXCEPT ![L] = e]
        /\ r.last = q.last /\ r.resync = q.resync
        /\ r.lost = q.lost
    BY <1>1, <2>1, <2>3 DEF WithItems, Queue, Queues
  <2> QED
    BY <1>3, <1>6, <1>10, <2>2, <2>4
<1>11. CASE /\ capacity > 0 /\ L = capacity
            /\ ~(policy = "coalesce" /\ k = MotionKind /\ Back(q).kind = MotionKind)
            /\ policy = "neverDrop" \/ k \in NeverDropKinds
  <2>1. r = MarkGap(q, n)
    BY <1>1, <1>3, <1>11 DEF Enqueue
  <2>2. CASE IsGap(Back(q))
    <3>1. r = Queue(q.items, q.overflow + 1, TRUE, q.last, q.lost \cup {n})
      BY <2>1, <2>2 DEF MarkGap
    <3>2. q.overflow + 1 \in Nat /\ q.lost \cup {n} \in SUBSET Nat
      BY <1>1
    <3>3. /\ r \in Queues /\ r.items = q.items
          /\ r.last = q.last /\ r.resync
          /\ r.lost = q.lost \cup {n}
      BY <1>1, <3>1, <3>2 DEF Queue, Queues
    <3> QED
      BY <1>7, <1>11, <2>2, <3>3
  <2>3. CASE ~IsGap(Back(q))
    <3> DEFINE g == Marker(q.last)
    <3>1. /\ Back(q).seq \in Nat
          /\ g \in Items /\ IsGap(g) /\ g.seq = q.last
      BY <1>1, <1>11 DEF Back, Marker, Items
    <3>2. /\ ReplaceBack(q, g) = [q.items EXCEPT ![L] = g]
          /\ ReplaceBack(q, g) \in Seq(Items)
      BY <1>1, <1>11, <3>1, ExceptSeq DEF ReplaceBack
    <3>3. r = Queue(ReplaceBack(q, g), q.overflow + 1, TRUE, q.last,
                    q.lost \cup {n, Back(q).seq})
      BY <2>1, <2>3 DEF MarkGap
    <3>4. q.overflow + 1 \in Nat /\ q.lost \cup {n, Back(q).seq} \in SUBSET Nat
      BY <1>1, <3>1
    <3> HIDE DEF g
    <3>5. /\ r \in Queues /\ r.items = [q.items EXCEPT ![L] = g]
          /\ r.last = q.last /\ r.resync
          /\ r.lost = q.lost \cup {n, Back(q).seq}
      BY <1>1, <3>2, <3>3, <3>4 DEF Queue, Queues
    <3> QED
      BY <1>6, <1>11, <2>3, <3>1, <3>5
  <2> QED
    BY <2>2, <2>3
<1>12. CASE /\ capacity > 0 /\ L = capacity
            /\ ~(policy = "coalesce" /\ k = MotionKind /\ Back(q).kind = MotionKind)
            /\ ~(policy = "neverDrop" \/ k \in NeverDropKinds)
  BY <1>1, <1>3, <1>4, <1>12 DEF Enqueue
<1> QED
  BY <1>1, <1>2, <1>8, <1>9, <1>10, <1>11, <1>12

\* try_pop_item() keeps them, and last_delivered_sequence_ does not move back
\* (event_bus.cpp:176-195).
LEMMA PopInv ==
    ASSUME NEW capacity \in Nat, NEW n \in Nat,
           NEW q, QueueInv(q, n, capacity), q.items # <<>>
    PROVE  /\ QueueInv(TryPopItem(q), n, capacity)
           /\ TryPopItem(q).last >= q.last
<1> DEFINE r == TryPopItem(q)
           L == Len(q.items)
           h == Head(q.items)
<1>1. /\ q \in Queues
      /\ q.items \in Seq(Items)
      /\ q.resync \in BOOLEAN
      /\ q.last \in Nat
      /\ q.lost \subseteq Nat
      /\ L \in Nat
      /\ \A i \in 1 .. L : q.items[i] \in Items /\ q.items[i].seq \in Nat
  BY QueueFields DEF QueueInv
<1>2. /\ h = q.items[1] /\ h \in Items /\ L >= 1 /\ 1 \in 1 .. L
      /\ Tail(q.items) \in Seq(Items)
      /\ Len(Tail(q.items)) = L - 1
      /\ \A i \in 1 .. L - 1 : Tail(q.items)[i] = q.items[i + 1]
  BY <1>1
<1>3. /\ r \in Queues
      /\ r.items = Tail(q.items)
      /\ r.last = IF IsGap(h) THEN q.last ELSE h.seq
      /\ r.resync = q.resync
      /\ r.lost = IF IsGap(h) THEN Untold(q.items, q.last, q.lost) ELSE q.lost
  <2>1. CASE IsGap(h)
    <3> DEFINE g == Untold(q.items, q.last, q.lost)
    <3>1. g \in SUBSET Nat
      BY <1>1 DEF Untold
    <3>2. r = Queue(Tail(q.items), q.overflow, q.resync, q.last, g)
      BY <2>1 DEF TryPopItem
    <3> HIDE DEF g
    <3>3. /\ r \in Queues
          /\ r.items = Tail(q.items) /\ r.last = q.last
          /\ r.resync = q.resync /\ r.lost = g
      BY <1>1, <1>2, <3>1, <3>2 DEF Queue, Queues
    <3> QED
      BY <2>1, <3>3 DEF g
  <2>2. CASE ~IsGap(h)
    <3>1. h.seq \in Nat
      BY <1>1, <1>2
    <3>2. r = Queue(Tail(q.items), q.overflow, q.resync, h.seq, q.lost)
      BY <2>2 DEF TryPopItem
    <3>3. /\ r \in Queues
          /\ r.items = Tail(q.items) /\ r.last = h.seq
          /\ r.resync = q.resync /\ r.lost = q.lost
      BY <1>1, <1>2, <3>1, <3>2 DEF Queue, Queues
    <3> QED
      BY <2>2, <3>3
  <2> QED
    BY <2>1, <2>2
<1> HIDE DEF r, h
<1>4. /\ Len(r.items) = L - 1
      /\ \A i \in 1 .. L - 1 : r.items[i] = q.items[i + 1] /\ i + 1 \in 1 .. L
  BY <1>1, <1>2, <1>3
<1>5. r.last \in Nat /\ q.last <= r.last
  BY <1>1, <1>2, <1>3 DEF QueueInv, Ordered
<1>6. Ordered(r, n)
  BY <1>1, <1>2, <1>3, <1>4, <1>5 DEF QueueInv, Ordered
<1>7. r.lost \subseteq q.lost
  BY <1>3 DEF Untold
<1>8. LossIsMarked(r)
  <2> SUFFICES ASSUME NEW l \in r.lost
               PROVE  r.resync /\ \E j \in 1 .. L - 1 : Tells(r.items, r.last, j, l)
    BY <1>4 DEF LossIsMarked
  <2>1. l \in Nat /\ r.resync
    BY <1>1, <1>3, <1>7 DEF QueueInv, LossIsMarked
  <2>2. PICK j \in 1 .. L : Tells(q.items, q.last, j, l)
    BY <1>7 DEF QueueInv, LossIsMarked
  <2>3. j # 1
    BY <1>2, <1>3, <2>2 DEF Untold, Tells
  <2>4. j - 1 \in 1 .. L - 1 /\ r.items[j - 1] = q.items[j]
    BY <1>1, <1>4, <2>3
  <2>5. /\ IsGap(q.items[j]) /\ q.items[j].seq <= q.last /\ q.last < l
        /\ q.items[j].seq \in Nat
        /\ ~IsGap(h) => h.seq < l
    BY <1>1, <1>2, <2>2, <2>3 DEF Tells
  <2>6. r.last < l /\ q.items[j].seq <= r.last
    BY <1>1, <1>3, <1>5, <2>1, <2>5
  <2>7. ASSUME NEW i \in 1 .. L - 1, ~IsGap(r.items[i])
        PROVE  /\ i < j - 1 => r.items[i].seq < l
               /\ j - 1 < i => l < r.items[i].seq
    BY <1>1, <1>4, <2>2, <2>7 DEF Tells
  <2>8. Tells(r.items, r.last, j - 1, l)
    BY <1>4, <2>4, <2>5, <2>6, <2>7 DEF Tells
  <2> QED
    BY <2>1, <2>4, <2>8
<1>9. \A l \in r.lost : l < n
  BY <1>7 DEF QueueInv
<1>11. ASSUME NEW i \in 1 .. L - 1, IsGap(r.items[i])
       PROVE  r.items[i].seq <= r.last
  <2>1. i + 1 \in 1 .. L /\ r.items[i] = q.items[i + 1]
    BY <1>4
  <2>2. q.items[i + 1].seq <= q.last /\ q.items[i + 1].seq \in Nat
    BY <1>1, <1>11, <2>1 DEF QueueInv
  <2> QED
    BY <1>1, <1>5, <2>1, <2>2
<1>12. L - 1 <= capacity
  BY <1>1 DEF QueueInv
<1>13. QueueInv(r, n, capacity)
  BY <1>3, <1>4, <1>6, <1>8, <1>9, <1>11, <1>12 DEF QueueInv
<1> QED
  BY <1>5, <1>13 DEF r

HIDE DEF IsGap

-----------------------------------------------------------------------------
(* The queue the ring stands for.                                          *)

RingQueue == Queue(RingItems, overflow, resync, last, lost)

\* The operators of the queue that the refinement mapping brings in are those of
\* EventQueue.
LEMMA SameOperators ==
    /\ Abstract!EmptyQueue = EmptyQueue
    /\ \A k, n : Abstract!Event(k, n) = Event(k, n)
    /\ \A x, e, c, p : Abstract!Enqueue(x, e, c, p) = Enqueue(x, e, c, p)
    /\ \A x : Abstract!TryPopItem(x) = TryPopItem(x)
<1> USE DEF Abstract!Queue, Queue, Abstract!Back, Back, Abstract!IsGap, IsGap
<1>1. Abstract!EmptyQueue = EmptyQueue
  BY DEF Abstract!EmptyQueue, EmptyQueue
<1>2. \A k, n : Abstract!Event(k, n) = Event(k, n)
  BY DEF Abstract!Event, Event
<1>3. \A x, n : Abstract!MarkGap(x, n) = MarkGap(x, n)
  BY DEF Abstract!MarkGap, MarkGap, Abstract!ReplaceBack, ReplaceBack, Abstract!Marker, Marker
<1>4. \A x : Abstract!MarkOverflow(x) = MarkOverflow(x)
  BY DEF Abstract!MarkOverflow, MarkOverflow
<1>5. \A x, i : /\ Abstract!WithItems(x, i) = WithItems(x, i)
                /\ Abstract!ReplaceBack(x, i) = ReplaceBack(x, i)
  BY DEF Abstract!WithItems, WithItems, Abstract!ReplaceBack, ReplaceBack
<1>6. \A x, e, c, p : Abstract!Enqueue(x, e, c, p) = Enqueue(x, e, c, p)
  BY <1>3, <1>4, <1>5 DEF Abstract!Enqueue, Enqueue
<1>7. \A x : Abstract!TryPopItem(x) = TryPopItem(x)
  BY DEF Abstract!TryPopItem, TryPopItem, Abstract!Untold, Untold, Abstract!Tells, Tells
<1> QED
  BY <1>1, <1>2, <1>6, <1>7

\* The abstract specification, in terms of RingQueue.
Publishes(k) ==
    /\ nextStamp <= LastStamp
    /\ RingQueue' = Enqueue(RingQueue, Event(k, nextStamp), QueueCapacity, QueuePolicy)
    /\ nextStamp' = nextStamp + 1

Skips == nextStamp <= LastStamp /\ nextStamp' = nextStamp + 1 /\ UNCHANGED RingQueue

Pops == RingItems # <<>> /\ RingQueue' = TryPopItem(RingQueue) /\ UNCHANGED nextStamp

LEMMA AbstractSteps ==
    /\ Abstract!Init <=> RingQueue = EmptyQueue /\ nextStamp = 1
    /\ Abstract!Next <=> (\E k \in Kinds : Publishes(k)) \/ Skips \/ Pops
    /\ (UNCHANGED Abstract!vars) <=> UNCHANGED <<RingQueue, nextStamp>>
<1>1. Abstract!Init <=> RingQueue = EmptyQueue /\ nextStamp = 1
  BY SameOperators DEF Abstract!Init, RingQueue, Queue
<1>2. \A k : Abstract!Publish(k) <=> Publishes(k)
  BY SameOperators DEF Abstract!Publish, Publishes, RingQueue, Queue
<1>3. Abstract!PublishElsewhere <=> Skips
  BY DEF Abstract!PublishElsewhere, Skips, RingQueue, Queue
<1>4. Abstract!Pop <=> Pops
  BY SameOperators DEF Abstract!Pop, Pops, RingQueue, Queue
<1>5. (UNCHANGED Abstract!vars) <=> UNCHANGED <<RingQueue, nextStamp>>
  BY DEF Abstract!vars, RingQueue, Queue
<1> QED
  BY <1>1, <1>2, <1>3, <1>4, <1>5 DEF Abstract!Next

-----------------------------------------------------------------------------
(* The promises of the queue.                                              *)

RingInv == QueueInv(RingQueue, nextStamp, QueueCapacity) /\ nextStamp \in Nat \ {0}

LEMMA InitRingInv == Abstract!Init => RingInv
  BY QueueAssumption, AbstractSteps, EmptyQueueInv DEF RingInv

\* Every step keeps the promises, and no step moves last_delivered_sequence_
\* back.
LEMMA StepRingInv ==
    RingInv /\ [Abstract!Next]_(Abstract!vars) => RingInv' /\ RingQueue'.last >= RingQueue.last
<1> SUFFICES ASSUME RingInv, [Abstract!Next]_(Abstract!vars)
             PROVE  RingInv' /\ RingQueue'.last >= RingQueue.last
  OBVIOUS
<1> USE QueueAssumption
<1>1. /\ nextStamp \in Nat \ {0}
      /\ QueueInv(RingQueue, nextStamp, QueueCapacity)
      /\ RingQueue \in Queues
      /\ RingQueue.last \in Nat
      /\ RingQueue.items = RingItems
  BY QueueFields DEF RingInv, QueueInv, RingQueue, Queue
<1>2. ASSUME NEW k \in Kinds, Publishes(k)
      PROVE  RingInv' /\ RingQueue'.last >= RingQueue.last
  <2>1. QueueInv(RingQueue', nextStamp', QueueCapacity)
    BY <1>1, <1>2, EnqueueInv DEF Publishes
  <2>2. RingQueue'.last = RingQueue.last
    BY <1>1, <1>2 DEF Publishes, Enqueue, MarkOverflow, MarkGap, WithItems, Queue
  <2> QED
    BY <1>1, <1>2, <2>1, <2>2 DEF RingInv, Publishes
<1>3. CASE Skips
  <2>1. QueueInv(RingQueue', nextStamp', QueueCapacity)
    BY <1>1, <1>3, LaterSequence DEF Skips
  <2> QED
    BY <1>1, <1>3, <2>1 DEF RingInv, Skips
<1>4. CASE Pops
  BY <1>1, <1>4, PopInv DEF RingInv, Pops
<1>5. CASE UNCHANGED <<RingQueue, nextStamp>>
  BY <1>1, <1>5 DEF RingInv
<1> QED
  BY <1>2, <1>3, <1>4, <1>5, AbstractSteps

\* The inductive invariant of the queue: items, marker and last delivery are in
\* publication order (event_bus.cpp:115-195).
THEOREM QueueInvariance == Abstract!Spec => []RingInv
  BY InitRingInv, StepRingInv, PTL DEF Abstract!Spec

\* The promises the mapping brings in are those of EventQueue.
LEMMA SamePromises ==
    /\ Abstract!InOrder <=> Ordered(RingQueue, nextStamp)
    /\ Abstract!EveryLossMarked <=> LossIsMarked(RingQueue)
<1> USE DEF Abstract!IsGap, IsGap
<1>1. \A x, n : Abstract!Ordered(x, n) <=> Ordered(x, n)
  BY DEF Abstract!Ordered, Ordered
<1>2. \A x, l, i, n : Abstract!Tells(x, l, i, n) <=> Tells(x, l, i, n)
  BY DEF Abstract!Tells, Tells
<1>3. \A x : Abstract!LossIsMarked(x) <=> LossIsMarked(x)
  BY <1>2 DEF Abstract!LossIsMarked, LossIsMarked
<1>5. Abstract!InOrder <=> Ordered(RingQueue, nextStamp)
  BY <1>1 DEF Abstract!InOrder, RingQueue, Queue
<1>6. Abstract!EveryLossMarked <=> LossIsMarked(RingQueue)
  BY <1>3 DEF Abstract!EveryLossMarked, RingQueue, Queue
<1> QED
  BY <1>5, <1>6

\* Queued events stay in publication order (event_bus.cpp:115-162).
THEOREM QueueInOrder == Abstract!Spec => []Abstract!InOrder
<1>1. RingInv => Abstract!InOrder
  BY SamePromises DEF RingInv, QueueInv
<1> QED
  BY <1>1, QueueInvariance, PTL

\* The buffer stays within its capacity (event_bus.cpp:128).
THEOREM QueueBounded == Abstract!Spec => []Abstract!Bounded
<1>1. RingInv => Abstract!Bounded
  BY DEF RingInv, QueueInv, RingQueue, Queue, Abstract!Bounded
<1> QED
  BY <1>1, QueueInvariance, PTL

\* Every event lost from a queue that may not drop it has a marker at its place: between
\* what was published before it and what was published after (event_bus.cpp:262-281).
THEOREM QueueLossMarked == Abstract!Spec => []Abstract!EveryLossMarked
<1>1. RingInv => Abstract!EveryLossMarked
  BY SamePromises DEF RingInv, QueueInv
<1> QED
  BY <1>1, QueueInvariance, PTL

\* last_delivered_sequence_ never moves back (event_bus.cpp:190-193).
THEOREM QueueDeliveryAdvances == Abstract!Spec => Abstract!DeliveryAdvances
<1>1. RingInv /\ [Abstract!Next]_(Abstract!vars) => RingQueue'.last >= RingQueue.last
  BY StepRingInv
<1>2. RingQueue'.last >= RingQueue.last
        => [([items |-> RingItems, overflow |-> overflow, resync |-> resync,
              last |-> last, lost |-> lost]').last
             >= [items |-> RingItems, overflow |-> overflow, resync |-> resync,
                 last |-> last, lost |-> lost].last]_(Abstract!vars)
  BY DEF RingQueue, Queue
<1> QED
  BY <1>1, <1>2, QueueInvariance, PTL DEF Abstract!Spec, Abstract!DeliveryAdvances

-----------------------------------------------------------------------------
(* The ring implements the queue.                                          *)

\* The slot of the i-th item of a ring whose oldest item is at h, and the items
\* of one that holds n.
SlotOf(h, i)     == (h + i - 1) % QueueCapacity
ItemsOf(b, h, n) == [i \in 1 .. n |-> b[SlotOf(h, i)]]

\* Slot x of ring b is overwritten.
Writes(b, x, e, c) == c = [b EXCEPT ![x] = e]

Rings(b, h, n) == b \in [Slots -> Items] /\ h \in Slots \cup {0} /\ n \in 0 .. QueueCapacity

\* As far as items go, indices wrap at most once.
LEMMA Wrap ==
    ASSUME NEW c \in Nat \ {0}, NEW x \in Nat, x < c + c
    PROVE  x % c = IF x < c THEN x ELSE x - c
  OBVIOUS

\* Where the items of a full ring are: the slot after the last wraps to the first.
LEMMA SlotValue ==
    ASSUME QueueCapacity > 0, NEW h \in Slots, NEW i \in 1 .. QueueCapacity
    PROVE  SlotOf(h, i) = IF h + i - 1 < QueueCapacity THEN h + i - 1 ELSE h + i - 1 - QueueCapacity
<1>1. QueueCapacity \in Nat \ {0} /\ h \in Nat /\ h < QueueCapacity
  BY QueueAssumption DEF Slots
<1>2. h + i - 1 \in Nat /\ h + i - 1 < QueueCapacity + QueueCapacity
  BY <1>1
<1> QED
  BY <1>1, <1>2, Wrap DEF SlotOf

\* Different items are in different slots, and taking the oldest shifts the rest.
LEMMA SlotsApart ==
    ASSUME QueueCapacity > 0, NEW h \in Slots
    PROVE  /\ \A i \in 1 .. QueueCapacity : SlotOf(h, i) \in Slots
           /\ \A i, j \in 1 .. QueueCapacity : i # j => SlotOf(h, i) # SlotOf(h, j)
           /\ SlotOf(h, 1) = h
           /\ NextIndex(h) \in Slots
           /\ \A i \in 1 .. QueueCapacity - 1 : SlotOf(NextIndex(h), i) = SlotOf(h, i + 1)
<1>1. QueueCapacity \in Nat \ {0} /\ h \in 0 .. QueueCapacity - 1
  BY QueueAssumption DEF Slots
<1>2. /\ \A i \in 1 .. QueueCapacity : SlotOf(h, i) \in Slots
      /\ \A i, j \in 1 .. QueueCapacity : i # j => SlotOf(h, i) # SlotOf(h, j)
      /\ SlotOf(h, 1) = h
  BY <1>1, SlotValue DEF Slots
<1>3. NextIndex(h) = IF h + 1 < QueueCapacity THEN h + 1 ELSE h + 1 - QueueCapacity
  <2>1. h + 1 \in Nat /\ h + 1 < QueueCapacity + QueueCapacity
    BY <1>1
  <2> QED
    BY <1>1, <2>1, Wrap DEF NextIndex
<1>4. NextIndex(h) \in Slots
  BY <1>1, <1>3 DEF Slots
<1>5. \A i \in 1 .. QueueCapacity - 1 : SlotOf(NextIndex(h), i) = SlotOf(h, i + 1)
  <2> TAKE i \in 1 .. QueueCapacity - 1
  <2>1. i \in 1 .. QueueCapacity /\ i + 1 \in 1 .. QueueCapacity
    BY <1>1
  <2>2. SlotOf(h, i + 1) = IF h + i < QueueCapacity THEN h + i ELSE h + i - QueueCapacity
    BY <1>1, <2>1, SlotValue
  <2>3. SlotOf(NextIndex(h), i) = IF NextIndex(h) + i - 1 < QueueCapacity
                                  THEN NextIndex(h) + i - 1
                                  ELSE NextIndex(h) + i - 1 - QueueCapacity
    BY <1>4, <2>1, SlotValue
  <2> QED
    BY <1>1, <1>3, <2>1, <2>2, <2>3
<1> QED
  BY <1>2, <1>4, <1>5

\* A sequence written down item by item.
LEMMA SlotSeq ==
    ASSUME NEW n \in Nat, NEW f \in [1 .. n -> Items]
    PROVE  f \in Seq(Items) /\ Len(f) = n
  OBVIOUS

\* The items of a ring.
LEMMA RingSeq ==
    ASSUME NEW b, NEW h, NEW n, Rings(b, h, n)
    PROVE  /\ ItemsOf(b, h, n) \in Seq(Items) /\ Len(ItemsOf(b, h, n)) = n
           /\ \A i \in 1 .. n : ItemsOf(b, h, n)[i] = b[SlotOf(h, i)]
<1>1. n \in Nat /\ QueueCapacity \in Nat /\ n <= QueueCapacity /\ b \in [Slots -> Items]
  BY QueueAssumption DEF Rings
<1>2. \A i \in 1 .. n : SlotOf(h, i) \in Slots
  <2>1. CASE QueueCapacity = 0
    BY <1>1, <2>1
  <2>2. CASE QueueCapacity > 0
    <3>1. h \in Slots
      BY <1>1, <2>2 DEF Rings, Slots
    <3> QED
      BY <1>1, <2>2, <3>1, SlotsApart
  <2> QED
    BY <1>1, <2>1, <2>2
<1>3. ItemsOf(b, h, n) \in [1 .. n -> Items]
  BY <1>1, <1>2 DEF ItemsOf
<1> QED
  BY <1>1, <1>3, SlotSeq DEF ItemsOf

\* Writing to the tail slot appends (event_bus.cpp:128-133).
LEMMA WriteTail ==
    ASSUME NEW b, NEW h, NEW n, Rings(b, h, n), n < QueueCapacity, NEW e \in Items,
           NEW c, Writes(b, SlotOf(h, n + 1), e, c)
    PROVE  /\ Rings(c, h, n + 1)
           /\ ItemsOf(c, h, n + 1) = Append(ItemsOf(b, h, n), e)
<1>1. /\ QueueCapacity \in Nat \ {0} /\ h \in Slots /\ n \in Nat
      /\ b \in [Slots -> Items] /\ n + 1 \in 1 .. QueueCapacity
  BY QueueAssumption DEF Rings, Slots
<1>2. SlotOf(h, n + 1) \in Slots /\ \A i \in 1 .. n : SlotOf(h, i) # SlotOf(h, n + 1)
  BY <1>1, SlotsApart
<1>3. Rings(c, h, n + 1)
  BY <1>1, <1>2 DEF Rings, Writes
<1>4. /\ c[SlotOf(h, n + 1)] = e
      /\ \A i \in 1 .. n : c[SlotOf(h, i)] = b[SlotOf(h, i)]
  <2>1. \A i \in 1 .. n : SlotOf(h, i) \in Slots
    BY <1>1, SlotsApart
  <2> QED
    BY <1>1, <1>2, <2>1 DEF Writes
<1> DEFINE x == ItemsOf(b, h, n)
           y == ItemsOf(c, h, n + 1)
<1>5. /\ x \in Seq(Items) /\ Len(x) = n /\ \A i \in 1 .. n : x[i] = b[SlotOf(h, i)]
      /\ y \in Seq(Items) /\ Len(y) = n + 1 /\ \A i \in 1 .. n + 1 : y[i] = c[SlotOf(h, i)]
  BY <1>3, RingSeq
<1> HIDE DEF x, y
<1>6. y = Append(x, e)
  <2>1. /\ Append(x, e) \in Seq(Items) /\ Len(Append(x, e)) = n + 1
        /\ \A i \in 1 .. n : Append(x, e)[i] = x[i]
        /\ Append(x, e)[n + 1] = e
    BY <1>1, <1>5
  <2>2. \A i \in 1 .. n + 1 : y[i] = Append(x, e)[i]
    BY <1>1, <1>4, <1>5, <2>1
  <2> QED
    BY <1>1, <1>5, <2>1, <2>2, SeqEqual
<1> QED
  BY <1>3, <1>6 DEF x, y

\* Writing to the back slot overwrites the newest item (event_bus.cpp:141, 276).
LEMMA WriteBack ==
    ASSUME NEW b, NEW h, NEW n, Rings(b, h, n), n > 0, NEW e \in Items,
           NEW c, Writes(b, SlotOf(h, n), e, c)
    PROVE  /\ Rings(c, h, n)
           /\ ItemsOf(c, h, n) = [ItemsOf(b, h, n) EXCEPT ![n] = e]
<1>1. /\ QueueCapacity \in Nat \ {0} /\ h \in Slots /\ n \in 1 .. QueueCapacity
      /\ b \in [Slots -> Items]
  BY QueueAssumption DEF Rings, Slots
<1>2. /\ SlotOf(h, n) \in Slots
      /\ \A i \in 1 .. n : SlotOf(h, i) \in Slots /\ (i # n => SlotOf(h, i) # SlotOf(h, n))
  BY <1>1, SlotsApart
<1>3. Rings(c, h, n)
  BY <1>1, <1>2 DEF Rings, Writes
<1>4. /\ c[SlotOf(h, n)] = e
      /\ \A i \in 1 .. n : i # n => c[SlotOf(h, i)] = b[SlotOf(h, i)]
  BY <1>1, <1>2 DEF Writes
<1>5. ItemsOf(c, h, n) = [ItemsOf(b, h, n) EXCEPT ![n] = e]
  BY <1>1, <1>4 DEF ItemsOf
<1> QED
  BY <1>3, <1>5

\* Clearing the head slot and moving on takes the oldest item
\* (event_bus.cpp:234-253).
LEMMA TakeHead ==
    ASSUME NEW b, NEW h, NEW n, Rings(b, h, n), n > 0, NEW e \in Items,
           NEW c, Writes(b, h, e, c)
    PROVE  /\ Rings(c, NextIndex(h), n - 1)
           /\ ItemsOf(c, NextIndex(h), n - 1) = Tail(ItemsOf(b, h, n))
           /\ Head(ItemsOf(b, h, n)) = b[h]
<1>1. /\ QueueCapacity \in Nat \ {0} /\ h \in Slots /\ n \in 1 .. QueueCapacity /\ n - 1 \in Nat
      /\ b \in [Slots -> Items]
  BY QueueAssumption DEF Rings, Slots
<1>2. /\ SlotOf(h, 1) = h /\ NextIndex(h) \in Slots
      /\ \A i \in 1 .. n - 1 : /\ SlotOf(NextIndex(h), i) = SlotOf(h, i + 1)
                               /\ SlotOf(h, i + 1) \in Slots /\ SlotOf(h, i + 1) # h
  <2>1. \A i \in 1 .. n - 1 : i + 1 \in 1 .. QueueCapacity /\ i + 1 # 1 /\ i \in 1 .. QueueCapacity - 1
    BY <1>1
  <2>2. 1 \in 1 .. QueueCapacity
    BY <1>1
  <2> QED
    BY <1>1, <2>1, <2>2, SlotsApart
<1>3. Rings(c, NextIndex(h), n - 1)
  BY <1>1, <1>2 DEF Rings, Writes
<1>4. \A i \in 1 .. n - 1 : c[SlotOf(NextIndex(h), i)] = b[SlotOf(h, i + 1)]
  BY <1>1, <1>2 DEF Writes
<1> DEFINE x == ItemsOf(b, h, n)
           y == ItemsOf(c, NextIndex(h), n - 1)
<1>5. /\ x \in Seq(Items) /\ Len(x) = n /\ \A i \in 1 .. n : x[i] = b[SlotOf(h, i)]
      /\ y \in Seq(Items) /\ Len(y) = n - 1
      /\ \A i \in 1 .. n - 1 : y[i] = c[SlotOf(NextIndex(h), i)]
  BY <1>3, RingSeq
<1> HIDE DEF x, y
<1>6. /\ Tail(x) \in Seq(Items) /\ Len(Tail(x)) = n - 1
      /\ \A i \in 1 .. n - 1 : Tail(x)[i] = x[i + 1] /\ i + 1 \in 1 .. n
      /\ Head(x) = x[1]
  BY <1>1, <1>5
<1>7. \A i \in 1 .. n - 1 : y[i] = Tail(x)[i]
  BY <1>1, <1>4, <1>5, <1>6
<1>8. y = Tail(x)
  BY <1>1, <1>5, <1>6, <1>7, SeqEqual
<1>9. Head(x) = b[h]
  BY <1>1, <1>2, <1>5, <1>6
<1> QED
  BY <1>3, <1>8, <1>9 DEF x, y

\* The state of the program's ring, and the queue it stands for.
LEMMA RingState ==
    ASSUME RingTypeOK
    PROVE  /\ Rings(buffer, head, size)
           /\ RingItems = ItemsOf(buffer, head, size)
           /\ RingItems \in Seq(Items) /\ Len(RingItems) = size
           /\ size > 0 => /\ BackIndex = SlotOf(head, size)
                          /\ Back(RingQueue) = buffer[BackIndex]
                          /\ buffer[BackIndex] \in Items
           /\ size < QueueCapacity => TailIndex = SlotOf(head, size + 1)
<1>1. Rings(buffer, head, size) /\ size \in Nat
  BY QueueAssumption DEF RingTypeOK, Rings
<1>2. RingItems = ItemsOf(buffer, head, size)
  BY DEF RingItems, ItemsOf, SlotOf
<1>3. /\ RingItems \in Seq(Items) /\ Len(RingItems) = size
      /\ \A i \in 1 .. size : RingItems[i] = buffer[SlotOf(head, i)]
  BY <1>1, <1>2, RingSeq
<1>4. BackIndex = SlotOf(head, size)
  BY DEF BackIndex, SlotOf
<1>5. RingQueue.items = RingItems
  BY DEF RingQueue, Queue
<1>6. ASSUME size > 0
      PROVE  Back(RingQueue) = buffer[BackIndex] /\ buffer[BackIndex] \in Items
  <2>1. size \in 1 .. size
    BY <1>1, <1>6
  <2>2. RingItems[size] \in Items
    BY <1>3, <2>1
  <2> QED
    BY <1>3, <1>4, <1>5, <2>1, <2>2 DEF Back
<1>7. TailIndex = SlotOf(head, size + 1)
  <2>1. head + (size + 1) - 1 = head + size
    BY <1>1, QueueAssumption DEF Rings, Slots
  <2> QED
    BY <2>1 DEF TailIndex, SlotOf
<1> QED
  BY <1>1, <1>2, <1>3, <1>4, <1>6, <1>7

\* The queue the ring stands for after a step.
LEMMA NextQueue ==
    RingQueue' = Queue(ItemsOf(buffer', head', size'), overflow', resync', last', lost')
  BY DEF RingQueue, RingItems, ItemsOf, SlotOf, Queue

\* enqueue() on the ring is enqueue() on the queue, outcome by outcome
\* (event_bus.cpp:115-162).
LEMMA EnqueueStep ==
    ASSUME RingTypeOK, NEW k \in Kinds, RingEnqueue(k)
    PROVE  RingTypeOK' /\ Publishes(k)
<1> DEFINE e == Event(k, nextStamp)
<1>1. /\ nextStamp <= LastStamp
      /\ nextStamp \in Nat /\ overflow \in Nat /\ resync \in BOOLEAN /\ last \in Nat
      /\ QueueCapacity \in Nat /\ size \in 0 .. QueueCapacity
      /\ nextStamp' = nextStamp + 1
      /\ head' = head /\ last' = last
  BY QueueAssumption DEF RingTypeOK, RingEnqueue
<1>2. e \in Items /\ e.kind = k /\ e.seq = nextStamp
  BY <1>1 DEF Event, Items
<1>3. Store(e) \/ Coalesce(e) \/ LeaveGap(e) \/ Drop(e)
  BY DEF RingEnqueue
<1> HIDE DEF e
<1>4. /\ RingQueue.items = RingItems /\ RingQueue.overflow = overflow
      /\ RingQueue.resync = resync /\ RingQueue.last = last
      /\ RingQueue.lost = lost
  BY DEF RingQueue, Queue
<1> SUFFICES /\ Rings(buffer', head', size') /\ overflow' \in Nat /\ resync' \in BOOLEAN
             /\ RingQueue' = Enqueue(RingQueue, e, QueueCapacity, QueuePolicy)
  BY <1>1 DEF RingTypeOK, Rings, Publishes, e
<1>5. CASE Store(e)
  <2>1. /\ size < QueueCapacity /\ size' = size + 1
        /\ Writes(buffer, SlotOf(head, size + 1), e, buffer')
        /\ overflow' = overflow /\ resync' = resync /\ lost' = lost
    BY <1>5, RingState DEF Store, Writes
  <2>2. /\ Rings(buffer', head', size')
        /\ ItemsOf(buffer', head', size') = Append(RingItems, e)
    <3>1. Rings(buffer, head, size) /\ RingItems = ItemsOf(buffer, head, size)
      BY RingState
    <3>2. /\ Rings(buffer', head, size + 1)
          /\ ItemsOf(buffer', head, size + 1) = Append(ItemsOf(buffer, head, size), e)
      BY <1>2, <2>1, <3>1, WriteTail
    <3> QED
      BY <1>1, <2>1, <3>1, <3>2
  <2>3. Enqueue(RingQueue, e, QueueCapacity, QueuePolicy) = WithItems(RingQueue, Append(RingItems, e))
    BY <1>1, <1>4, <2>1, RingState DEF Enqueue
  <2> QED
    BY <1>1, <1>4, <2>1, <2>2, <2>3, NextQueue DEF WithItems
<1>6. ASSUME size = QueueCapacity, QueueCapacity > 0
      PROVE  /\ Back(RingQueue) = buffer[BackIndex] /\ BackIndex = SlotOf(head, size)
             /\ Coalesces(e) <=> /\ QueuePolicy = "coalesce" /\ e.kind = MotionKind
                                 /\ Back(RingQueue).kind = MotionKind
             /\ ~(Len(RingQueue.items) < QueueCapacity)
             /\ size > 0 /\ QueueCapacity # 0 /\ Len(RingQueue.items) = size
  BY <1>1, <1>4, <1>6, RingState DEF Coalesces
<1>7. CASE Coalesce(e)
  <2>1. /\ size = QueueCapacity /\ QueueCapacity > 0 /\ Coalesces(e) /\ size' = size
        /\ Writes(buffer, SlotOf(head, size), e, buffer')
        /\ overflow' = overflow /\ resync' = resync /\ lost' = lost
    BY <1>6, <1>7 DEF Coalesce, Writes
  <2>2. /\ Rings(buffer', head', size')
        /\ ItemsOf(buffer', head', size') = [RingItems EXCEPT ![size] = e]
    BY <1>1, <1>2, <1>6, <2>1, RingState, WriteBack
  <2>3. Enqueue(RingQueue, e, QueueCapacity, QueuePolicy)
          = WithItems(RingQueue, [RingItems EXCEPT ![size] = e])
    BY <1>4, <1>6, <2>1 DEF Enqueue, ReplaceBack
  <2> QED
    BY <1>1, <1>4, <2>1, <2>2, <2>3, NextQueue DEF WithItems
<1>8. CASE LeaveGap(e)
  <2>1. /\ size = QueueCapacity /\ QueueCapacity > 0 /\ ~Coalesces(e) /\ MustNotDrop(e)
        /\ size' = size /\ overflow' = overflow + 1 /\ resync' = TRUE
    BY <1>8 DEF LeaveGap, Overfull
  <2>2. Enqueue(RingQueue, e, QueueCapacity, QueuePolicy) = MarkGap(RingQueue, e.seq)
    BY <1>6, <2>1 DEF Enqueue, MustNotDrop
  <2>3. CASE IsGap(Back(RingQueue))
    <3>1. lost' = lost \cup {e.seq} /\ buffer' = buffer
      BY <1>6, <1>8, <2>1, <2>3 DEF LeaveGap
    <3>2. Rings(buffer', head', size') /\ ItemsOf(buffer', head', size') = RingItems
      BY <1>1, <2>1, <3>1, RingState
    <3> QED
      BY <1>1, <1>4, <2>1, <2>2, <2>3, <3>1, <3>2, NextQueue DEF MarkGap
  <2>4. CASE ~IsGap(Back(RingQueue))
    <3>1. /\ lost' = lost \cup {e.seq, Back(RingQueue).seq}
          /\ Writes(buffer, SlotOf(head, size), Marker(last), buffer')
      BY <1>6, <1>8, <2>1, <2>4 DEF LeaveGap, Writes
    <3>2. Marker(last) \in Items
      BY <1>1 DEF Marker, Items
    <3>3. /\ Rings(buffer', head', size')
          /\ ItemsOf(buffer', head', size') = [RingItems EXCEPT ![size] = Marker(last)]
      BY <1>1, <1>6, <2>1, <3>1, <3>2, RingState, WriteBack
    <3>4. ReplaceBack(RingQueue, Marker(last)) = [RingItems EXCEPT ![size] = Marker(last)]
      BY <1>4, <1>6, <2>1 DEF ReplaceBack
    <3> QED
      BY <1>1, <1>4, <2>1, <2>2, <2>4, <3>1, <3>3, <3>4, NextQueue DEF MarkGap
  <2> QED
    BY <2>3, <2>4
<1>9. CASE Drop(e)
  <2>1. /\ buffer' = buffer /\ size' = size /\ overflow' = overflow + 1
        /\ resync' = resync /\ lost' = lost
        /\ size = QueueCapacity
        /\ QueueCapacity > 0 => ~Coalesces(e) /\ ~MustNotDrop(e)
    BY <1>9 DEF Drop
  <2>2. Rings(buffer', head', size') /\ ItemsOf(buffer', head', size') = RingItems
    BY <1>1, <2>1, RingState
  <2>3. Enqueue(RingQueue, e, QueueCapacity, QueuePolicy) = MarkOverflow(RingQueue)
    BY <1>1, <1>6, <2>1 DEF Enqueue, MustNotDrop
  <2> QED
    BY <1>1, <1>4, <2>1, <2>2, <2>3, NextQueue DEF MarkOverflow
<1> QED
  BY <1>3, <1>5, <1>7, <1>8, <1>9

\* try_pop_item() on the ring is try_pop_item() on the queue
\* (event_bus.cpp:176-195).
LEMMA PopStep ==
    ASSUME RingTypeOK, RingPop
    PROVE  RingTypeOK' /\ Pops
<1>1. /\ QueueCapacity \in Nat /\ size \in 0 .. QueueCapacity /\ size > 0
      /\ Writes(buffer, head, Cleared, buffer')
      /\ head' = NextIndex(head) /\ size' = size - 1
      /\ overflow' = overflow /\ resync' = resync
      /\ nextStamp' = nextStamp
      /\ overflow \in Nat /\ resync \in BOOLEAN /\ last \in Nat /\ nextStamp \in Nat
  BY QueueAssumption DEF RingTypeOK, RingPop, counters, Writes
<1>2. Cleared \in Items
  BY KindAssumption DEF Cleared, Event, Items
<1>3. /\ Rings(buffer', head', size')
      /\ ItemsOf(buffer', head', size') = Tail(RingItems)
      /\ Head(RingItems) = buffer[head]
  BY <1>1, <1>2, RingState, TakeHead
<1>4. RingItems # <<>> /\ Head(RingItems) \in Items
  BY <1>1, RingState
<1>5. /\ RingQueue.items = RingItems /\ RingQueue.overflow = overflow
      /\ RingQueue.resync = resync /\ RingQueue.last = last
      /\ RingQueue.lost = lost
  BY DEF RingQueue, Queue
<1>6. CASE IsGap(Head(RingItems))
  <2>1. lost' = Untold(RingItems, last, lost) /\ last' = last
    BY <1>3, <1>6 DEF RingPop
  <2>2. RingQueue' = TryPopItem(RingQueue)
    BY <1>1, <1>3, <1>5, <1>6, <2>1, NextQueue DEF TryPopItem
  <2> QED
    BY <1>1, <1>3, <1>4, <2>1, <2>2 DEF RingTypeOK, Rings, Pops
<1>7. CASE ~IsGap(Head(RingItems))
  <2>1. last' = Head(RingItems).seq /\ lost' = lost
    BY <1>3, <1>7 DEF RingPop
  <2>2. RingQueue' = TryPopItem(RingQueue)
    BY <1>1, <1>3, <1>5, <1>7, <2>1, NextQueue DEF TryPopItem
  <2>3. last' \in Nat
    BY <1>4, <2>1 DEF Items
  <2> QED
    BY <1>1, <1>3, <1>4, <2>2, <2>3 DEF RingTypeOK, Rings, Pops
<1> QED
  BY <1>6, <1>7

\* Every step of the ring is one of the queue.
LEMMA RingStep ==
    RingTypeOK /\ [RingNext]_ringVars => RingTypeOK' /\ [Abstract!Next]_(Abstract!vars)
<1> SUFFICES ASSUME RingTypeOK, [RingNext]_ringVars
             PROVE  /\ RingTypeOK'
                    /\ \/ (\E k \in Kinds : Publishes(k)) \/ Skips \/ Pops
                       \/ UNCHANGED <<RingQueue, nextStamp>>
  BY AbstractSteps
<1>1. ASSUME NEW k \in Kinds, RingEnqueue(k) PROVE RingTypeOK' /\ Publishes(k)
  BY <1>1, EnqueueStep
<1>2. CASE Elsewhere
  <2>1. /\ buffer' = buffer /\ head' = head /\ size' = size /\ last' = last
        /\ overflow' = overflow /\ resync' = resync /\ lost' = lost
        /\ nextStamp <= LastStamp /\ nextStamp' = nextStamp + 1
    BY <1>2 DEF Elsewhere, counters
  <2>2. RingTypeOK'
    BY <2>1 DEF RingTypeOK
  <2>3. RingQueue' = RingQueue
    BY <2>1, RingState, NextQueue DEF RingQueue
  <2> QED
    BY <2>1, <2>2, <2>3 DEF Skips
<1>3. CASE RingPop
  BY <1>3, PopStep
<1>4. CASE UNCHANGED ringVars
  <2>1. /\ buffer' = buffer /\ head' = head /\ size' = size /\ last' = last
        /\ overflow' = overflow /\ resync' = resync /\ lost' = lost
        /\ nextStamp' = nextStamp
    BY <1>4 DEF ringVars
  <2>2. RingTypeOK'
    BY <2>1 DEF RingTypeOK
  <2>3. RingQueue' = RingQueue
    BY <2>1, RingState, NextQueue DEF RingQueue
  <2> QED
    BY <2>1, <2>2, <2>3
<1> QED
  BY <1>1, <1>2, <1>3, <1>4 DEF RingNext

\* An empty ring is an empty queue.
LEMMA RingInitially == RingInit => RingTypeOK /\ Abstract!Init
<1> SUFFICES ASSUME RingInit PROVE RingTypeOK /\ Abstract!Init
  OBVIOUS
<1>1. Cleared \in Items
  BY KindAssumption DEF Cleared, Event, Items
<1>2. RingTypeOK
  <2>1. buffer \in [Slots -> Items]
    BY <1>1 DEF RingInit
  <2>2. QueueCapacity \in Nat /\ 0 \in 0 .. QueueCapacity /\ 1 \in Nat
    BY QueueAssumption
  <2> QED
    BY <2>1, <2>2 DEF RingInit, RingTypeOK
<1>3. RingItems = <<>>
  <2>1. RingItems \in Seq(Items) /\ Len(RingItems) = 0
    BY <1>2, RingState DEF RingInit
  <2> QED
    BY <2>1
<1>4. RingQueue = EmptyQueue
  BY <1>3 DEF RingQueue, EmptyQueue, RingInit
<1> QED
  BY <1>2, <1>4, AbstractSteps DEF RingInit

\* The ring buffer implements the queue: the modulo arithmetic of tail_index(),
\* back_index() and next_index() never reaches a slot that holds another item
\* (event_bus.cpp:115-195, 234-253).
THEOREM RingImplementsQueue == RingSpec => RingIsQueue
  BY RingInitially, RingStep, PTL DEF RingSpec, RingIsQueue, Abstract!Spec

\* So what the queue promises its reader holds of the ring's content
\* (event_bus.cpp:262-281).
THEOREM RingLossAccounted == RingSpec => []LossAccounted
<1>1. Abstract!InOrder /\ Abstract!EveryLossMarked => LossAccounted
  BY DEF LossAccounted
<1> QED
  BY <1>1, RingImplementsQueue, QueueInOrder, QueueLossMarked, PTL DEF RingIsQueue

-----------------------------------------------------------------------------
(* The queues of a bus.                                                    *)

BusQueuesInv ==
    /\ nextSequence \in Nat \ {0}
    /\ queue \in [Subscribers -> Queues]
    /\ \A s \in Subscribers : QueueInv(queue[s], nextSequence, Capacity[s])

LEMMA QueueInvType ==
    ASSUME NEW q, NEW n, NEW c, QueueInv(q, n, c)
    PROVE  q \in Queues
  BY DEF QueueInv

LEMMA BusQueuesInit == Init => BusQueuesInv
<1> SUFFICES ASSUME Init PROVE BusQueuesInv
  OBVIOUS
<1>1. \A s \in Subscribers : queue[s] = EmptyQueue /\ Capacity[s] \in Nat
  BY BusAssumption DEF Init
<1>2. nextSequence = 1
  BY DEF Init
<1>3. \A s \in Subscribers : QueueInv(queue[s], nextSequence, Capacity[s])
  BY <1>1, <1>2, EmptyQueueInv
<1>4. \A s \in Subscribers : queue[s] \in Queues
  BY <1>3, QueueInvType
<1> QED
  BY <1>2, <1>3, <1>4 DEF Init, BusQueuesInv

\* Whoever gets the event stamped with the next sequence gets it in order; for
\* everybody else the sequence has only moved on.
LEMMA StampedKept ==
    ASSUME BusQueuesInv, NEW k \in Kinds, NEW T \in SUBSET Subscribers,
           queue' = [s \in Subscribers |->
                        IF s \in T
                        THEN Enqueue(queue[s], Event(k, nextSequence), Capacity[s], Policy[s])
                        ELSE queue[s]],
           nextSequence' = nextSequence + 1
    PROVE  BusQueuesInv'
<1>1. nextSequence \in Nat /\ nextSequence' \in Nat \ {0} /\ nextSequence <= nextSequence'
  BY DEF BusQueuesInv
<1>2. ASSUME NEW s \in Subscribers
      PROVE  QueueInv(queue'[s], nextSequence', Capacity[s])
  <2>1. /\ QueueInv(queue[s], nextSequence, Capacity[s])
        /\ Capacity[s] \in Nat /\ Policy[s] \in Policies
    BY BusAssumption DEF BusQueuesInv
  <2>2. CASE s \in T
    <3>1. queue'[s] = Enqueue(queue[s], Event(k, nextSequence), Capacity[s], Policy[s])
      BY <2>2
    <3> QED
      BY <1>1, <2>1, <3>1, EnqueueInv
  <2>3. CASE s \notin T
    <3>1. queue'[s] = queue[s]
      BY <2>3
    <3> QED
      BY <1>1, <2>1, <3>1, LaterSequence
  <2> QED
    BY <2>2, <2>3
<1>3. \A s \in Subscribers : queue'[s] \in Queues
  BY <1>2, QueueInvType
<1> QED
  BY <1>1, <1>2, <1>3 DEF BusQueuesInv

LEMMA BusQueuesStep == BusQueuesInv /\ [Next]_vars => BusQueuesInv'
<1> SUFFICES ASSUME BusQueuesInv, [Next]_vars PROVE BusQueuesInv'
  OBVIOUS
<1>1. ASSUME NEW s \in Subscribers, NEW k \in Kinds, Replay(s, k) PROVE BusQueuesInv'
  <2>1. queue' = [x \in Subscribers |->
                     IF x \in {s}
                     THEN Enqueue(queue[x], Event(k, nextSequence), Capacity[x], Policy[x])
                     ELSE queue[x]]
    BY <1>1 DEF Replay, BusQueuesInv
  <2> QED
    BY <1>1, <2>1, StampedKept DEF Replay
<1>2. ASSUME NEW k \in Kinds, Publish(k) PROVE BusQueuesInv'
  <2> DEFINE T == {s \in Subscribers : s \in subscriptions /\ k \in Scope[s]}
  <2>1. queue' = [x \in Subscribers |->
                     IF x \in T
                     THEN Enqueue(queue[x], Event(k, nextSequence), Capacity[x], Policy[x])
                     ELSE queue[x]]
    BY <1>2 DEF Publish
  <2>2. T \in SUBSET Subscribers /\ nextSequence' = nextSequence + 1
    BY <1>2 DEF Publish
  <2> HIDE DEF T
  <2> QED
    BY <2>1, <2>2, StampedKept
<1>3. ASSUME NEW s \in Subscribers, Pop(s) PROVE BusQueuesInv'
  <2>1. /\ QueueInv(queue[s], nextSequence, Capacity[s])
        /\ Capacity[s] \in Nat /\ nextSequence \in Nat
        /\ queue[s].items # <<>>
        /\ nextSequence' = nextSequence
        /\ queue' = [queue EXCEPT ![s] = TryPopItem(queue[s])]
    BY <1>3, BusAssumption DEF Pop, BusQueuesInv
  <2>2. QueueInv(TryPopItem(queue[s]), nextSequence, Capacity[s])
    BY <2>1, PopInv
  <2>3. TryPopItem(queue[s]) \in Queues
    BY <2>2, QueueInvType
  <2> QED
    BY <2>1, <2>2, <2>3 DEF BusQueuesInv
<1>4. CASE UNCHANGED <<queue, nextSequence>>
  BY <1>4 DEF BusQueuesInv
<1> QED
  BY <1>1, <1>2, <1>3, <1>4
     DEF Next, SubscribeBegin, SubscribeEnd, Unsubscribe, ReportDemand, RegisterProvider,
         UnregisterProvider, StartObservation, StopObservation, ClearDemandCallback,
         DestroyRuntime, vars

\* On a bus with any number of subscribers every queue is in bus order, and what it
\* had to lose is marked and met in order (event_bus.cpp:325-328, 429-444).
THEOREM EveryQueueKeepsPromises == Spec => []QueuesKeepPromises
<1>1. BusQueuesInv => QueuesKeepPromises
  BY DEF BusQueuesInv, QueuesKeepPromises, QueueInv
<1> QED
  BY <1>1, BusQueuesInit, BusQueuesStep, PTL DEF Spec

-----------------------------------------------------------------------------
(* Demand.                                                                 *)

Wanting(k) == {s \in Subscribers : phase[s] = "subscribed" /\ k \in Scope[s]}

OneEnable == \A k \in Kinds : \A s, t \in Enables(k) : s = t

\* What the mutex protects: the counts, who holds it, and what is left to report.
CountInv ==
    /\ mutex \in Subscribers \cup {Free}
    /\ phase \in [Subscribers -> Phases]
    /\ pending \in [Subscribers -> SUBSET Kinds]
    /\ refcount \in [Kinds -> Nat]
    /\ mutex # Free => phase[mutex] = "replaying"
    /\ \A s \in Subscribers : phase[s] \in {"absent", "replaying"} => pending[s] = {}
    /\ \A s \in Subscribers : pending[s] \subseteq Scope[s]
    /\ \A k \in Kinds : refcount[k] = Cardinality(Wanting(k))

DemandInv ==
    /\ CountInv
    /\ demand \in [DemandKinds -> Nat]
    /\ OneEnable
    /\ DemandAccounted

\* Sets of subscribers are finite, and grow and shrink by one.
LEMMA SubscriberSets ==
    ASSUME NEW S \in SUBSET Subscribers, NEW s \in Subscribers
    PROVE  /\ Cardinality(S) \in Nat
           /\ S = {} <=> Cardinality(S) = 0
           /\ s \notin S => Cardinality(S \cup {s}) = Cardinality(S) + 1
           /\ s \in S => Cardinality(S \ {s}) = Cardinality(S) - 1
<1>1. IsFiniteSet(S)
  BY BusAssumption, FS_Subset
<1> QED
  BY <1>1, FS_CardinalityType, FS_EmptySet, FS_AddElement, FS_RemoveElement

LEMMA DemandInit == Init => DemandInv
<1> SUFFICES ASSUME Init PROVE DemandInv
  OBVIOUS
<1>1. \A k : Wanting(k) = {} /\ Enables(k) = {} /\ Disables(k) = {}
  BY DEF Init, Wanting, Enables, Disables
<1>2. Cardinality({}) = 0
  BY FS_EmptySet
<1>3. CountInv
  BY <1>1, <1>2, BusAssumption DEF Init, CountInv, Phases
<1>4. DemandAccounted
  <2>1. \A k \in DemandKinds : demand[k] = 0 /\ refcount[k] = 0
    BY BusAssumption DEF Init
  <2> QED
    BY <1>1, <1>2, <2>1 DEF DemandAccounted
<1> QED
  BY <1>1, <1>3, <1>4 DEF Init, DemandInv, OneEnable

\* Nobody comes, goes or reports: the books stay as they are.
LEMMA NothingCounted ==
    ASSUME DemandInv,
           mutex' \in Subscribers \cup {Free}, phase' \in [Subscribers -> Phases],
           mutex' # Free => phase'[mutex'] = "replaying",
           \A s \in Subscribers : /\ phase'[s] = "subscribed" <=> phase[s] = "subscribed"
                                  /\ phase'[s] = "gone" <=> phase[s] = "gone",
           UNCHANGED <<pending, refcount, blind, demand, selectFailed, reentered>>
    PROVE  DemandInv'
<1>1. \A k : Wanting(k)' = Wanting(k) /\ Enables(k)' = Enables(k) /\ Disables(k)' = Disables(k)
  BY DEF Wanting, Enables, Disables
<1>2. \A s \in Subscribers : phase'[s] \in {"absent", "replaying"} => pending'[s] = {}
  BY DEF DemandInv, CountInv, Phases
<1>3. CountInv'
  BY <1>1, <1>2 DEF DemandInv, CountInv
<1>4. OneEnable'
  BY <1>1 DEF DemandInv, OneEnable
<1>5. DemandAccounted'
  BY <1>1 DEF DemandInv, DemandAccounted
<1> QED
  BY <1>3, <1>4, <1>5 DEF DemandInv

\* add(): the subscription is counted, and the kinds nobody wanted so far are
\* remembered for the callback (event_bus.cpp:325-356).
LEMMA DemandJoins ==
    ASSUME DemandInv, NEW s \in Subscribers, SubscribeEnd(s)
    PROVE  DemandInv'
<1> DEFINE firsts == {k \in Scope[s] : refcount[k] = 0}
<1>1. /\ phase[s] = "replaying" /\ pending[s] = {}
      /\ phase' = [phase EXCEPT ![s] = "subscribed"]
      /\ pending' = [pending EXCEPT ![s] = IF callback THEN firsts ELSE {}]
      /\ mutex' = Free
      /\ Scope[s] \subseteq Kinds
      /\ UNCHANGED <<demand, selectFailed, reentered>>
      /\ blind' = (blind \/ (~callback /\ firsts \cap DemandKinds # {}))
      /\ refcount' = [k \in Kinds |-> IF k \in Scope[s] THEN refcount[k] + 1 ELSE refcount[k]]
  BY BusAssumption, FreeAssumption DEF SubscribeEnd, Record, DemandInv, CountInv, demandVars
<1>2. ASSUME NEW k \in Kinds
      PROVE  /\ Wanting(k)' = IF k \in Scope[s] THEN Wanting(k) \cup {s} ELSE Wanting(k)
             /\ s \notin Wanting(k) /\ Wanting(k) \subseteq Subscribers
             /\ s \notin Enables(k) /\ Enables(k) \subseteq Wanting(k)
             /\ Enables(k)' = IF callback /\ k \in firsts THEN Enables(k) \cup {s} ELSE Enables(k)
             /\ Disables(k)' = Disables(k)
  BY <1>1 DEF Wanting, Enables, Disables, DemandInv, CountInv
<1>3. ASSUME NEW k \in Kinds
      PROVE  refcount'[k] = Cardinality(Wanting(k)') /\ refcount'[k] \in Nat
  <2>1. refcount[k] = Cardinality(Wanting(k)) /\ refcount[k] \in Nat
    BY DEF DemandInv, CountInv
  <2>2. Cardinality(Wanting(k) \cup {s}) = Cardinality(Wanting(k)) + 1
    BY <1>2, SubscriberSets
  <2>3. refcount'[k] = IF k \in Scope[s] THEN refcount[k] + 1 ELSE refcount[k]
    BY <1>1
  <2>4. CASE k \in Scope[s]
    <3>1. Wanting(k)' = Wanting(k) \cup {s}
      BY <1>2, <2>4
    <3> QED
      BY <2>1, <2>2, <2>3, <2>4, <3>1
  <2>5. CASE k \notin Scope[s]
    <3>1. Wanting(k)' = Wanting(k)
      BY <1>2, <2>5
    <3> QED
      BY <2>1, <2>3, <2>5, <3>1
  <2> QED
    BY <2>4, <2>5
<1>4. CountInv'
  <2>1. /\ mutex' \in Subscribers \cup {Free} /\ phase' \in [Subscribers -> Phases]
        /\ pending' \in [Subscribers -> SUBSET Kinds]
        /\ mutex' # Free => phase'[mutex'] = "replaying"
        /\ \A t \in Subscribers : phase'[t] \in {"absent", "replaying"} => pending'[t] = {}
        /\ \A t \in Subscribers : pending'[t] \subseteq Scope[t]
    <3>1. /\ phase \in [Subscribers -> Phases]
          /\ pending \in [Subscribers -> SUBSET Kinds]
          /\ (IF callback THEN firsts ELSE {}) \subseteq Scope[s]
          /\ \A t \in Subscribers : phase[t] \in {"absent", "replaying"} => pending[t] = {}
          /\ \A t \in Subscribers : pending[t] \subseteq Scope[t]
      BY DEF DemandInv, CountInv
    <3>2. \A t \in Subscribers \ {s} : phase'[t] = phase[t] /\ pending'[t] = pending[t]
      BY <1>1, <3>1
    <3>3. phase'[s] = "subscribed" /\ pending'[s] \subseteq Scope[s]
      BY <1>1, <3>1
    <3>4. phase' \in [Subscribers -> Phases] /\ pending' \in [Subscribers -> SUBSET Kinds]
      BY <1>1, <3>1 DEF Phases
    <3> QED
      BY <1>1, <3>1, <3>2, <3>3, <3>4
  <2>2. refcount' \in [Kinds -> Nat]
    BY <1>1, <1>3
  <2> QED
    BY <1>3, <2>1, <2>2 DEF CountInv
<1>5. ASSUME NEW k \in firsts PROVE Enables(k) = {}
  <2>1. k \in Kinds /\ Cardinality(Wanting(k)) = 0
    BY <1>1 DEF DemandInv, CountInv
  <2>2. Wanting(k) = {}
    BY <1>2, <2>1, SubscriberSets
  <2> QED
    BY <1>2, <2>1, <2>2
<1>6. OneEnable'
  <2> SUFFICES ASSUME NEW k \in Kinds, NEW x \in Enables(k)', NEW y \in Enables(k)'
               PROVE  x = y
    BY DEF OneEnable
  <2> QED
    BY <1>2, <1>5 DEF DemandInv, OneEnable
<1>7. DemandAccounted'
  <2> SUFFICES ASSUME ~selectFailed', ~reentered', ~blind', NEW k \in DemandKinds
               PROVE  demand'[k] + Cardinality(Enables(k)') =
                        (IF refcount'[k] > 0 THEN 1 ELSE 0) + Cardinality(Disables(k)')
    BY DEF DemandAccounted
  <2>1. k \in Kinds /\ demand'[k] = demand[k] /\ demand[k] \in Nat /\ refcount[k] \in Nat
    BY <1>1, BusAssumption DEF DemandInv, CountInv
  <2>2. demand[k] + Cardinality(Enables(k)) =
            (IF refcount[k] > 0 THEN 1 ELSE 0) + Cardinality(Disables(k))
    BY <1>1 DEF DemandInv, DemandAccounted
  <2>3. k \in firsts => callback
    BY <1>1
  <2>4. /\ Cardinality(Enables(k) \cup {s}) = Cardinality(Enables(k)) + 1
        /\ Cardinality(Enables(k)) \in Nat /\ Cardinality(Disables(k)) \in Nat
    <3>1. Enables(k) \in SUBSET Subscribers /\ Disables(k) \in SUBSET Subscribers
      BY DEF Enables, Disables
    <3> QED
      BY <1>2, <2>1, <3>1, SubscriberSets
  <2>5. CASE k \in firsts
    <3>1. refcount[k] = 0 /\ refcount'[k] = 1
      BY <1>1, <2>1, <2>5
    <3>2. Enables(k)' = Enables(k) \cup {s} /\ Disables(k)' = Disables(k)
      BY <1>2, <2>1, <2>3, <2>5
    <3> QED
      BY <2>1, <2>2, <2>4, <3>1, <3>2
  <2>6. CASE k \notin firsts
    <3>1. refcount'[k] > 0 <=> refcount[k] > 0
      BY <1>1, <2>1, <2>6
    <3>2. Enables(k)' = Enables(k) /\ Disables(k)' = Disables(k)
      BY <1>2, <2>1, <2>6
    <3> QED
      BY <2>1, <2>2, <3>1, <3>2
  <2> QED
    BY <2>5, <2>6
<1> QED
  BY <1>1, <1>4, <1>6, <1>7 DEF DemandInv

\* remove(): the kinds nobody wants any more are remembered for the callback
\* (event_bus.cpp:360-390).
LEMMA DemandLeaves ==
    ASSUME DemandInv, NEW s \in Subscribers, Unsubscribe(s)
    PROVE  DemandInv'
<1> DEFINE lasts == {k \in Scope[s] : refcount[k] = 1}
<1>1. /\ phase[s] = "subscribed" /\ pending[s] = {}
      /\ phase' = [phase EXCEPT ![s] = "gone"]
      /\ pending' = [pending EXCEPT ![s] = IF callback THEN lasts ELSE {}]
      /\ mutex = Free /\ mutex' = Free
      /\ Scope[s] \subseteq Kinds
      /\ UNCHANGED <<demand, selectFailed, reentered>>
      /\ blind' = (blind \/ (~callback /\ lasts \cap DemandKinds # {}))
      /\ refcount' = [k \in Kinds |-> IF k \in Scope[s] THEN refcount[k] - 1 ELSE refcount[k]]
  BY BusAssumption DEF Unsubscribe, Record, demandVars
<1>2. ASSUME NEW k \in Kinds
      PROVE  /\ Wanting(k)' = IF k \in Scope[s] THEN Wanting(k) \ {s} ELSE Wanting(k)
             /\ k \in Scope[s] => s \in Wanting(k)
             /\ Wanting(k) \subseteq Subscribers
             /\ s \notin Disables(k)
             /\ Enables(k)' = Enables(k)
             /\ Disables(k)' = IF callback /\ k \in lasts THEN Disables(k) \cup {s} ELSE Disables(k)
  BY <1>1 DEF Wanting, Enables, Disables, DemandInv, CountInv
<1>3. ASSUME NEW k \in Kinds
      PROVE  /\ refcount'[k] = Cardinality(Wanting(k)') /\ refcount'[k] \in Nat
             /\ k \in Scope[s] => refcount[k] >= 1
  <2>1. refcount[k] = Cardinality(Wanting(k)) /\ refcount[k] \in Nat
    BY DEF DemandInv, CountInv
  <2>2. k \in Scope[s] => /\ Cardinality(Wanting(k) \ {s}) = Cardinality(Wanting(k)) - 1
                          /\ Cardinality(Wanting(k)) # 0
    BY <1>2, SubscriberSets
  <2>3. refcount'[k] = IF k \in Scope[s] THEN refcount[k] - 1 ELSE refcount[k]
    BY <1>1
  <2>4. CASE k \in Scope[s]
    <3>1. Wanting(k)' = Wanting(k) \ {s}
      BY <1>2, <2>4
    <3> QED
      BY <2>1, <2>2, <2>3, <2>4, <3>1
  <2>5. CASE k \notin Scope[s]
    <3>1. Wanting(k)' = Wanting(k)
      BY <1>2, <2>5
    <3> QED
      BY <2>1, <2>3, <2>5, <3>1
  <2> QED
    BY <2>4, <2>5
<1>4. CountInv'
  <2>1. /\ phase \in [Subscribers -> Phases]
        /\ pending \in [Subscribers -> SUBSET Kinds]
        /\ (IF callback THEN lasts ELSE {}) \subseteq Scope[s]
        /\ \A t \in Subscribers : phase[t] \in {"absent", "replaying"} => pending[t] = {}
        /\ \A t \in Subscribers : pending[t] \subseteq Scope[t]
    BY DEF DemandInv, CountInv
  <2>2. \A t \in Subscribers \ {s} : phase'[t] = phase[t] /\ pending'[t] = pending[t]
    BY <1>1, <2>1
  <2>3. phase'[s] = "gone" /\ pending'[s] \subseteq Scope[s]
    BY <1>1, <2>1
  <2>4. phase' \in [Subscribers -> Phases] /\ pending' \in [Subscribers -> SUBSET Kinds]
    BY <1>1, <2>1 DEF Phases
  <2>5. refcount' \in [Kinds -> Nat]
    BY <1>1, <1>3
  <2>6. \A t \in Subscribers : /\ phase'[t] \in {"absent", "replaying"} => pending'[t] = {}
                               /\ pending'[t] \subseteq Scope[t]
    BY <2>1, <2>2, <2>3
  <2> QED
    BY <1>1, <1>3, <2>4, <2>5, <2>6 DEF CountInv
<1>5. OneEnable'
  BY <1>2 DEF DemandInv, OneEnable
<1>6. DemandAccounted'
  <2> SUFFICES ASSUME ~selectFailed', ~reentered', ~blind', NEW k \in DemandKinds
               PROVE  demand'[k] + Cardinality(Enables(k)') =
                        (IF refcount'[k] > 0 THEN 1 ELSE 0) + Cardinality(Disables(k)')
    BY DEF DemandAccounted
  <2>1. k \in Kinds /\ demand'[k] = demand[k] /\ demand[k] \in Nat /\ refcount[k] \in Nat
    BY <1>1, BusAssumption DEF DemandInv, CountInv
  <2>2. demand[k] + Cardinality(Enables(k)) =
            (IF refcount[k] > 0 THEN 1 ELSE 0) + Cardinality(Disables(k))
    BY <1>1 DEF DemandInv, DemandAccounted
  <2>3. k \in lasts => callback
    BY <1>1
  <2>4. /\ Cardinality(Disables(k) \cup {s}) = Cardinality(Disables(k)) + 1
        /\ Cardinality(Enables(k)) \in Nat /\ Cardinality(Disables(k)) \in Nat
    <3>1. Enables(k) \in SUBSET Subscribers /\ Disables(k) \in SUBSET Subscribers
      BY DEF Enables, Disables
    <3> QED
      BY <1>2, <2>1, <3>1, SubscriberSets
  <2>5. CASE k \in lasts
    <3>1. refcount[k] = 1 /\ refcount'[k] = 0
      BY <1>1, <2>1, <2>5
    <3>2. Enables(k)' = Enables(k) /\ Disables(k)' = Disables(k) \cup {s}
      BY <1>2, <2>1, <2>3, <2>5
    <3> QED
      BY <2>1, <2>2, <2>4, <3>1, <3>2
  <2>6. CASE k \notin lasts
    <3>1. refcount'[k] > 0 <=> refcount[k] > 0
      BY <1>1, <1>3, <2>1, <2>6
    <3>2. Enables(k)' = Enables(k) /\ Disables(k)' = Disables(k)
      BY <1>2, <2>1, <2>6
    <3> QED
      BY <2>1, <2>2, <3>1, <3>2
  <2> QED
    BY <2>5, <2>6
<1> QED
  BY <1>1, <1>4, <1>5, <1>6 DEF DemandInv

\* The callback of a thread reports one kind, whatever other threads have still to
\* report of it (x11_event_source.cpp:671-740).
LEMMA DemandReported ==
    ASSUME DemandInv, NEW s \in Subscribers, NEW k \in Kinds, ReportDemand(s, k)
    PROVE  DemandInv'
<1>1. /\ k \in pending[s]
      /\ phase[s] \in {"subscribed", "gone"}
      /\ pending' = [pending EXCEPT ![s] = pending[s] \ {k}]
      /\ UNCHANGED <<mutex, refcount, phase, blind>>
      /\ pending \in [Subscribers -> SUBSET Kinds]
  BY DEF ReportDemand, DemandInv, CountInv
<1>2. /\ pending'[s] = pending[s] \ {k}
      /\ \A t \in Subscribers \ {s} : pending'[t] = pending[t]
      /\ pending' \in [Subscribers -> SUBSET Kinds]
  BY <1>1
<1>3. \A j : Wanting(j)' = Wanting(j)
  BY <1>1 DEF Wanting
<1>4. CountInv'
  BY <1>1, <1>2, <1>3 DEF DemandInv, CountInv
<1>5. /\ Enables(k)' = Enables(k) \ {s}
      /\ Disables(k)' = Disables(k) \ {s}
      /\ phase[s] = "subscribed" => s \in Enables(k) /\ s \notin Disables(k)
      /\ phase[s] = "gone" => s \in Disables(k) /\ s \notin Enables(k)
      /\ Enables(k) \in SUBSET Subscribers /\ Disables(k) \in SUBSET Subscribers
  BY <1>1, <1>2 DEF Enables, Disables
<1>6. \A j \in Kinds \ {k} : Enables(j)' = Enables(j) /\ Disables(j)' = Disables(j)
  BY <1>1, <1>2 DEF Enables, Disables
<1>7. OneEnable'
  BY <1>5, <1>6 DEF DemandInv, OneEnable
<1>8. /\ demand \in [DemandKinds -> Nat]
      /\ \A j \in DemandKinds : demand[j] \in Nat /\ j \in Kinds
  BY BusAssumption DEF DemandInv
<1>9. CASE UNCHANGED demand /\ (selectFailed' \/ reentered')
  BY <1>4, <1>7, <1>9 DEF DemandInv, DemandAccounted
<1>10. CASE k \notin DemandKinds /\ UNCHANGED <<demand, selectFailed, reentered>>
  <2>1. DemandAccounted'
    BY <1>1, <1>6, <1>8, <1>10 DEF DemandInv, DemandAccounted
  <2> QED
    BY <1>4, <1>7, <1>10, <2>1 DEF DemandInv
<1>11. ASSUME k \in DemandKinds, UNCHANGED <<selectFailed, reentered>>,
              ~selectFailed, ~reentered, ~blind
       PROVE  /\ demand[k] + Cardinality(Enables(k)) =
                    (IF refcount[k] > 0 THEN 1 ELSE 0) + Cardinality(Disables(k))
              /\ demand[k] \in Nat /\ Cardinality(Enables(k)) \in Nat
              /\ Cardinality(Disables(k)) \in Nat /\ refcount[k] \in Nat
  BY <1>5, <1>8, <1>11, SubscriberSets DEF DemandInv, DemandAccounted, CountInv
<1>12. CASE /\ k \in DemandKinds /\ UNCHANGED <<selectFailed, reentered>>
            /\ phase[s] = "subscribed"
            /\ demand' = [demand EXCEPT ![k] = demand[k] + 1]
  <2>1. demand' \in [DemandKinds -> Nat]
    BY <1>8, <1>12
  <2>2. DemandAccounted'
    <3> SUFFICES ASSUME ~selectFailed', ~reentered', ~blind', NEW j \in DemandKinds
                 PROVE  demand'[j] + Cardinality(Enables(j)') =
                          (IF refcount'[j] > 0 THEN 1 ELSE 0) + Cardinality(Disables(j)')
      BY DEF DemandAccounted
    <3>1. ~selectFailed /\ ~reentered /\ ~blind
      BY <1>1, <1>12
    <3>2. CASE j # k
      BY <1>1, <1>6, <1>8, <1>12, <3>1, <3>2 DEF DemandInv, DemandAccounted
    <3>3. CASE j = k
      <4>1. Cardinality(Enables(k)') = Cardinality(Enables(k)) - 1 /\ Disables(k)' = Disables(k)
        BY <1>5, <1>12, SubscriberSets
      <4>2. demand'[k] = demand[k] + 1 /\ refcount'[k] = refcount[k]
        BY <1>1, <1>8, <1>12
      <4> QED
        BY <1>11, <1>12, <3>1, <3>3, <4>1, <4>2
    <3> QED
      BY <3>2, <3>3
  <2> QED
    BY <1>4, <1>7, <2>1, <2>2 DEF DemandInv
<1>13. ASSUME k \in DemandKinds, UNCHANGED <<selectFailed, reentered>>,
              ~selectFailed, ~reentered, ~blind, phase[s] = "gone"
       PROVE  demand[k] # 0
  <2>1. Cardinality(Disables(k)) # 0
    BY <1>5, <1>13, SubscriberSets
  <2>2. CASE Enables(k) = {}
    <3>1. Cardinality(Enables(k)) = 0
      BY <2>2, FS_EmptySet
    <3> QED
      BY <1>11, <1>13, <2>1, <3>1
  <2>3. CASE Enables(k) # {}
    <3>1. PICK x \in Enables(k) : Enables(k) = {x}
      BY <2>3 DEF DemandInv, OneEnable
    <3>2. Cardinality(Enables(k)) = 1
      BY <3>1, FS_Singleton
    <3>3. x \in Wanting(k) /\ Wanting(k) \in SUBSET Subscribers
      BY <3>1 DEF Enables, Wanting, DemandInv, CountInv
    <3>4. refcount[k] # 0
      BY <3>3, SubscriberSets DEF DemandInv, CountInv
    <3> QED
      BY <1>11, <1>13, <2>1, <3>2, <3>4
  <2> QED
    BY <2>2, <2>3
<1>14. CASE /\ k \in DemandKinds /\ UNCHANGED <<selectFailed, reentered>>
            /\ phase[s] = "gone" /\ demand[k] # 0
            /\ demand' = [demand EXCEPT ![k] = demand[k] - 1]
  <2>1. demand' \in [DemandKinds -> Nat]
    BY <1>8, <1>14
  <2>2. DemandAccounted'
    <3> SUFFICES ASSUME ~selectFailed', ~reentered', ~blind', NEW j \in DemandKinds
                 PROVE  demand'[j] + Cardinality(Enables(j)') =
                          (IF refcount'[j] > 0 THEN 1 ELSE 0) + Cardinality(Disables(j)')
      BY DEF DemandAccounted
    <3>1. ~selectFailed /\ ~reentered /\ ~blind
      BY <1>1, <1>14
    <3>2. CASE j # k
      BY <1>1, <1>6, <1>8, <1>14, <3>1, <3>2 DEF DemandInv, DemandAccounted
    <3>3. CASE j = k
      <4>1. Cardinality(Disables(k)') = Cardinality(Disables(k)) - 1 /\ Enables(k)' = Enables(k)
        BY <1>5, <1>14, SubscriberSets
      <4>2. demand'[k] = demand[k] - 1 /\ refcount'[k] = refcount[k]
        BY <1>1, <1>8, <1>14
      <4> QED
        BY <1>11, <1>14, <3>1, <3>3, <4>1, <4>2
    <3> QED
      BY <3>2, <3>3
  <2> QED
    BY <1>4, <1>7, <2>1, <2>2 DEF DemandInv
<1>15. CASE /\ k \in DemandKinds /\ UNCHANGED <<demand, selectFailed, reentered>>
            /\ phase[s] = "gone" /\ demand[k] = 0
  <2>1. selectFailed \/ reentered \/ blind
    BY <1>13, <1>15
  <2>2. DemandAccounted'
    BY <1>1, <1>15, <2>1 DEF DemandAccounted
  <2> QED
    BY <1>4, <1>7, <1>15, <2>2 DEF DemandInv
<1> QED
  BY <1>1, <1>9, <1>10, <1>12, <1>14, <1>15 DEF ReportDemand, Enable, Disable, Select

LEMMA DemandStep == DemandInv /\ [Next]_vars => DemandInv'
<1> SUFFICES ASSUME DemandInv, [Next]_vars PROVE DemandInv'
  OBVIOUS
<1>1. ASSUME NEW s \in Subscribers, SubscribeBegin(s) PROVE DemandInv'
  <2>1. /\ mutex' = s /\ phase[s] = "absent"
        /\ phase' = [phase EXCEPT ![s] = "replaying"]
        /\ phase \in [Subscribers -> Phases]
        /\ UNCHANGED <<pending, refcount, blind, demand, selectFailed, reentered>>
    BY <1>1 DEF SubscribeBegin, demandVars, DemandInv, CountInv
  <2>2. /\ phase' \in [Subscribers -> Phases] /\ phase'[s] = "replaying"
        /\ \A t \in Subscribers : /\ phase'[t] = "subscribed" <=> phase[t] = "subscribed"
                                  /\ phase'[t] = "gone" <=> phase[t] = "gone"
    BY <2>1 DEF Phases
  <2> QED
    BY <2>1, <2>2, NothingCounted
<1>2. CASE UNCHANGED <<mutex, phase, pending, refcount, blind, demand, selectFailed, reentered>>
  BY <1>2, NothingCounted DEF DemandInv, CountInv
<1> QED
  BY <1>1, <1>2, DemandJoins, DemandLeaves, DemandReported
     DEF Next, Replay, Publish, Pop, RegisterProvider, UnregisterProvider, StartObservation,
         StopObservation, ClearDemandCallback, DestroyRuntime, vars, demandVars

\* With no transition under way the counts are those of the subscribers.
LEMMA QuietMask ==
    ASSUME DemandInv, ~selectFailed, ~reentered, ~blind,
           \A s \in Subscribers : pending[s] = {}
    PROVE  Mask(demand) = {MaskBit[k] : k \in {d \in DemandKinds : refcount[d] > 0}}
<1>1. ASSUME NEW k \in DemandKinds PROVE demand[k] > 0 <=> refcount[k] > 0
  <2>1. Enables(k) = {} /\ Disables(k) = {}
    BY DEF Enables, Disables
  <2>2. Cardinality(Enables(k)) = 0 /\ Cardinality(Disables(k)) = 0
    BY <2>1, FS_EmptySet
  <2>3. demand[k] \in Nat /\ refcount[k] \in Nat
    BY BusAssumption DEF DemandInv, CountInv
  <2> QED
    BY <2>2, <2>3 DEF DemandInv, DemandAccounted
<1> QED
  BY <1>1 DEF Mask

\* For any number of subscribers and kinds: however the callbacks of several threads
\* overtake one another, the demand of the event source accounts for the subscribers,
\* and once they are done its mask is what the subscribers want
\* (event_bus.cpp:344, 381; session_impl.cpp:785-786).
THEOREM DemandAlwaysFollows == Spec => []DemandFollows
<1>1. DemandInv => DemandFollows
  BY QuietMask DEF DemandInv, DemandFollows, MaskFollowsSubscribers, MaskIsCurrent
<1> QED
  BY <1>1, DemandInit, DemandStep, PTL DEF Spec
=============================================================================
