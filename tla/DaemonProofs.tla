---------------------------- MODULE DaemonProofs ----------------------------
(***************************************************************************)
(* The daemon and its event storage, for any number of events, dates and   *)
(* lines, any limits, and any number of failed calls and crashes.          *)
(* At the end the admission of calls to the service it hosts: SlotInv says *)
(* that active_ counts the calls whose handler runs, TicketInv that the    *)
(* tickets queued are those of the waiting calls, one each, in order.      *)
(***************************************************************************)
EXTENDS Daemon, RpcService, SequenceTheorems, FiniteSetTheorems, WellFoundedInduction, TLAPS

USE DEF IsGap

\* The fields of the queue the drain thread empties.
LEMMA QueueFields ==
    ASSUME NEW q \in Queues
    PROVE  /\ q.items \in Seq(Items)
           /\ Len(q.items) \in Nat
           /\ \A i \in 1 .. Len(q.items) : q.items[i] \in Items /\ q.items[i].seq \in Nat
           /\ q.overflow \in Nat
           /\ q.resync \in BOOLEAN
           /\ q.last \in Nat
           /\ q.lost \subseteq Nat
<1>1. /\ q.items \in Seq(Items)
      /\ q.overflow \in Nat
      /\ q.resync \in BOOLEAN
      /\ q.last \in Nat
      /\ q.lost \subseteq Nat
  BY DEF Queues
<1>2. Len(q.items) \in Nat /\ \A i \in 1 .. Len(q.items) : q.items[i] \in Items
  BY <1>1
<1>3. \A x \in Items : x.seq \in Nat
  BY DEF Items
<1> QED
  BY <1>1, <1>2, <1>3

-----------------------------------------------------------------------------
(* Who still runs at every place of start() and shutdown().                *)

Starting == {"compose", "storage", "handshake", "transport"}
Ends     == {"flush", "flushing", "closing", "done"}
Stopped  == {"joinDrain"} \cup Ends

UsersInv ==
    /\ pub \in [Publishers -> {"idle", "notify"}]
    /\ session = "gone" => owner \in Ends
    /\ owner \in Ends => drain \in {"none", "exited"}
    /\ owner \in {"compose", "storage"} => drain = "none"
    /\ owner \in Starting \cup {"sources"} => reactor = "none"
    /\ owner \in Stopped \cup {"server", "pump", "signal"} => reactor # "run" /\ server # "up"
    /\ owner \in Starting => server = "none"
    /\ owner \in Stopped \cup {"pump", "signal"} => pub["rpc"] = "idle"
    /\ owner \in Starting \cup {"sources", "startup"} => ~observing
    /\ owner \in Stopped \cup {"signal"} => ~observing /\ pub["pump"] = "idle"
    /\ owner \in Starting \cup Stopped \cup {"pump", "signal"} => ~streaming

USE DEF Publishers, Starting, Ends, Stopped, Shutdown, Go

LEMMA UsersInit == Init => UsersInv
  BY DEF Init, UsersInv

\* The owner's own steps.
LEMMA UsersOwner == UsersInv /\ (Owner \/ CallShutdown) => UsersInv'
<1> SUFFICES ASSUME UsersInv, Owner \/ CallShutdown PROVE UsersInv'
  OBVIOUS
<1>1. CASE ComposeSession
  BY <1>1 DEF ComposeSession, UsersInv
<1>2. CASE StartStorage
  BY <1>2 DEF StartStorage, UsersInv
<1>3. CASE Handshake
  BY <1>3 DEF Handshake, UsersInv
<1>4. CASE StartTransport
  BY <1>4 DEF StartTransport, UsersInv
<1>5. CASE StartSources
  BY <1>5 DEF StartSources, UsersInv
<1>6. CASE StartObservation
  BY <1>6 DEF StartObservation, UsersInv
<1>7. CASE StopReactor \/ CallShutdown
  BY <1>7 DEF StopReactor, CallShutdown, Later, UsersInv
<1>8. CASE JoinReactor
  BY <1>8 DEF JoinReactor, UsersInv
<1>9. CASE StopServer \/ StopObservation
  BY <1>9 DEF StopServer, StopObservation, UsersInv
<1>10. CASE SignalDrainStop \/ JoinDrain
  BY <1>10 DEF SignalDrainStop, JoinDrain, UsersInv
<1>11. CASE FlushSink \/ CloseFlush \/ CloseStorage
  BY <1>11 DEF FlushSink, CloseFlush, CloseStorage, Later, UsersInv
<1> QED
  BY <1>1, <1>2, <1>3, <1>4, <1>5, <1>6, <1>7, <1>8, <1>9, <1>10, <1>11 DEF Owner

LEMMA UsersStep == UsersInv /\ [Next]_vars => UsersInv'
<1> SUFFICES ASSUME UsersInv, [Next]_vars PROVE UsersInv'
  OBVIOUS
<1>1. CASE Owner \/ CallShutdown
  BY <1>1, UsersOwner
<1>2. CASE Subscribe \/ SetNotify \/ Block \/ WaitForDataOrStop \/ LeaveDrain
  BY <1>2 DEF Subscribe, SetNotify, Block, WaitForDataOrStop, LeaveDrain, DrainRest, DrainTo,
              UsersInv
<1>3. CASE DrainAvailable
  BY <1>3 DEF DrainAvailable, DrainRest, DrainTo, UsersInv
<1>4. CASE ReactorThread
  BY <1>4 DEF ReactorThread, UsersInv
<1>5. CASE Sinking \/ UNCHANGED vars
  BY <1>5 DEF Sinking, vars, daemonVars, UsersInv
<1>6. CASE Crash
  BY <1>6 DEF Crash, Fresh, UsersInv
<1>7. ASSUME NEW p \in Publishers, Publish(p) PROVE UsersInv'
  BY <1>7 DEF Publish, MayPublish, UsersInv
<1>8. ASSUME NEW p \in Publishers, NotifyWaiter(p) PROVE UsersInv'
  BY <1>8 DEF NotifyWaiter, UsersInv
<1>9. CASE ClientStreams \/ ClientLeaves
  BY <1>9 DEF ClientStreams, ClientLeaves, UsersInv
<1> QED
  BY <1>1, <1>2, <1>3, <1>4, <1>5, <1>6, <1>7, <1>8, <1>9 DEF Next, Drain

\* The session and its bus go only when nobody uses them any more, however
\* start() and shutdown() were left (daemon.cpp, shutdown()).
THEOREM NobodyUsesAGoneBus == Spec => []BusOutlivesUsers
<1>1. UsersInv => BusOutlivesUsers
  BY DEF UsersInv, BusOutlivesUsers
<1> QED
  BY <1>1, UsersInit, UsersStep, PTL DEF Spec
-----------------------------------------------------------------------------
(* The storage subscription's queue.  A marker is swallowed by try_pop(), so *)
(* of the promises of a queue only the order is left.                       *)

\* mark_gap(): only the newest item may change, and then into a marker.
LEMMA MarkGapParts ==
    ASSUME NEW q \in Queues, NEW n \in Nat, Len(q.items) # 0
    PROVE  /\ MarkGap(q, n) \in Queues
           /\ MarkGap(q, n).overflow = q.overflow + 1
           /\ MarkGap(q, n).last = q.last
           /\ \/ MarkGap(q, n).items = q.items
              \/ MarkGap(q, n).items = [q.items EXCEPT ![Len(q.items)] = Marker(q.last)]
<1>1. /\ q.items \in Seq(Items) /\ q.overflow \in Nat /\ q.last \in Nat
      /\ q.lost \subseteq Nat /\ Len(q.items) \in Nat
      /\ \A i \in 1 .. Len(q.items) : q.items[i].seq \in Nat
  BY QueueFields
<1>2. q.overflow + 1 \in Nat /\ Back(q).seq \in Nat /\ Len(q.items) \in 1 .. Len(q.items)
  BY <1>1 DEF Back
<1>3. CASE IsGap(Back(q))
  <2>1. MarkGap(q, n) = Queue(q.items, q.overflow + 1, TRUE, q.last, q.lost \cup {n})
    BY <1>3 DEF MarkGap
  <2>2. q.lost \cup {n} \in SUBSET Nat
    BY <1>1
  <2> QED
    BY <1>1, <1>2, <2>1, <2>2 DEF Queue, Queues
<1>4. CASE ~IsGap(Back(q))
  <2> DEFINE items == [q.items EXCEPT ![Len(q.items)] = Marker(q.last)]
  <2>1. MarkGap(q, n) = Queue(items, q.overflow + 1, TRUE, q.last,
                              q.lost \cup {n, Back(q).seq})
    BY <1>4 DEF MarkGap, ReplaceBack
  <2>2. q.lost \cup {n, Back(q).seq} \in SUBSET Nat
    BY <1>1, <1>2
  <2>3. Marker(q.last) \in Items
    BY <1>1 DEF Marker, Items
  <2>4. items \in Seq(Items)
    BY <1>1, <1>2, <2>3, ExceptSeq
  <2> HIDE DEF items
  <2>5. /\ MarkGap(q, n) \in Queues /\ MarkGap(q, n).overflow = q.overflow + 1
        /\ MarkGap(q, n).last = q.last /\ MarkGap(q, n).items = items
    BY <1>1, <1>2, <2>1, <2>2, <2>4 DEF Queue, Queues
  <2> QED
    BY <2>5 DEF items
<1> QED
  BY <1>3, <1>4

\* A queue whose items are the old ones, markers, and the new event at the end.
LEMMA OrderedLater ==
    ASSUME NEW q \in Queues, NEW n \in Nat, Ordered(q, n), NEW r \in Queues, r.last = q.last,
           \A i \in 1 .. Len(r.items) :
              \/ IsGap(r.items[i])
              \/ (r.items[i].seq = n /\ i = Len(r.items))
              \/ (i \in 1 .. Len(q.items) /\ r.items[i] = q.items[i])
    PROVE  /\ Ordered(r, n + 1)
           /\ \A i \in 1 .. Len(r.items) : ~IsGap(r.items[i]) =>
                 \/ r.items[i].seq = n
                 \/ \E j \in 1 .. Len(q.items) :
                       ~IsGap(q.items[j]) /\ r.items[i].seq = q.items[j].seq
<1>1. /\ q.last \in Nat /\ Len(q.items) \in Nat /\ Len(r.items) \in Nat
      /\ \A i \in 1 .. Len(q.items) : q.items[i].seq \in Nat
      /\ \A i \in 1 .. Len(r.items) : r.items[i].seq \in Nat
  BY QueueFields
<1>2. /\ q.last < n
      /\ \A i \in 1 .. Len(q.items) :
            ~IsGap(q.items[i]) => q.last < q.items[i].seq /\ q.items[i].seq < n
      /\ \A i, j \in 1 .. Len(q.items) :
            i < j /\ ~IsGap(q.items[i]) /\ ~IsGap(q.items[j]) => q.items[i].seq < q.items[j].seq
  BY DEF Ordered
<1>3. ASSUME NEW i \in 1 .. Len(r.items), ~IsGap(r.items[i])
      PROVE  r.last < r.items[i].seq /\ r.items[i].seq < n + 1
  BY <1>1, <1>2, <1>3
<1>4. ASSUME NEW i \in 1 .. Len(r.items), NEW j \in 1 .. Len(r.items), i < j,
             ~IsGap(r.items[i]), ~IsGap(r.items[j])
      PROVE  r.items[i].seq < r.items[j].seq
  <2>1. i \in 1 .. Len(q.items) /\ r.items[i] = q.items[i]
    BY <1>1, <1>4
  <2> QED
    BY <1>1, <1>2, <1>4, <2>1
<1>5. r.last < n + 1
  BY <1>1, <1>2
<1> QED
  BY <1>3, <1>4, <1>5 DEF Ordered

\* enqueue() keeps the order; what is queued afterwards is the new event or was
\* queued before, and without an overflow the new event is in.
LEMMA EnqueueOrdered ==
    ASSUME NEW q \in Queues, NEW n \in Nat, NEW k \in Kinds, NEW capacity \in Nat \ {0},
           Ordered(q, n), NEW r, r = Enqueue(q, Event(k, n), capacity, "coalesce")
    PROVE  /\ r \in Queues /\ Ordered(r, n + 1) /\ r.last = q.last
           /\ \A i \in 1 .. Len(r.items) : ~IsGap(r.items[i]) =>
                 \/ r.items[i].seq = n
                 \/ \E j \in 1 .. Len(q.items) :
                       ~IsGap(q.items[j]) /\ r.items[i].seq = q.items[j].seq
           /\ r.overflow = 0 =>
                 /\ q.overflow = 0
                 /\ \E i \in 1 .. Len(r.items) : r.items[i].seq = n
                 /\ (\A i \in 1 .. Len(q.items) : ~IsGap(q.items[i])) =>
                       (\A i \in 1 .. Len(r.items) : ~IsGap(r.items[i]))
<1> DEFINE e == Event(k, n)
           L == Len(q.items)
<1>1. /\ q.items \in Seq(Items) /\ q.overflow \in Nat /\ q.resync \in BOOLEAN /\ q.last \in Nat
      /\ q.lost \subseteq Nat /\ L \in Nat
      /\ \A i \in 1 .. L : q.items[i] \in Items /\ q.items[i].seq \in Nat
  BY QueueFields
<1>2. e \in Items /\ e.kind = k /\ e.seq = n /\ ~IsGap(e)
  BY KindAssumption DEF Event, Items
<1>3. r = Enqueue(q, e, capacity, "coalesce")
  OBVIOUS
<1> HIDE DEF e
<1>4. CASE L < capacity
  <2>1. r = WithItems(q, Append(q.items, e))
    BY <1>3, <1>4 DEF Enqueue
  <2> DEFINE items == Append(q.items, e)
  <2>a. items \in Seq(Items)
    BY <1>1, <1>2, AppendProperties
  <2> HIDE DEF items
  <2>b. r = WithItems(q, items)
    BY <2>1 DEF items
  <2>c. /\ r.items = items /\ r.overflow = q.overflow /\ r.last = q.last /\ r \in Queues
    BY <1>1, <2>a, <2>b DEF WithItems, Queue, Queues
  <2>2. /\ r.items = Append(q.items, e) /\ r.overflow = q.overflow /\ r.last = q.last
        /\ r \in Queues
    BY <2>c DEF items
  <2>3. /\ Len(r.items) = L + 1 /\ r.items[L + 1] = e
        /\ \A i \in 1 .. L : r.items[i] = q.items[i]
    BY <1>1, <1>2, <2>2
  <2>4. \A i \in 1 .. Len(r.items) : i = L + 1 \/ i \in 1 .. L
    BY <1>1, <2>3
  <2>5. /\ Ordered(r, n + 1)
        /\ \A i \in 1 .. Len(r.items) : ~IsGap(r.items[i]) =>
              \/ r.items[i].seq = n
              \/ \E j \in 1 .. Len(q.items) :
                    ~IsGap(q.items[j]) /\ r.items[i].seq = q.items[j].seq
    BY <1>2, <2>2, <2>3, <2>4, OrderedLater
  <2>6. L + 1 \in 1 .. Len(r.items)
    BY <1>1, <2>3
  <2>7. \E i \in 1 .. Len(r.items) : r.items[i].seq = n
    BY <1>2, <2>3, <2>6
  <2>8. (\A i \in 1 .. L : ~IsGap(q.items[i])) => (\A i \in 1 .. Len(r.items) : ~IsGap(r.items[i]))
    BY <1>2, <2>3, <2>4
  <2> QED
    BY <2>2, <2>5, <2>7, <2>8
<1>5. CASE L >= capacity
  <2>0. L \in 1 .. L /\ Back(q) = q.items[L] /\ Back(q) \in Items
    BY <1>1, <1>5 DEF Back
  <2>1. CASE e.kind = MotionKind /\ Back(q).kind = MotionKind
    <3>1. r = WithItems(q, ReplaceBack(q, e))
      BY <1>3, <1>1, <1>5, <2>1 DEF Enqueue
    <3> DEFINE items == [q.items EXCEPT ![L] = e]
    <3>2. /\ items \in Seq(Items) /\ Len(items) = L /\ items[L] = e
          /\ \A i \in 1 .. L : i # L => items[i] = q.items[i]
      BY <1>1, <1>2, <2>0, ExceptSeq
    <3>3. r = WithItems(q, items)
      BY <3>1 DEF ReplaceBack
    <3> HIDE DEF items
    <3>4. r.items = items /\ r.overflow = q.overflow /\ r.last = q.last /\ r \in Queues
      BY <1>1, <3>2, <3>3 DEF WithItems, Queue, Queues
    <3>a. \A i \in 1 .. Len(r.items) :
             \/ (r.items[i].seq = n /\ i = Len(r.items))
             \/ (i \in 1 .. L /\ r.items[i] = q.items[i])
      BY <1>2, <3>2, <3>4
    <3>5. /\ Ordered(r, n + 1)
          /\ \A i \in 1 .. Len(r.items) : ~IsGap(r.items[i]) =>
                \/ r.items[i].seq = n
                \/ \E j \in 1 .. Len(q.items) :
                      ~IsGap(q.items[j]) /\ r.items[i].seq = q.items[j].seq
      BY <3>4, <3>a, OrderedLater
    <3>6. \E i \in 1 .. Len(r.items) : r.items[i].seq = n
      BY <1>2, <2>0, <3>2, <3>4
    <3>7. (\A i \in 1 .. L : ~IsGap(q.items[i])) => (\A i \in 1 .. Len(r.items) : ~IsGap(r.items[i]))
      BY <1>2, <3>2, <3>4
    <3> QED
      BY <3>4, <3>5, <3>6, <3>7
  <2>2. CASE ~(e.kind = MotionKind /\ Back(q).kind = MotionKind)
    <3>1. r = MarkGap(q, e.seq) \/ r = MarkOverflow(q)
      BY <1>1, <1>3, <1>5, <2>2 DEF Enqueue
    <3> DEFINE g == Marker(q.last)
               items == [q.items EXCEPT ![L] = g]
    <3>2. g \in Items /\ IsGap(g) /\ e.seq \in Nat /\ Back(q).seq \in Nat
      BY <1>1, <1>2, <2>0 DEF Marker, Items
    <3>3. /\ items \in Seq(Items) /\ Len(items) = L /\ items[L] = g
          /\ \A i \in 1 .. L : i # L => items[i] = q.items[i]
      BY <1>1, <2>0, <3>2, ExceptSeq
    <3>4. /\ r.overflow = q.overflow + 1 /\ r.last = q.last /\ r \in Queues
          /\ (r.items = q.items \/ r.items = items)
      <4>2. CASE r = MarkOverflow(q)
        BY <1>1, <4>2 DEF MarkOverflow, Queue, Queues
      <4>3. CASE r = MarkGap(q, e.seq)
        BY <1>1, <2>0, <3>2, <4>3, MarkGapParts
      <4> QED
        BY <3>1, <4>2, <4>3
    <3> HIDE DEF items, g
    <3>5. \A i \in 1 .. Len(r.items) : IsGap(r.items[i]) \/ (i \in 1 .. L /\ r.items[i] = q.items[i])
      <4>1. CASE r.items = q.items
        BY <4>1
      <4>2. CASE r.items = items
        <5> SUFFICES ASSUME NEW i \in 1 .. Len(r.items)
                     PROVE  IsGap(r.items[i]) \/ (i \in 1 .. L /\ r.items[i] = q.items[i])
          OBVIOUS
        <5>1. i \in 1 .. L /\ r.items[i] = items[i]
          BY <3>3, <4>2
        <5>2. CASE i = L
          <6>1. r.items[i] = g
            BY <3>3, <5>1, <5>2
          <6> QED
            BY <3>2, <6>1
        <5>3. CASE i # L
          BY <3>3, <5>1, <5>3
        <5> QED
          BY <5>2, <5>3
      <4> QED
        BY <3>4, <4>1, <4>2
    <3>6. /\ Ordered(r, n + 1)
          /\ \A i \in 1 .. Len(r.items) : ~IsGap(r.items[i]) =>
                \/ r.items[i].seq = n
                \/ \E j \in 1 .. Len(q.items) :
                      ~IsGap(q.items[j]) /\ r.items[i].seq = q.items[j].seq
      BY <3>4, <3>5, OrderedLater
    <3>7. r.overflow # 0
      BY <1>1, <3>4
    <3> QED
      BY <3>4, <3>6, <3>7
  <2> QED
    BY <2>1, <2>2
<1> QED
  BY <1>1, <1>4, <1>5

\* try_pop() hands out the oldest event, which becomes the last one delivered.
LEMMA TryPopOrdered ==
    ASSUME NEW q \in Queues, NEW n \in Nat, Ordered(q, n), q.items # <<>>
    PROVE  /\ TryPop(q) \in Queues /\ Ordered(TryPop(q), n)
           /\ TryPop(q).items = Tail(q.items) /\ TryPop(q).overflow = q.overflow
           /\ TryPop(q).last = IF IsGap(Head(q.items)) THEN q.last ELSE Head(q.items).seq
           /\ Head(q.items) = q.items[1] /\ Len(q.items) \in Nat \ {0}
           /\ Len(Tail(q.items)) = Len(q.items) - 1
           /\ \A i \in 1 .. Len(q.items) - 1 : Tail(q.items)[i] = q.items[i + 1]
           /\ ~IsGap(Head(q.items)) =>
                 q.last < Head(q.items).seq /\ Head(q.items).seq < n
<1> DEFINE r == TryPop(q)
<1>1. /\ q.items \in Seq(Items) /\ q.overflow \in Nat /\ q.resync \in BOOLEAN /\ q.last \in Nat
      /\ q.lost \subseteq Nat /\ Len(q.items) \in Nat
      /\ \A i \in 1 .. Len(q.items) : q.items[i] \in Items /\ q.items[i].seq \in Nat
  BY QueueFields
<1>2. /\ Tail(q.items) \in Seq(Items) /\ Head(q.items) = q.items[1]
      /\ Len(q.items) \in Nat \ {0}
      /\ Len(Tail(q.items)) = Len(q.items) - 1
      /\ \A i \in 1 .. Len(q.items) - 1 : Tail(q.items)[i] = q.items[i + 1]
  BY <1>1, HeadTailProperties, EmptySeq
<1>3. Head(q.items).seq \in Nat
  BY <1>1, <1>2
<1>4. /\ r.items = Tail(q.items) /\ r.overflow = q.overflow /\ r \in Queues
      /\ r.last = IF IsGap(Head(q.items)) THEN q.last ELSE Head(q.items).seq
  BY <1>1, <1>2, <1>3 DEF TryPop, TryPopItem, WithItems, Queue, Queues
<1> HIDE DEF r
<1>5. ~IsGap(Head(q.items)) => q.last < Head(q.items).seq /\ Head(q.items).seq < n
  BY <1>1, <1>2 DEF Ordered
<1>6. Ordered(r, n)
  <2>1. /\ q.last < n
        /\ \A i \in 1 .. Len(q.items) :
              ~IsGap(q.items[i]) => q.last < q.items[i].seq /\ q.items[i].seq < n
        /\ \A i, j \in 1 .. Len(q.items) :
              i < j /\ ~IsGap(q.items[i]) /\ ~IsGap(q.items[j]) => q.items[i].seq < q.items[j].seq
    BY DEF Ordered
  <2>2. r.last < n
    BY <1>4, <1>5, <2>1
  <2>3. ASSUME NEW i \in 1 .. Len(r.items), ~IsGap(r.items[i])
        PROVE  r.last < r.items[i].seq /\ r.items[i].seq < n
    <3>1. r.items[i] = q.items[i + 1] /\ i + 1 \in 1 .. Len(q.items) /\ 1 \in 1 .. Len(q.items)
      BY <1>2, <1>4
    <3> QED
      BY <1>2, <1>4, <2>1, <2>3, <3>1
  <2>4. ASSUME NEW i \in 1 .. Len(r.items), NEW j \in 1 .. Len(r.items), i < j,
               ~IsGap(r.items[i]), ~IsGap(r.items[j])
        PROVE  r.items[i].seq < r.items[j].seq
    <3>1. /\ r.items[i] = q.items[i + 1] /\ i + 1 \in 1 .. Len(q.items)
          /\ r.items[j] = q.items[j + 1] /\ j + 1 \in 1 .. Len(q.items)
          /\ i + 1 < j + 1
      BY <1>2, <1>4, <2>4
    <3> QED
      BY <2>1, <2>4, <3>1
  <2> QED
    BY <2>2, <2>3, <2>4 DEF Ordered
<1> QED
  BY <1>2, <1>4, <1>5, <1>6 DEF r
-----------------------------------------------------------------------------
(* Files.                                                                  *)

Files == [there : BOOLEAN, lines : Seq(Nat), synced : Nat, torn : BOOLEAN,
          spoilt : SUBSET Nat, linked : BOOLEAN]

FileOK(f) ==
    /\ f \in Files
    /\ f.synced <= Len(f.lines)
    /\ ~f.there => f.lines = <<>>

\* The lines of a file that survive a crash.
Safe(f) == {f.lines[i] : i \in 1 .. f.synced}

LEMMA FileFields ==
    ASSUME NEW f, FileOK(f)
    PROVE  /\ f.there \in BOOLEAN /\ f.torn \in BOOLEAN /\ f.linked \in BOOLEAN
           /\ f.lines \in Seq(Nat) /\ Len(f.lines) \in Nat /\ f.synced \in Nat
           /\ f.synced <= Len(f.lines)
           /\ \A i \in 1 .. Len(f.lines) : f.lines[i] \in Nat
           /\ \A x \in Range(f.lines) : \E i \in 1 .. Len(f.lines) : x = f.lines[i]
           /\ \A i \in 1 .. Len(f.lines) : f.lines[i] \in Range(f.lines)
           /\ Safe(f) \subseteq Range(f.lines)
           /\ ~f.there => f.lines = <<>> /\ Range(f.lines) = {}
<1>1. f.lines \in Seq(Nat) /\ f.synced \in Nat /\ f.synced <= Len(f.lines)
  BY DEF FileOK, Files
<1>2. Len(f.lines) \in Nat /\ DOMAIN f.lines = 1 .. Len(f.lines)
  BY <1>1
<1>3. Range(f.lines) = {f.lines[i] : i \in 1 .. Len(f.lines)}
  BY <1>2 DEF Range
<1>4. \A i \in 1 .. f.synced : i \in 1 .. Len(f.lines)
  BY <1>1, <1>2
<1>5. Safe(f) \subseteq Range(f.lines)
  BY <1>3, <1>4 DEF Safe
<1>6. ~f.there => f.lines = <<>> /\ Range(f.lines) = {}
  BY <1>3 DEF FileOK
<1> QED
  BY <1>1, <1>2, <1>3, <1>5, <1>6 DEF FileOK, Files

LEMMA EmptyFiles ==
    ASSUME NEW f, f = Absent \/ f = NewFile \/ f = [NewFile EXCEPT !.linked = FALSE]
    PROVE  /\ FileOK(f) /\ f.lines = <<>> /\ Range(f.lines) = {} /\ Safe(f) = {}
           /\ f = Absent => ~f.there
           /\ f # Absent => f.there
<1> DEFINE Empty(t, l) == [there |-> t, lines |-> <<>>, synced |-> 0, torn |-> FALSE,
                           spoilt |-> {}, linked |-> l]
<1>1. PICK t \in BOOLEAN, l \in BOOLEAN : f = Empty(t, l) /\ (~t => f = Absent)
  BY DEF Absent, NewFile
<1>2. <<>> \in Seq(Nat) /\ Len(<<>>) = 0
  OBVIOUS
<1>3. f \in Files /\ f.lines = <<>> /\ f.synced = 0 /\ f.there = t
  BY <1>1, <1>2 DEF Files
<1>4. f = Absent => ~f.there
  BY DEF Absent
<1>5. Range(<<>>) = {}
  BY DEF Range
<1> QED
  BY <1>1, <1>2, <1>3, <1>4, <1>5 DEF FileOK, Safe

\* new is old with the first n of the lines at its end.
Lengthened(new, old, lines, n) ==
    /\ new \in Seq(Nat) /\ Len(new) = Len(old) + n
    /\ \A i \in 1 .. Len(old) : new[i] = old[i]
    /\ \A i \in 1 .. n : new[Len(old) + i] = lines[i]

LEMMA ConcatLengthens ==
    ASSUME NEW old \in Seq(Nat), NEW lines \in Seq(Nat), NEW n \in 0 .. Len(lines)
    PROVE  Lengthened(old \o SubSeq(lines, 1, n), old, lines, n)
<1> DEFINE s == SubSeq(lines, 1, n)
           L == Len(old)
           new == old \o s
<1>1. s \in Seq(Nat) /\ Len(s) = n /\ \A i \in 1 .. n : s[i] = lines[i]
  BY SubSeqProperties
<1>2. L \in Nat
  OBVIOUS
<1> HIDE DEF s, L
<1>3. /\ new \in Seq(Nat) /\ Len(new) = L + Len(s)
      /\ \A i \in 1 .. L + Len(s) : new[i] = IF i <= L THEN old[i] ELSE s[i - L]
  BY <1>1, ConcatProperties, Zenon DEF L
<1> HIDE DEF new
<1>5. /\ \A i \in 1 .. L : i \in 1 .. L + n /\ i <= L
      /\ \A i \in 1 .. n : L + i \in 1 .. L + n /\ ~(L + i <= L) /\ (L + i) - L = i
  BY <1>2
<1>6. new \in Seq(Nat) /\ Len(new) = L + n
  BY <1>1, <1>3
<1>7. (\A i \in 1 .. L : new[i] = old[i]) /\ \A i \in 1 .. n : new[L + i] = s[i]
  BY <1>1, <1>3, <1>5
<1>8. Lengthened(new, old, lines, n)
  BY <1>1, <1>6, <1>7 DEF L, Lengthened
<1> QED
  BY <1>8 DEF new, s

\* write_all(): the file is as it was, with lines at its end.
FileLengthened(g, f, lines, n) ==
    /\ FileOK(g) /\ g.there /\ Safe(g) = Safe(f)
    /\ Len(g.lines) = Len(f.lines) + n
    /\ \A i \in 1 .. Len(f.lines) : g.lines[i] = f.lines[i]
    /\ \A i \in 1 .. n : g.lines[Len(f.lines) + i] = lines[i]
    /\ Range(f.lines) \subseteq Range(g.lines)
    /\ \A i \in 1 .. n : lines[i] \in Range(g.lines)
    /\ \A x \in Range(g.lines) : x \in Range(f.lines) \/ \E i \in 1 .. n : x = lines[i]

LEMMA AppendedFile ==
    ASSUME NEW f, FileOK(f), NEW lines, NEW n \in Nat, NEW g \in Files, g.there,
           g.synced = f.synced, Lengthened(g.lines, f.lines, lines, n)
    PROVE  FileLengthened(g, f, lines, n)
<1> DEFINE L == Len(f.lines)
<1>1. L \in Nat /\ f.synced \in Nat /\ f.synced <= L
  BY FileFields
<1>3. /\ Len(g.lines) = L + n
      /\ \A i \in 1 .. L : g.lines[i] = f.lines[i]
      /\ \A i \in 1 .. n : g.lines[L + i] = lines[i]
  BY DEF Lengthened
<1>5. FileOK(g)
  BY <1>1, <1>3 DEF FileOK
<1>6. Safe(g) = Safe(f)
  <2>1. \A i \in 1 .. f.synced : g.lines[i] = f.lines[i]
    BY <1>1, <1>3
  <2> QED
    BY <2>1 DEF Safe
<1>7. Range(f.lines) \subseteq Range(g.lines)
  <2> SUFFICES ASSUME NEW x \in Range(f.lines) PROVE x \in Range(g.lines)
    OBVIOUS
  <2>1. PICK i \in 1 .. L : x = f.lines[i]
    BY FileFields
  <2>2. i \in 1 .. Len(g.lines) /\ g.lines[i] = x
    BY <1>1, <1>3, <2>1
  <2> QED
    BY <1>5, <2>2, FileFields
<1>8. ASSUME NEW i \in 1 .. n PROVE lines[i] \in Range(g.lines)
  <2>1. L + i \in 1 .. L + n
    BY <1>1
  <2>2. L + i \in 1 .. Len(g.lines) /\ g.lines[L + i] = lines[i]
    BY <1>3, <2>1
  <2> QED
    BY <1>5, <2>2, FileFields
<1>9. ASSUME NEW x \in Range(g.lines)
      PROVE  x \in Range(f.lines) \/ \E i \in 1 .. n : x = lines[i]
  <2>1. PICK i \in 1 .. L + n : x = g.lines[i]
    <3>1. PICK i \in 1 .. Len(g.lines) : x = g.lines[i]
      BY <1>5, FileFields
    <3> QED
      BY <1>3, <3>1
  <2>2. CASE i <= L
    <3>1. i \in 1 .. L /\ x = f.lines[i]
      BY <1>1, <1>3, <2>1, <2>2
    <3> QED
      BY <3>1, FileFields
  <2>3. CASE i > L
    <3>1. i - L \in 1 .. n /\ i = L + (i - L)
      BY <1>1, <2>1, <2>3
    <3>2. x = lines[i - L]
      BY <1>3, <2>1, <3>1
    <3> QED
      BY <3>1, <3>2
  <2> QED
    BY <1>1, <2>2, <2>3
<1> QED
  BY <1>3, <1>5, <1>6, <1>7, <1>8, <1>9 DEF FileLengthened

LEMMA AppendedBatch ==
    ASSUME NEW f, FileOK(f), f.there, NEW lines \in Seq(Nat), NEW n \in 0 .. Len(lines),
           NEW torn \in BOOLEAN, NEW spoilt \in SUBSET Nat, NEW g,
           g = [f EXCEPT !.lines = f.lines \o SubSeq(lines, 1, n), !.torn = torn,
                         !.spoilt = spoilt]
    PROVE  FileLengthened(g, f, lines, n)
<1> DEFINE new == f.lines \o SubSeq(lines, 1, n)
<1>1. Lengthened(new, f.lines, lines, n)
  <2>1. f.lines \in Seq(Nat)
    BY FileFields
  <2> QED
    BY <2>1, ConcatLengthens
<1>2. f \in Files /\ n \in Nat /\ new \in Seq(Nat)
  BY <1>1 DEF FileOK, Lengthened
<1> HIDE DEF new
<1>3. /\ g \in Files /\ g.there /\ g.synced = f.synced /\ g.lines = new
  BY <1>2 DEF Files, new
<1> QED
  BY <1>1, <1>2, <1>3, AppendedFile

LEMMA AppendedFully ==
    ASSUME NEW f, FileOK(f), f.there, NEW lines \in Seq(Nat), NEW n \in 0 .. Len(lines),
           NEW cut \in BOOLEAN
    PROVE  FileLengthened(Appended(f, lines, n, cut), f, lines, n)
<1> DEFINE torn   == cut \/ (n = 0 /\ f.torn)
           spoilt == IF f.torn /\ n > 0 THEN f.spoilt \cup {Len(f.lines) + 1} ELSE f.spoilt
<1>1. torn \in BOOLEAN /\ spoilt \in SUBSET Nat
  BY FileFields DEF FileOK, Files
<1>2. Appended(f, lines, n, cut) =
        [f EXCEPT !.lines = f.lines \o SubSeq(lines, 1, n), !.torn = torn, !.spoilt = spoilt]
  BY DEF Appended
<1> HIDE DEF torn, spoilt
<1> QED
  BY <1>1, <1>2, AppendedBatch

\* fsync_current_file(): all that was written is safe.
LEMMA SyncedFile ==
    ASSUME NEW f, FileOK(f), NEW g, g = [f EXCEPT !.synced = Len(f.lines)]
    PROVE  /\ FileOK(g) /\ g.lines = f.lines /\ g.there = f.there
           /\ Range(g.lines) \subseteq Safe(g) /\ Safe(f) \subseteq Safe(g)
<1>1. f \in Files /\ Len(f.lines) \in Nat
  BY FileFields DEF FileOK
<1>2. g \in Files /\ g.lines = f.lines /\ g.there = f.there /\ g.synced = Len(f.lines)
  BY <1>1 DEF Files
<1>3. FileOK(g)
  BY <1>1, <1>2 DEF FileOK
<1>4. Range(g.lines) \subseteq Safe(g)
  <2> SUFFICES ASSUME NEW x \in Range(g.lines) PROVE x \in Safe(g)
    OBVIOUS
  <2>1. PICK i \in 1 .. Len(g.lines) : x = g.lines[i]
    BY <1>3, FileFields
  <2> QED
    BY <1>2, <2>1 DEF Safe
<1>5. Safe(f) \subseteq Range(g.lines)
  BY <1>2, FileFields
<1> QED
  BY <1>2, <1>3, <1>4, <1>5

\* What a crash leaves of a file: a prefix with all that was safe, or nothing of
\* a file whose directory entry was not.
LEMMA SurvivorFile ==
    ASSUME NEW f, FileOK(f), NEW g \in Survivors(f)
    PROVE  /\ FileOK(g)
           /\ g.there => f.there /\ Safe(g) = Safe(f)
           /\ ~g.there => g.lines = <<>>
           /\ Len(g.lines) <= Len(f.lines)
           /\ \A i \in 1 .. Len(g.lines) : g.lines[i] = f.lines[i]
           /\ Range(g.lines) \subseteq Range(f.lines)
<1>1. /\ f.there \in BOOLEAN /\ f.torn \in BOOLEAN /\ f.linked \in BOOLEAN
      /\ f.lines \in Seq(Nat) /\ Len(f.lines) \in Nat /\ f.synced \in Nat
      /\ f.synced <= Len(f.lines)
      /\ \A i \in 1 .. Len(f.lines) : f.lines[i] \in Nat
      /\ \A i \in 1 .. Len(f.lines) : f.lines[i] \in Range(f.lines)
  BY FileFields
<1>2. SUFFICES /\ FileOK(g)
               /\ g.there => f.there /\ Safe(g) = Safe(f)
               /\ Len(g.lines) <= Len(f.lines)
               /\ \A i \in 1 .. Len(g.lines) : g.lines[i] = f.lines[i]
  <2>1. Range(g.lines) \subseteq Range(f.lines)
    <3> SUFFICES ASSUME NEW x \in Range(g.lines) PROVE x \in Range(f.lines)
      OBVIOUS
    <3>1. PICK i \in 1 .. Len(g.lines) : x = g.lines[i]
      BY <1>2, FileFields
    <3>2. i \in 1 .. Len(f.lines)
      BY <1>1, <1>2, <3>1, FileFields
    <3> QED
      BY <1>1, <1>2, <3>1, <3>2
  <2> QED
    BY <1>2, <2>1 DEF FileOK
<1>3. CASE ~f.there
  <2>1. g = f
    BY <1>3 DEF Survivors
  <2> QED
    BY <1>1, <1>3, <2>1
<1>4. CASE g = Absent
  <2>1. FileOK(g) /\ ~g.there /\ Len(g.lines) = 0
    BY <1>4, EmptyFiles
  <2> QED
    BY <1>1, <2>1
<1>5. CASE f.there /\ g # Absent
  <2>1. PICK n \in f.synced .. Len(f.lines), cut \in BOOLEAN :
           g = [f EXCEPT !.lines = SubSeq(f.lines, 1, n), !.torn = cut,
                         !.spoilt = f.spoilt \cap (1 .. n)]
    BY <1>5 DEF Survivors
  <2> DEFINE s == SubSeq(f.lines, 1, n)
  <2>2. n \in Nat /\ n <= Len(f.lines) /\ f.synced <= n
    BY <1>1, <2>1
  <2>3. \A i \in 1 .. n : f.lines[i] \in Nat
    BY <1>1, <2>2
  <2>4. s \in Seq(Nat) /\ Len(s) = n /\ \A i \in 1 .. n : s[i] = f.lines[i]
    BY <2>2, <2>3, SubSeqProperties
  <2>a. g = [f EXCEPT !.lines = s, !.torn = cut, !.spoilt = f.spoilt \cap (1 .. n)]
    BY <2>1
  <2> HIDE DEF s
  <2>5. g \in Files /\ g.lines = s /\ g.there /\ g.synced = f.synced
    BY <1>1, <1>5, <2>a, <2>4 DEF FileOK, Files
  <2>6. Safe(g) = Safe(f)
    <3>1. \A i \in 1 .. f.synced : s[i] = f.lines[i]
      BY <1>1, <2>2, <2>4
    <3> QED
      BY <2>5, <3>1 DEF Safe
  <2> QED
    BY <1>5, <2>2, <2>4, <2>5, <2>6 DEF FileOK
<1> QED
  BY <1>1, <1>3, <1>4, <1>5

\* A directory without files is within any limits.
LEMMA EmptyDirectory ==
    ASSUME NEW files, Present(files) = {}
    PROVE  ~OverLimit(files)
<1> DEFINE iter[s \in SUBSET {}] ==
             IF s = {} THEN 0
             ELSE LET x == CHOOSE z \in s : TRUE IN Size(files[x]) + iter[s \ {x}]
           none == [s \in SUBSET {} |-> 0]
<1>1. OverLimit(files) <=> Cardinality({}) > MaxFiles \/ iter[{}] > DiskBudget
  BY DEF MapThenSumSet, MapThenFoldSet, OverLimit
<1>2. iter = CHOOSE f : f = [s \in SUBSET {} |->
                               IF s = {} THEN 0
                               ELSE LET x == CHOOSE z \in s : TRUE
                                    IN  Size(files[x]) + f[s \ {x}]]
  BY DEF iter
<1>3. none = [s \in SUBSET {} |->
                 IF s = {} THEN 0
                 ELSE LET x == CHOOSE z \in s : TRUE IN Size(files[x]) + none[s \ {x}]]
  OBVIOUS
<1>4. iter = [s \in SUBSET {} |->
                 IF s = {} THEN 0
                 ELSE LET x == CHOOSE z \in s : TRUE IN Size(files[x]) + iter[s \ {x}]]
  BY <1>2, <1>3
<1>5. iter[{}] = 0
  BY <1>4
<1>6. Cardinality({}) = 0
  BY FS_EmptySet
<1> QED
  BY <1>1, <1>5, <1>6, SinkAssumption DEF SinkAssumption

\* A bounded nonempty set of naturals has a greatest element.
LEMMA Greatest ==
    ASSUME NEW S \in SUBSET Nat, S # {}, NEW b \in Nat, \A y \in S : y <= b
    PROVE  Max(S) \in S
<1> DEFINE Less == {ss \in Nat \X Nat : ss[1] < ss[2]}
           Down == {b - y : y \in S}
<1>1. OpToRel(<, Nat) = Less
  BY Zenon DEF OpToRel
<1>2. IsWellFoundedOn(Less, Nat)
  BY <1>1, NatLessThanWellFounded, Zenon
<1>3. Down \in SUBSET Nat /\ Down # {}
  <2>1. \A y \in S : b - y \in Nat
    OBVIOUS
  <2> QED
    BY <2>1
<1> HIDE DEF Less, Down
<1>4. PICK x \in Down : \A y \in Down : ~(<<y, x>> \in Less)
  BY <1>2, <1>3, WFMin
<1>5. PICK m \in S : x = b - m
  BY <1>4 DEF Down
<1>6. ASSUME NEW y \in S PROVE m >= y
  <2>1. b - y \in Down /\ b - y \in Nat /\ x \in Nat
    BY <1>3, <1>4 DEF Down
  <2>2. ~(b - y < x)
    BY <1>4, <2>1 DEF Less
  <2> QED
    BY <1>5, <2>2
<1> QED
  BY <1>6 DEF Max

\* A nonempty set of naturals has a least element.
LEMMA Least ==
    ASSUME NEW S \in SUBSET Nat, S # {}
    PROVE  Min(S) \in S
<1> DEFINE Less == {ss \in Nat \X Nat : ss[1] < ss[2]}
<1>1. OpToRel(<, Nat) = Less
  BY Zenon DEF OpToRel
<1>2. IsWellFoundedOn(Less, Nat)
  BY <1>1, NatLessThanWellFounded, Zenon
<1> HIDE DEF Less
<1>3. PICK x \in S : \A y \in S : ~(<<y, x>> \in Less)
  BY <1>2, WFMin
<1>4. ASSUME NEW y \in S PROVE x <= y
  <2>1. x \in Nat /\ y \in Nat /\ ~(<<y, x>> \in Less)
    BY <1>3
  <2>2. ~(y < x)
    BY <2>1 DEF Less
  <2> QED
    BY <2>1, <2>2
<1> QED
  BY <1>4 DEF Min
-----------------------------------------------------------------------------
(* The sink, the queue in front of it and the disk behind it.              *)

Storable    == {e \in Events : DateOf[e] \in Days}
FlushPlaces == {"idle", "open", "write", "sync", "retain"}
Busy        == flush.at \in {"open", "write", "sync"}

StoreType ==
    /\ buffer \in Seq(Storable)
    /\ flush \in [at : FlushPlaces, pos : Nat]
    /\ faults \in Nat
    /\ disk \in [Days -> Files]
    /\ \A d \in Days : FileOK(disk[d])
    /\ published \in 0 .. MaxEvents
    /\ queue \in Queues

\* How far a flush is, and what it has done so far.
FlushInv ==
    /\ Busy => /\ flush.pos \in 1 .. Len(buffer)
               /\ \A i \in 1 .. flush.pos - 1 : buffer[i] \in Safe(disk[DateOf[buffer[i]]])
    /\ flush.at \in {"write", "sync"} => fd = Today /\ disk[Today].there
    /\ flush.at = "sync" => \A i \in flush.pos .. BatchEnd : buffer[i] \in LinesOf(Today)
    /\ flush.at = "retain" => buffer = <<>>

\* What was acknowledged is safe, or gone for a known reason.
AckedInv == acked \subseteq (UNION {Safe(disk[d]) : d \in Days}) \cup reaped \cup adrift

\* The first line of the buffer that no file holds, when no call failed.
Unwritten ==
    CASE flush.at \in {"open", "write"} -> flush.pos
      [] flush.at = "sync" -> BatchEnd + 1
      [] OTHER -> 1

Increasing(s) == \A i, j \in 1 .. Len(s) : i < j => s[i] < s[j]

\* From the disk to the queue, every event is older than the ones behind it.
FileOrder(d) ==
    /\ Increasing(disk[d].lines)
    /\ \A x \in LinesOf(d) : \A i \in Unwritten .. Len(buffer) : x < buffer[i]
    /\ \A x \in LinesOf(d) : \A i \in 1 .. Len(queue.items) :
          ~IsGap(queue.items[i]) => x < queue.items[i].seq

OrderInv ==
    /\ Ordered(queue, published + 1)
    /\ Increasing(buffer)
    /\ \A i \in 1 .. Len(buffer) : buffer[i] <= queue.last
    /\ \A d \in Days : \A x \in LinesOf(d) : x <= published
    /\ faults = 0 => \A d \in Days : FileOrder(d)

StoreInv == StoreType /\ FlushInv /\ AckedInv /\ OrderInv /\ RetentionHeld

LEMMA StoreFacts ==
    ASSUME StoreType
    PROVE  /\ Len(buffer) \in Nat
           /\ \A i \in 1 .. Len(buffer) : /\ buffer[i] \in Storable /\ buffer[i] \in Nat
                                          /\ DateOf[buffer[i]] \in Days
                                          /\ DateOf[buffer[i]] # NoDate
           /\ flush.at \in FlushPlaces /\ flush.pos \in Nat
           /\ flush = [at |-> flush.at, pos |-> flush.pos]
           /\ published \in Nat /\ published <= MaxEvents /\ MaxEvents \in Nat
           /\ queue.last \in Nat /\ Len(queue.items) \in Nat
<1>1. buffer \in Seq(Storable) /\ flush \in [at : FlushPlaces, pos : Nat] /\ queue \in Queues
      /\ published \in 0 .. MaxEvents
  BY DEF StoreType
<1>2. MaxEvents \in Nat /\ Days \subseteq Nat \ {NoDate}
  BY SinkAssumption DEF SinkAssumption
<1>3. \A e \in Storable : e \in Nat /\ DateOf[e] \in Days /\ DateOf[e] # NoDate
  BY <1>2 DEF Storable, Events, NoDate
<1>4. Len(buffer) \in Nat /\ \A i \in 1 .. Len(buffer) : buffer[i] \in Storable
  BY <1>1
<1>5. queue.last \in Nat /\ Len(queue.items) \in Nat
  BY <1>1, QueueFields
<1> QED
  BY <1>1, <1>2, <1>3, <1>4, <1>5

\* The batch that starts at flush.pos: lines of one date, up to its end.
LEMMA BatchFacts ==
    ASSUME StoreType, flush.pos \in 1 .. Len(buffer)
    PROVE  /\ BatchEnd \in flush.pos .. Len(buffer) /\ BatchEnd \in Nat
           /\ Today \in Days
           /\ \A i \in flush.pos .. BatchEnd : DateOf[buffer[i]] = Today
           /\ Batch \in Seq(Nat) /\ Len(Batch) = BatchEnd - flush.pos + 1
           /\ \A i \in 1 .. Len(Batch) :
                 flush.pos + i - 1 \in flush.pos .. BatchEnd /\ Batch[i] = buffer[flush.pos + i - 1]
           /\ \A i \in flush.pos .. BatchEnd :
                 i - flush.pos + 1 \in 1 .. Len(Batch) /\ Batch[i - flush.pos + 1] = buffer[i]
<1> DEFINE S == {i \in flush.pos .. Len(buffer) :
                    \A j \in flush.pos .. i : DateOf[buffer[j]] = Today}
<1>1. /\ Len(buffer) \in Nat /\ flush.pos \in Nat
      /\ \A i \in 1 .. Len(buffer) : buffer[i] \in Nat /\ DateOf[buffer[i]] \in Days
  BY StoreFacts
<1>2. Today = DateOf[buffer[flush.pos]]
  BY DEF Today
<1>3. S \in SUBSET Nat /\ (\A y \in S : y <= Len(buffer))
  BY <1>1
<1>4. flush.pos \in S
  <2>1. flush.pos \in flush.pos .. Len(buffer)
    BY <1>1
  <2>2. \A j \in flush.pos .. flush.pos : j = flush.pos
    BY <1>1
  <2> QED
    BY <1>2, <2>1, <2>2
<1>5. BatchEnd = Max(S)
  BY DEF BatchEnd
<1>6. BatchEnd \in S
  BY <1>1, <1>3, <1>4, <1>5, Greatest
<1>7. /\ BatchEnd \in flush.pos .. Len(buffer) /\ BatchEnd \in Nat
      /\ \A i \in flush.pos .. BatchEnd : DateOf[buffer[i]] = Today
  BY <1>1, <1>6
<1>8. Today \in Days
  BY <1>1, <1>2
<1> HIDE DEF S
<1>9. \A i \in flush.pos .. BatchEnd : buffer[i] \in Nat
  BY <1>1, <1>7
<1>10. /\ Batch \in Seq(Nat)
       /\ Len(Batch) = IF flush.pos <= BatchEnd THEN BatchEnd - flush.pos + 1 ELSE 0
       /\ \A i \in 1 .. BatchEnd - flush.pos + 1 : Batch[i] = buffer[flush.pos + i - 1]
  BY <1>1, <1>7, <1>9, SubSeqProperties DEF Batch
<1>11. Len(Batch) = BatchEnd - flush.pos + 1
  BY <1>1, <1>7, <1>10
<1>12. ASSUME NEW i \in 1 .. Len(Batch)
       PROVE  flush.pos + i - 1 \in flush.pos .. BatchEnd /\ Batch[i] = buffer[flush.pos + i - 1]
  BY <1>1, <1>7, <1>10, <1>11
<1>13. ASSUME NEW i \in flush.pos .. BatchEnd
       PROVE  i - flush.pos + 1 \in 1 .. Len(Batch) /\ Batch[i - flush.pos + 1] = buffer[i]
  <2>1. i - flush.pos + 1 \in 1 .. Len(Batch) /\ flush.pos + (i - flush.pos + 1) - 1 = i
    BY <1>1, <1>7, <1>11
  <2> QED
    BY <1>12, <2>1
<1> QED
  BY <1>7, <1>8, <1>10, <1>11, <1>12, <1>13

LEMMA BatchKept ==
    ASSUME buffer' = buffer, flush'.pos = flush.pos
    PROVE  BatchEnd' = BatchEnd /\ Today' = Today
<1>1. Today' = Today
  BY DEF Today
<1> DEFINE S == {i \in flush.pos .. Len(buffer) :
                    \A j \in flush.pos .. i : DateOf[buffer[j]] = Today}
<1>2. S' = S
  BY <1>1
<1>3. BatchEnd = Max(S) /\ BatchEnd' = Max(S')
  BY DEF BatchEnd
<1> HIDE DEF S
<1> QED
  BY <1>1, <1>2, <1>3

\* The directory only gained: no file went, and none lost a line.
Grown ==
    /\ disk' \in [Days -> Files]
    /\ \A d \in Days :
          /\ FileOK(disk'[d])
          /\ Safe(disk[d]) \subseteq Safe(disk'[d])
          /\ Range(disk[d].lines) \subseteq Range(disk'[d].lines)
          /\ disk[d].there => disk'[d].there

LEMMA GrownSame == StoreType /\ disk' = disk => Grown
  BY DEF StoreType, Grown

\* One file of the directory is replaced by one with at least its lines.
LEMMA GrownFile ==
    ASSUME StoreType, NEW d \in Days, NEW g, disk' = [disk EXCEPT ![d] = g],
           FileOK(g), Safe(disk[d]) \subseteq Safe(g),
           Range(disk[d].lines) \subseteq Range(g.lines), disk[d].there => g.there
    PROVE  Grown
  BY DEF StoreType, Grown, FileOK

\* A flush that gives up leaves the buffer, and what it acknowledged is safe.
LEMMA FailKeeps ==
    ASSUME StoreInv, Fail, Grown, UNCHANGED <<queue, published>>,
           \A d \in Days : \A x \in Range(disk'[d].lines) : x <= published
    PROVE  StoreInv'
<1>1. /\ StoreType /\ AckedInv /\ OrderInv
      /\ faults \in Nat /\ faults' = faults + 1
      /\ flush' = Idle /\ outcome' = "error" /\ buffer' = buffer /\ acked' = acked
      /\ reaped' = reaped /\ adrift' = adrift
  BY DEF StoreInv, StoreType, Fail
<1>2. StoreType'
  BY <1>1 DEF StoreType, Grown, Idle, FlushPlaces
<1>3. FlushInv'
  BY <1>1 DEF FlushInv, Idle, Busy
<1>4. AckedInv'
  BY <1>1 DEF AckedInv, Grown
<1>5. OrderInv'
  <2>1. faults' # 0
    BY <1>1
  <2>2. \A d \in Days : \A x \in LinesOf(d)' : x <= published'
    BY DEF LinesOf
  <2>3. /\ Ordered(queue, published + 1)' /\ Increasing(buffer)'
        /\ (\A i \in 1 .. Len(buffer) : buffer[i] <= queue.last)'
    BY <1>1 DEF OrderInv, Increasing, Ordered
  <2> QED
    BY <2>1, <2>2, <2>3 DEF OrderInv
<1>6. RetentionHeld'
  BY <1>1 DEF RetentionHeld
<1> QED
  BY <1>2, <1>3, <1>4, <1>5, <1>6 DEF StoreInv

\* A new file is empty.
LEMMA NewFileGrows ==
    ASSUME StoreType, Today \in Days, ~disk[Today].there, NEW g,
           g = NewFile \/ g = [NewFile EXCEPT !.linked = FALSE],
           disk' = [disk EXCEPT ![Today] = g]
    PROVE  /\ Grown /\ disk'[Today].there
           /\ \A d \in Days : disk'[d].lines = disk[d].lines
<1>1. FileOK(g) /\ g.lines = <<>> /\ g.there
  <2>1. g.there
    BY DEF Absent, NewFile
  <2> QED
    BY <2>1, EmptyFiles
<1>2. FileOK(disk[Today]) /\ disk \in [Days -> Files]
  BY DEF StoreType
<1>3. disk[Today].lines = <<>> /\ Range(disk[Today].lines) = {} /\ Safe(disk[Today]) = {}
  BY <1>2, FileFields
<1>4. Grown
  BY <1>1, <1>3, GrownFile
<1> QED
  BY <1>1, <1>2, <1>3, <1>4

\* The parts of OrderInv that a step of flush() can only disturb through disk.
LEMMA OrderKept ==
    ASSUME StoreInv, UNCHANGED <<buffer, queue, published, faults>>,
           \A d \in Days : \A x \in LinesOf(d)' : x <= published,
           faults = 0 => \A d \in Days : FileOrder(d)'
    PROVE  OrderInv'
<1>1. OrderInv
  BY DEF StoreInv
<1>2. /\ Ordered(queue, published + 1)' /\ Increasing(buffer)'
      /\ (\A i \in 1 .. Len(buffer) : buffer[i] <= queue.last)'
  BY <1>1 DEF OrderInv, Increasing, Ordered
<1> QED
  BY <1>2 DEF OrderInv

\* open_for_date(): the file of the date is there, and nothing else changed.
LEMMA OpenForDateStep ==
    ASSUME StoreInv, OpenForDate, UNCHANGED <<queue, published>>
    PROVE  StoreInv' /\ Grown
<1>1. /\ StoreType /\ FlushInv /\ AckedInv /\ OrderInv
      /\ flush.at = "open" /\ fd' = Today
      /\ buffer' = buffer /\ outcome' = outcome /\ faults' = faults /\ acked' = acked
      /\ reaped' = reaped /\ adrift' = adrift
  BY DEF StoreInv, OpenForDate
<1>2. flush'.at = "write" /\ flush'.pos = flush.pos /\ flush' \in [at : FlushPlaces, pos : Nat]
  BY <1>1 DEF OpenForDate, StoreType, FlushPlaces
<1>3. flush.pos \in 1 .. Len(buffer)
  BY <1>1 DEF FlushInv, Busy
<1>4. Today \in Days /\ BatchEnd' = BatchEnd /\ Today' = Today
  BY <1>1, <1>2, <1>3, BatchFacts, BatchKept
<1>5. Grown /\ disk'[Today].there /\ \A d \in Days : disk'[d].lines = disk[d].lines
  <2>1. CASE disk[Today].there
    <3>1. disk' = disk
      BY <2>1 DEF OpenForDate
    <3> QED
      BY <1>1, <2>1, <3>1, GrownSame
  <2>2. CASE ~disk[Today].there
    <3>1. disk' = [disk EXCEPT ![Today] = NewFile]
      BY <2>2 DEF OpenForDate
    <3> QED
      BY <1>1, <1>4, <2>2, <3>1, NewFileGrows
  <2> QED
    BY <2>1, <2>2
<1>6. StoreType'
  BY <1>1, <1>2, <1>5 DEF StoreType, Grown
<1>7. FlushInv'
  <2>1. \A i \in 1 .. flush.pos - 1 : buffer[i] \in Safe(disk'[DateOf[buffer[i]]])
    <3> SUFFICES ASSUME NEW i \in 1 .. flush.pos - 1
                 PROVE  buffer[i] \in Safe(disk'[DateOf[buffer[i]]])
      OBVIOUS
    <3>1. i \in 1 .. Len(buffer) /\ DateOf[buffer[i]] \in Days
      BY <1>1, <1>3, StoreFacts
    <3>2. buffer[i] \in Safe(disk[DateOf[buffer[i]]])
      BY <1>1 DEF FlushInv, Busy
    <3> QED
      BY <1>5, <3>1, <3>2 DEF Grown
  <2> QED
    BY <1>1, <1>2, <1>3, <1>4, <1>5, <2>1 DEF FlushInv, Busy
<1>8. AckedInv'
  BY <1>1, <1>5 DEF AckedInv, Grown
<1>9. OrderInv'
  <2>1. Unwritten' = Unwritten
    BY <1>1, <1>2 DEF Unwritten
  <2>2. \A d \in Days : LinesOf(d)' = LinesOf(d)
    BY <1>5 DEF LinesOf
  <2>3. \A d \in Days : FileOrder(d) => FileOrder(d)'
    BY <1>1, <1>5, <2>1, <2>2 DEF FileOrder, Increasing
  <2> QED
    BY <1>1, <2>2, <2>3, OrderKept DEF OrderInv
<1>10. RetentionHeld'
  BY <1>2 DEF RetentionHeld, Ended
<1> QED
  BY <1>5, <1>6, <1>7, <1>8, <1>9, <1>10 DEF StoreInv

LEMMA OpenFailsStep ==
    ASSUME StoreInv, OpenFails, UNCHANGED <<queue, published>>
    PROVE  StoreInv' /\ Grown
<1>1. StoreType /\ FlushInv /\ OrderInv /\ flush.at = "open" /\ Fail
  BY DEF StoreInv, OpenFails
<1>2. Today \in Days
  BY <1>1, BatchFacts DEF FlushInv, Busy
<1>3. Grown /\ \A d \in Days : disk'[d].lines = disk[d].lines
  <2>1. CASE disk' = disk
    BY <1>1, <2>1, GrownSame
  <2>2. CASE ~disk[Today].there /\ disk' = [disk EXCEPT ![Today] = NewFile]
    BY <1>1, <1>2, <2>2, NewFileGrows
  <2>3. CASE /\ ~disk[Today].there
             /\ disk' = [disk EXCEPT ![Today] = [NewFile EXCEPT !.linked = FALSE]]
    BY <1>1, <1>2, <2>3, NewFileGrows
  <2> QED
    BY <2>1, <2>2, <2>3 DEF OpenFails
<1>4. \A d \in Days : \A x \in Range(disk'[d].lines) : x <= published
  BY <1>1, <1>3 DEF OrderInv, LinesOf
<1> QED
  BY <1>1, <1>3, <1>4, FailKeeps

\* write_all(), whole or cut short: lines of the batch, no younger than what the
\* queue delivered, at the end of the file of its date.
LEMMA WriteGrows ==
    ASSUME StoreInv, flush.at = "write", NEW n \in 0 .. Len(Batch), NEW cut \in BOOLEAN,
           disk' = [disk EXCEPT ![fd] = Appended(disk[fd], Batch, n, cut)]
    PROVE  /\ Grown
           /\ \A d \in Days : d # Today => disk'[d] = disk[d]
           /\ \A d \in Days : disk'[d].there = disk[d].there
           /\ Len(disk'[Today].lines) = Len(disk[Today].lines) + n
           /\ \A i \in 1 .. Len(disk[Today].lines) : disk'[Today].lines[i] = disk[Today].lines[i]
           /\ \A i \in 1 .. n : disk'[Today].lines[Len(disk[Today].lines) + i] = Batch[i]
           /\ \A i \in 1 .. n : Batch[i] \in Range(disk'[Today].lines)
           /\ \A x \in Range(disk'[Today].lines) :
                 x \in Range(disk[Today].lines) \/ \E i \in 1 .. n : x = Batch[i]
           /\ \A d \in Days : \A x \in Range(disk'[d].lines) : x <= published
<1>1. StoreType /\ FlushInv /\ OrderInv /\ flush.pos \in 1 .. Len(buffer)
      /\ fd = Today /\ disk[Today].there
  BY DEF StoreInv, FlushInv, Busy
<1>2. /\ Today \in Days /\ Batch \in Seq(Nat)
      /\ BatchEnd \in flush.pos .. Len(buffer)
      /\ \A i \in 1 .. Len(Batch) :
            flush.pos + i - 1 \in flush.pos .. BatchEnd /\ Batch[i] = buffer[flush.pos + i - 1]
  BY <1>1, BatchFacts
<1>3. FileOK(disk[Today]) /\ disk \in [Days -> Files]
  BY <1>1, <1>2 DEF StoreType
<1> DEFINE g == Appended(disk[Today], Batch, n, cut)
<1>4. disk' = [disk EXCEPT ![Today] = g]
  BY <1>1
<1> HIDE DEF g
<1>5. /\ FileOK(g) /\ g.there /\ Safe(g) = Safe(disk[Today])
      /\ Len(g.lines) = Len(disk[Today].lines) + n
      /\ \A i \in 1 .. Len(disk[Today].lines) : g.lines[i] = disk[Today].lines[i]
      /\ \A i \in 1 .. n : g.lines[Len(disk[Today].lines) + i] = Batch[i]
      /\ Range(disk[Today].lines) \subseteq Range(g.lines)
      /\ \A i \in 1 .. n : Batch[i] \in Range(g.lines)
      /\ \A x \in Range(g.lines) : x \in Range(disk[Today].lines) \/ \E i \in 1 .. n : x = Batch[i]
  <2>1. FileLengthened(g, disk[Today], Batch, n)
    BY <1>1, <1>2, <1>3, AppendedFully DEF g
  <2> QED
    BY <2>1 DEF FileLengthened
<1>6. disk'[Today] = g /\ \A d \in Days : d # Today => disk'[d] = disk[d]
  BY <1>2, <1>3, <1>4
<1>7. Grown
  BY <1>1, <1>2, <1>4, <1>5, GrownFile
<1>8. ASSUME NEW d \in Days, NEW x \in Range(disk'[d].lines) PROVE x <= published
  <2>1. CASE x \in Range(disk[d].lines)
    BY <1>1, <2>1 DEF OrderInv, LinesOf
  <2>2. CASE x \notin Range(disk[d].lines)
    <3>1. PICK i \in 1 .. n : x = Batch[i]
      BY <1>5, <1>6, <2>2
    <3>2. i \in 1 .. Len(Batch)
      BY <1>2
    <3>3. flush.pos + i - 1 \in 1 .. Len(buffer) /\ x = buffer[flush.pos + i - 1]
      BY <1>1, <1>2, <3>1, <3>2, StoreFacts
    <3>4. x \in Nat /\ x <= queue.last /\ queue.last < published + 1
      BY <1>1, <3>3, StoreFacts DEF OrderInv, Ordered
    <3> QED
      BY <1>1, <3>4, StoreFacts
  <2> QED
    BY <2>1, <2>2
<1>9. \A d \in Days : disk'[d].there = disk[d].there
  BY <1>1, <1>3, <1>5, <1>6 DEF FileOK, Files
<1> QED
  BY <1>3, <1>5, <1>6, <1>7, <1>8, <1>9 DEF FileLengthened

LEMMA WriteFailsStep ==
    ASSUME StoreInv, WriteFails, UNCHANGED <<queue, published>>
    PROVE  StoreInv' /\ Grown
<1>1. flush.at = "write" /\ Fail
  BY DEF WriteFails
<1>2. PICK n \in 0 .. Len(Batch) - 1, cut \in BOOLEAN :
         disk' = [disk EXCEPT ![fd] = Appended(disk[fd], Batch, n, cut)]
  BY DEF WriteFails
<1>3. n \in 0 .. Len(Batch)
  <2>1. Len(Batch) \in Nat
    BY <1>1, BatchFacts DEF StoreInv, FlushInv, Busy
  <2> QED
    BY <2>1
<1>4. Grown /\ \A d \in Days : \A x \in Range(disk'[d].lines) : x <= published
  BY <1>1, <1>2, <1>3, WriteGrows
<1> QED
  BY <1>1, <1>4, FailKeeps

\* What lies before the unwritten lines is older than all of them.
LEMMA WriteAllStep ==
    ASSUME StoreInv, WriteAll, UNCHANGED <<queue, published>>
    PROVE  StoreInv' /\ Grown
<1>1. /\ StoreType /\ FlushInv /\ AckedInv /\ OrderInv
      /\ flush.at = "write"
      /\ fd' = fd /\ buffer' = buffer /\ outcome' = outcome /\ faults' = faults /\ acked' = acked
      /\ reaped' = reaped /\ adrift' = adrift
  BY DEF StoreInv, WriteAll
<1>2. flush'.at = "sync" /\ flush'.pos = flush.pos /\ flush' \in [at : FlushPlaces, pos : Nat]
  BY <1>1 DEF WriteAll, StoreType, FlushPlaces
<1>3. flush.pos \in 1 .. Len(buffer) /\ fd = Today /\ disk[Today].there
  BY <1>1 DEF FlushInv, Busy
<1>4. /\ Today \in Days /\ BatchEnd' = BatchEnd /\ Today' = Today
      /\ BatchEnd \in flush.pos .. Len(buffer) /\ BatchEnd \in Nat
      /\ Batch \in Seq(Nat) /\ Len(Batch) = BatchEnd - flush.pos + 1 /\ Len(Batch) \in Nat
      /\ \A i \in 1 .. Len(Batch) :
            flush.pos + i - 1 \in flush.pos .. BatchEnd /\ Batch[i] = buffer[flush.pos + i - 1]
      /\ \A i \in flush.pos .. BatchEnd :
            i - flush.pos + 1 \in 1 .. Len(Batch) /\ Batch[i - flush.pos + 1] = buffer[i]
  BY <1>1, <1>2, <1>3, BatchFacts, BatchKept
<1>5. /\ Grown
      /\ \A d \in Days : d # Today => disk'[d] = disk[d]
      /\ \A d \in Days : disk'[d].there = disk[d].there
      /\ Len(disk'[Today].lines) = Len(disk[Today].lines) + Len(Batch)
      /\ \A i \in 1 .. Len(disk[Today].lines) : disk'[Today].lines[i] = disk[Today].lines[i]
      /\ \A i \in 1 .. Len(Batch) : disk'[Today].lines[Len(disk[Today].lines) + i] = Batch[i]
      /\ \A i \in 1 .. Len(Batch) : Batch[i] \in Range(disk'[Today].lines)
      /\ \A x \in Range(disk'[Today].lines) :
            x \in Range(disk[Today].lines) \/ \E i \in 1 .. Len(Batch) : x = Batch[i]
      /\ \A d \in Days : \A x \in Range(disk'[d].lines) : x <= published
  <2>1. Len(Batch) \in 0 .. Len(Batch)
    BY <1>4
  <2>2. disk' = [disk EXCEPT ![fd] = Appended(disk[fd], Batch, Len(Batch), FALSE)]
    BY DEF WriteAll
  <2> QED
    BY <1>1, <2>1, <2>2, WriteGrows
<1>6. StoreType'
  BY <1>1, <1>2, <1>5 DEF StoreType, Grown
<1>7. FlushInv'
  <2>1. ASSUME NEW i \in 1 .. flush.pos - 1
        PROVE  buffer[i] \in Safe(disk'[DateOf[buffer[i]]])
    <3>1. i \in 1 .. Len(buffer) /\ DateOf[buffer[i]] \in Days
      BY <1>1, <1>3, StoreFacts
    <3>2. buffer[i] \in Safe(disk[DateOf[buffer[i]]])
      BY <1>1 DEF FlushInv, Busy
    <3> QED
      BY <1>5, <3>1, <3>2 DEF Grown
  <2>2. \A i \in flush.pos .. BatchEnd : buffer[i] \in LinesOf(Today)'
    BY <1>4, <1>5 DEF LinesOf
  <2> QED
    BY <1>1, <1>2, <1>3, <1>4, <1>5, <2>1, <2>2 DEF FlushInv, Busy
<1>8. AckedInv'
  <2>1. \A d \in Days : Safe(disk[d]) \subseteq Safe(disk'[d])
    BY <1>5 DEF Grown
  <2>2. UNION {Safe(disk[d]) : d \in Days} \subseteq UNION {Safe(disk'[d]) : d \in Days}
    BY <2>1
  <2>3. acked \subseteq (UNION {Safe(disk'[d]) : d \in Days}) \cup reaped \cup adrift
    BY <1>1, <2>2 DEF AckedInv
  <2> QED
    BY <1>1, <2>3 DEF AckedInv
<1>9. OrderInv'
  <2>1. Unwritten = flush.pos /\ Unwritten' = BatchEnd + 1
    BY <1>1, <1>2, <1>4 DEF Unwritten
  <2>2. \A d \in Days : \A x \in LinesOf(d)' : x <= published
    BY <1>5 DEF LinesOf
  <2>3. ASSUME faults = 0, NEW d \in Days PROVE FileOrder(d)'
    <3>1. FileOrder(d) /\ Increasing(buffer)
      BY <1>1, <2>3 DEF OrderInv
    <3>2. CASE d # Today
      <4>1. disk'[d] = disk[d] /\ LinesOf(d)' = LinesOf(d)
        BY <1>5, <3>2 DEF LinesOf
      <4>2. \A i \in BatchEnd + 1 .. Len(buffer) : i \in flush.pos .. Len(buffer)
        BY <1>1, <1>3, <1>4, StoreFacts
      <4> QED
        BY <1>1, <2>1, <3>1, <4>1, <4>2 DEF FileOrder, Increasing
    <3>3. CASE d = Today
      <4> DEFINE L == Len(disk[Today].lines)
                 old == disk[Today].lines
                 new == disk'[Today].lines
                 K == Len(buffer)
                 P == flush.pos
                 E == BatchEnd
      <4>0. /\ L \in Nat /\ K \in Nat /\ P \in 1 .. K /\ E \in P .. K
            /\ Len(new) = L + (E - P + 1)
            /\ \A i \in 1 .. L : old[i] \in Range(old) /\ old[i] \in Nat /\ new[i] = old[i]
        <5>1. FileOK(disk[Today])
          BY <1>1, <1>4 DEF StoreType
        <5> QED
          BY <1>1, <1>3, <1>4, <1>5, <5>1, FileFields, StoreFacts
      <4>1. \A x \in Range(old) : \A i \in P .. K : x < buffer[i]
        BY <2>1, <3>1, <3>3 DEF FileOrder, LinesOf
      <4>2. \A i, j \in 1 .. K : i < j => buffer[i] < buffer[j]
        BY <3>1 DEF Increasing
      <4>a. ASSUME NEW j \in 1 .. E - P + 1
            PROVE  /\ P + j - 1 \in P .. E /\ Batch[j] = buffer[P + j - 1]
                   /\ new[L + j] = buffer[P + j - 1]
        BY <1>4, <1>5
      <4>b. \A x \in Range(new) : x \in Range(old) \/ \E j \in 1 .. E - P + 1 : x = buffer[P + j - 1]
        <5> SUFFICES ASSUME NEW x \in Range(new), x \notin Range(old)
                     PROVE  \E j \in 1 .. E - P + 1 : x = buffer[P + j - 1]
          OBVIOUS
        <5>1. PICK j \in 1 .. Len(Batch) : x = Batch[j]
          BY <1>5
        <5>2. j \in 1 .. E - P + 1
          BY <1>4
        <5> QED
          BY <4>a, <5>1, <5>2
      <4>c. Increasing(old)
        BY <3>1, <3>3 DEF FileOrder
      <4> HIDE DEF L, K, P, E
      <4>d. ASSUME NEW j \in 1 .. Len(new), j > L
            PROVE  P + (j - L) - 1 \in P .. E /\ new[j] = buffer[P + (j - L) - 1]
        <5>1. j - L \in 1 .. E - P + 1 /\ L + (j - L) = j
          BY <4>0, <4>d
        <5> QED
          BY <4>a, <5>1
      <4>3. ASSUME NEW i \in 1 .. Len(new), NEW j \in 1 .. Len(new), i < j
            PROVE  new[i] < new[j]
        <5>1. CASE j <= L
          <6>1. i \in 1 .. L /\ j \in 1 .. L
            BY <4>0, <4>3, <5>1
          <6> QED
            BY <4>0, <4>3, <4>c, <6>1 DEF Increasing, L
        <5>2. CASE j > L
          <6>1. P + (j - L) - 1 \in P .. E /\ new[j] = buffer[P + (j - L) - 1]
            BY <4>d, <5>2
          <6>2. P + (j - L) - 1 \in P .. K
            BY <4>0, <6>1
          <6>3. CASE i <= L
            <7>1. i \in 1 .. L /\ new[i] = old[i] /\ old[i] \in Range(old)
              BY <4>0, <4>3, <6>3
            <7> QED
              BY <4>1, <6>1, <6>2, <7>1
          <6>4. CASE i > L
            <7>1. P + (i - L) - 1 \in P .. E /\ new[i] = buffer[P + (i - L) - 1]
              BY <4>d, <6>4
            <7>2. /\ P + (i - L) - 1 \in 1 .. K /\ P + (j - L) - 1 \in 1 .. K
                  /\ P + (i - L) - 1 < P + (j - L) - 1
              BY <4>0, <4>3, <6>1, <7>1
            <7> QED
              BY <4>2, <6>1, <7>1, <7>2
          <6> QED
            BY <4>0, <6>3, <6>4
        <5> QED
          BY <4>0, <5>1, <5>2
      <4>4. ASSUME NEW x \in Range(new), NEW i \in E + 1 .. K
            PROVE  x < buffer[i]
        <5>1. i \in P .. K /\ i \in 1 .. K
          BY <4>0
        <5>2. CASE x \in Range(old)
          BY <4>1, <5>1, <5>2
        <5>3. CASE x \notin Range(old)
          <6>1. PICK j \in 1 .. E - P + 1 : x = buffer[P + j - 1]
            BY <4>b, <5>3
          <6>2. P + j - 1 \in P .. E
            BY <4>a
          <6>3. P + j - 1 \in 1 .. K /\ P + j - 1 < i
            BY <4>0, <6>2
          <6> QED
            BY <4>2, <5>1, <6>1, <6>3
        <5> QED
          BY <5>2, <5>3
      <4>5. ASSUME NEW x \in Range(new), NEW i \in 1 .. Len(queue.items), ~IsGap(queue.items[i])
            PROVE  x < queue.items[i].seq
        <5>1. CASE x \in Range(old)
          BY <3>1, <3>3, <4>5, <5>1 DEF FileOrder, LinesOf
        <5>2. CASE x \notin Range(old)
          <6>1. PICK j \in 1 .. E - P + 1 : x = buffer[P + j - 1]
            BY <4>b, <5>2
          <6>2. P + j - 1 \in P .. E
            BY <4>a
          <6>3. P + j - 1 \in 1 .. K
            BY <4>0, <6>2
          <6>4. x \in Nat /\ x <= queue.last
            BY <1>1, <6>1, <6>3, StoreFacts DEF OrderInv, K
          <6>5. queue.last < queue.items[i].seq
            BY <1>1, <4>5 DEF OrderInv, Ordered
          <6>6. queue.last \in Nat /\ queue.items[i].seq \in Nat
            BY <1>1, QueueFields DEF StoreType
          <6> QED
            BY <6>4, <6>5, <6>6
        <5> QED
          BY <5>1, <5>2
      <4> QED
        BY <1>1, <2>1, <3>3, <4>3, <4>4, <4>5 DEF FileOrder, Increasing, LinesOf, K, E
    <3> QED
      BY <3>2, <3>3
  <2> QED
    BY <1>1, <2>2, <2>3, OrderKept
<1>10. RetentionHeld'
  BY <1>2 DEF RetentionHeld, Ended
<1> QED
  BY <1>5, <1>6, <1>7, <1>8, <1>9, <1>10 DEF StoreInv

\* What storage has not lost.
Kept == Range(buffer) \cup (UNION {LinesOf(d) : d \in Days}) \cup reaped

LEMMA GrownKeeps ==
    ASSUME StoreType, Grown, buffer' = buffer, reaped' = reaped
    PROVE  Kept \subseteq Kept'
<1>1. \A d \in Days : LinesOf(d) \subseteq LinesOf(d)'
  BY DEF Grown, LinesOf
<1> QED
  BY <1>1 DEF Kept

\* fsync_current_file(): the batch and all before it is safe.
LEMMA SyncSafe ==
    ASSUME StoreInv, Sync
    PROVE  /\ Grown /\ \A d \in Days : disk'[d].lines = disk[d].lines
           /\ \A i \in 1 .. BatchEnd : buffer[i] \in Safe(disk'[DateOf[buffer[i]]])
<1>1. StoreType /\ FlushInv /\ flush.pos \in 1 .. Len(buffer)
      /\ flush.at = "sync" /\ fd = Today /\ disk[Today].there
  BY DEF StoreInv, FlushInv, Busy, Sync
<1>2. /\ Today \in Days /\ BatchEnd \in flush.pos .. Len(buffer) /\ BatchEnd \in Nat
      /\ \A i \in flush.pos .. BatchEnd : DateOf[buffer[i]] = Today
  BY <1>1, BatchFacts
<1>3. FileOK(disk[Today]) /\ disk \in [Days -> Files]
  BY <1>1, <1>2 DEF StoreType
<1> DEFINE g == [disk[Today] EXCEPT !.synced = Len(disk[Today].lines)]
<1>4. disk' = [disk EXCEPT ![Today] = g]
  BY <1>1 DEF Sync
<1>5. /\ FileOK(g) /\ g.lines = disk[Today].lines /\ g.there = disk[Today].there
      /\ Range(g.lines) \subseteq Safe(g) /\ Safe(disk[Today]) \subseteq Safe(g)
  BY <1>3, SyncedFile
<1> HIDE DEF g
<1>6. disk'[Today] = g /\ \A d \in Days : disk'[d].lines = disk[d].lines
  BY <1>2, <1>3, <1>4, <1>5
<1>7. Grown
  BY <1>1, <1>2, <1>4, <1>5, GrownFile
<1>8. ASSUME NEW i \in 1 .. BatchEnd
      PROVE  buffer[i] \in Safe(disk'[DateOf[buffer[i]]])
  <2>1. i \in 1 .. Len(buffer) /\ DateOf[buffer[i]] \in Days
        /\ (i \in 1 .. flush.pos - 1 \/ i \in flush.pos .. BatchEnd)
    <3>1. Len(buffer) \in Nat /\ flush.pos \in Nat
      BY <1>1, StoreFacts
    <3>2. i \in 1 .. Len(buffer) /\ (i \in 1 .. flush.pos - 1 \/ i \in flush.pos .. BatchEnd)
      BY <1>2, <3>1
    <3> QED
      BY <1>1, <3>2, StoreFacts
  <2>2. CASE i \in 1 .. flush.pos - 1
    <3>1. buffer[i] \in Safe(disk[DateOf[buffer[i]]])
      BY <1>1, <2>2 DEF FlushInv, Busy
    <3> QED
      BY <1>7, <2>1, <3>1 DEF Grown
  <2>3. CASE i \in flush.pos .. BatchEnd
    <3>1. buffer[i] \in Range(disk[Today].lines)
      BY <1>1, <2>3 DEF FlushInv, LinesOf
    <3> QED
      BY <1>2, <1>5, <1>6, <2>3, <3>1
  <2> QED
    BY <2>1, <2>2, <2>3
<1> QED
  BY <1>6, <1>7, <1>8

LEMMA SyncStep ==
    ASSUME StoreInv, Sync, UNCHANGED <<queue, published>>
    PROVE  StoreInv' /\ Kept \subseteq Kept'
<1>1. /\ StoreType /\ FlushInv /\ AckedInv /\ OrderInv /\ flush.pos \in 1 .. Len(buffer)
      /\ flush.at = "sync" /\ fd' = fd /\ outcome' = outcome /\ faults' = faults
      /\ reaped' = reaped /\ adrift' = adrift
  BY DEF StoreInv, FlushInv, Busy, Sync
<1>2. /\ Grown /\ \A d \in Days : disk'[d].lines = disk[d].lines
      /\ \A i \in 1 .. BatchEnd : buffer[i] \in Safe(disk'[DateOf[buffer[i]]])
  BY SyncSafe
<1>3. BatchEnd \in flush.pos .. Len(buffer) /\ BatchEnd \in Nat /\ Len(buffer) \in Nat
      /\ flush.pos \in Nat
  BY <1>1, BatchFacts, StoreFacts
<1>4. /\ \A d \in Days : Safe(disk[d]) \subseteq Safe(disk'[d])
      /\ \A d \in Days : FileOK(disk'[d])
      /\ disk' \in [Days -> Files]
  BY <1>2 DEF Grown
<1>5. UNION {Safe(disk[d]) : d \in Days} \subseteq UNION {Safe(disk'[d]) : d \in Days}
  BY <1>4
<1>6. \A d \in Days : LinesOf(d)' = LinesOf(d)
  BY <1>2 DEF LinesOf
<1>7. \A d \in Days : \A x \in LinesOf(d)' : x <= published
  BY <1>1, <1>6 DEF OrderInv
<1>8. CASE BatchEnd < Len(buffer)
  <2>1. flush' = [at |-> "open", pos |-> BatchEnd + 1] /\ buffer' = buffer /\ acked' = acked
    BY <1>8 DEF Sync
  <2>2. StoreType'
    BY <1>1, <1>3, <1>4, <2>1 DEF StoreType, FlushPlaces
  <2>3. FlushInv'
    <3>1. BatchEnd + 1 \in 1 .. Len(buffer) /\ (BatchEnd + 1) - 1 = BatchEnd
      BY <1>3, <1>8
    <3> QED
      BY <1>2, <2>1, <3>1 DEF FlushInv, Busy
  <2>4. AckedInv'
    <3>1. acked \subseteq (UNION {Safe(disk'[d]) : d \in Days}) \cup reaped \cup adrift
      BY <1>1, <1>5 DEF AckedInv
    <3> QED
      BY <1>1, <2>1, <3>1 DEF AckedInv
  <2>5. OrderInv'
    <3>1. Unwritten' = Unwritten
      BY <1>1, <2>1 DEF Unwritten
    <3>2. \A d \in Days : FileOrder(d) => FileOrder(d)'
      BY <1>2, <1>6, <2>1, <3>1 DEF FileOrder, Increasing
    <3>3. faults = 0 => \A d \in Days : FileOrder(d)'
      BY <1>1, <3>2 DEF OrderInv
    <3> QED
      BY <1>1, <1>7, <2>1, <3>3, OrderKept
  <2>6. RetentionHeld'
    BY <2>1 DEF RetentionHeld, Ended
  <2>7. Kept \subseteq Kept'
    BY <1>1, <1>2, <2>1, GrownKeeps
  <2> QED
    BY <2>2, <2>3, <2>4, <2>5, <2>6, <2>7 DEF StoreInv
<1>9. CASE ~(BatchEnd < Len(buffer))
  <2>0. BatchEnd = Len(buffer)
    BY <1>3, <1>9
  <2>1. /\ flush' = [at |-> "retain", pos |-> 0] /\ buffer' = <<>>
        /\ acked' = acked \cup {buffer[i] : i \in 1 .. Len(buffer)}
    BY <1>9 DEF Sync
  <2>2. StoreType'
    BY <1>1, <1>3, <1>4, <2>1 DEF StoreType, FlushPlaces
  <2>3. FlushInv'
    BY <2>1 DEF FlushInv, Busy
  <2>a. \A i \in 1 .. Len(buffer) : DateOf[buffer[i]] \in Days
    BY <1>1, StoreFacts
  <2>4. AckedInv'
    <3>1. {buffer[i] : i \in 1 .. Len(buffer)} \subseteq UNION {Safe(disk'[d]) : d \in Days}
      BY <1>2, <2>0, <2>a
    <3>2. acked' \subseteq (UNION {Safe(disk'[d]) : d \in Days}) \cup reaped \cup adrift
      BY <1>1, <1>5, <2>1, <3>1 DEF AckedInv
    <3> QED
      BY <1>1, <3>2 DEF AckedInv
  <2>5. OrderInv'
    <3>0. Len(buffer') = 0
      BY <2>1
    <3>1. Increasing(buffer') /\ \A i \in 1 .. Len(buffer') : buffer'[i] <= queue'.last
      BY <3>0 DEF Increasing
    <3>2. Ordered(queue, published + 1)'
      BY <1>1 DEF OrderInv
    <3>3. ASSUME faults = 0, NEW d \in Days PROVE FileOrder(d)'
      <4>1. FileOrder(d)
        BY <1>1, <3>3 DEF OrderInv
      <4>2. Unwritten' = 1
        BY <2>1 DEF Unwritten
      <4>3. \A i \in Unwritten' .. Len(buffer') : FALSE
        BY <3>0, <4>2
      <4> QED
        BY <1>2, <1>6, <4>1, <4>3 DEF FileOrder, Increasing
    <3> QED
      BY <1>1, <1>7, <3>1, <3>2, <3>3 DEF OrderInv, Increasing
  <2>6. RetentionHeld'
    BY <2>1 DEF RetentionHeld, Ended
  <2>7. Kept \subseteq Kept'
    <3>1. Range(buffer) \subseteq UNION {LinesOf(d)' : d \in Days}
      <4> SUFFICES ASSUME NEW x \in Range(buffer) PROVE \E d \in Days : x \in LinesOf(d)'
        OBVIOUS
      <4>1. PICK i \in 1 .. Len(buffer) : x = buffer[i]
        BY <1>1 DEF Range, StoreType
      <4>2. x \in Safe(disk'[DateOf[x]]) /\ DateOf[x] \in Days
        BY <1>2, <2>0, <2>a, <4>1
      <4> QED
        BY <1>4, <4>2, FileFields DEF LinesOf
    <3> QED
      BY <1>1, <1>6, <3>1 DEF Kept
  <2> QED
    BY <2>2, <2>3, <2>4, <2>5, <2>6, <2>7 DEF StoreInv
<1> QED
  BY <1>8, <1>9

LEMMA SyncFailsStep ==
    ASSUME StoreInv, SyncFails, UNCHANGED <<queue, published>>
    PROVE  StoreInv' /\ Grown
<1>1. StoreType /\ OrderInv /\ disk' = disk /\ Fail
  BY DEF StoreInv, SyncFails
<1>2. Grown
  BY <1>1, GrownSame
<1>3. \A d \in Days : \A x \in Range(disk'[d].lines) : x <= published
  BY <1>1 DEF OrderInv, LinesOf
<1> QED
  BY <1>1, <1>2, <1>3, FailKeeps

\* enforce_retention(): a file goes with its lines, or the limits hold.
LEMMA RetainStep ==
    ASSUME StoreInv, Retain, UNCHANGED <<queue, published>>
    PROVE  StoreInv' /\ Kept \subseteq Kept' /\ buffer' = <<>>
<1>1. /\ StoreType /\ FlushInv /\ AckedInv /\ OrderInv /\ buffer = <<>>
      /\ flush.at = "retain" /\ buffer' = buffer /\ faults' = faults
      /\ acked' = acked /\ adrift' = adrift
  BY DEF StoreInv, FlushInv, Retain
<1>2. CASE There # {} /\ OverLimit(disk)
  <2>1. PICK oldest \in Days : oldest = Min(There)
    <3>1. There \in SUBSET Nat /\ There \subseteq Days
      BY SinkAssumption DEF There, Present, SinkAssumption
    <3> QED
      BY <1>2, <3>1, Least
  <2>2. /\ disk' = [disk EXCEPT ![oldest] = Absent] /\ reaped' = reaped \cup LinesOf(oldest)
        /\ flush' = flush /\ outcome' = outcome
    BY <1>2, <2>1 DEF Retain
  <2>3. /\ FileOK(Absent) /\ Absent.lines = <<>> /\ Range(Absent.lines) = {} /\ Absent \in Files
    BY EmptyFiles DEF FileOK
  <2>4. /\ disk' \in [Days -> Files] /\ \A d \in Days : FileOK(disk'[d])
        /\ disk'[oldest] = Absent /\ \A d \in Days : d # oldest => disk'[d] = disk[d]
    BY <1>1, <2>1, <2>2, <2>3 DEF StoreType
  <2>5. LinesOf(oldest)' = {} /\ \A d \in Days : d # oldest => LinesOf(d)' = LinesOf(d)
    BY <2>3, <2>4 DEF LinesOf
  <2>6. StoreType'
    BY <1>1, <2>2, <2>4 DEF StoreType
  <2>7. FlushInv'
    BY <1>1, <2>2 DEF FlushInv, Busy
  <2>8. AckedInv'
    <3>1. Safe(disk[oldest]) \subseteq LinesOf(oldest)
      BY <1>1, <2>1, FileFields DEF StoreType, LinesOf
    <3>2. UNION {Safe(disk[d]) : d \in Days}
             \subseteq (UNION {Safe(disk'[d]) : d \in Days}) \cup LinesOf(oldest)
      <4>1. \A d \in Days : Safe(disk[d]) = Safe(disk'[d]) \/ Safe(disk[d]) \subseteq LinesOf(oldest)
        BY <2>4, <3>1
      <4>2. ASSUME NEW x \in UNION {Safe(disk[d]) : d \in Days}
            PROVE  x \in (UNION {Safe(disk'[d]) : d \in Days}) \cup LinesOf(oldest)
        <5>1. PICK d \in Days : x \in Safe(disk[d])
          OBVIOUS
        <5>2. x \in Safe(disk'[d]) \/ x \in LinesOf(oldest)
          BY <4>1, <5>1
        <5> QED
          BY <5>2
      <4> QED
        BY <4>2, Zenon
    <3>3. acked \subseteq (UNION {Safe(disk'[d]) : d \in Days}) \cup reaped' \cup adrift
      BY <1>1, <2>2, <3>2 DEF AckedInv
    <3> QED
      BY <1>1, <3>3 DEF AckedInv
  <2>9. OrderInv'
    <3>1. \A d \in Days : \A x \in LinesOf(d)' : x <= published
      BY <1>1, <2>5 DEF OrderInv
    <3>2. ASSUME faults = 0, NEW d \in Days PROVE FileOrder(d)'
      <4>1. FileOrder(d)
        BY <1>1, <3>2 DEF OrderInv
      <4>2. CASE d = oldest
        <5>1. Len(disk'[d].lines) = 0 /\ LinesOf(d)' = {}
          BY <2>3, <2>4, <2>5, <4>2
        <5> QED
          BY <5>1 DEF FileOrder, Increasing
      <4>3. CASE d # oldest
        <5>1. disk'[d] = disk[d] /\ LinesOf(d)' = LinesOf(d)
          BY <2>4, <2>5, <4>3
        <5>2. Unwritten' = Unwritten
          BY <1>1, <2>2 DEF Unwritten
        <5> QED
          BY <1>1, <4>1, <5>1, <5>2 DEF FileOrder, Increasing
      <4> QED
        BY <4>2, <4>3
    <3> QED
      BY <1>1, <3>1, <3>2, OrderKept
  <2>10. RetentionHeld'
    BY <1>1, <2>2 DEF RetentionHeld, Ended
  <2>11. Kept \subseteq Kept'
    <3>1. \A d \in Days : LinesOf(d) \subseteq LinesOf(d)' \cup reaped'
      BY <2>2, <2>5
    <3>2. UNION {LinesOf(d) : d \in Days} \subseteq (UNION {LinesOf(d)' : d \in Days}) \cup reaped'
      <4>1. ASSUME NEW x \in UNION {LinesOf(d) : d \in Days}
            PROVE  x \in (UNION {LinesOf(d)' : d \in Days}) \cup reaped'
        <5>1. PICK d \in Days : x \in LinesOf(d)
          OBVIOUS
        <5>2. x \in LinesOf(d)' \/ x \in reaped'
          BY <3>1, <5>1
        <5> QED
          BY <5>2
      <4> QED
        BY <4>1, Zenon
    <3>3. reaped \subseteq reaped'
      BY <2>2
    <3> QED
      BY <1>1, <3>2, <3>3 DEF Kept
  <2> QED
    BY <1>1, <2>6, <2>7, <2>8, <2>9, <2>10, <2>11 DEF StoreInv
<1>3. CASE ~(There # {} /\ OverLimit(disk))
  <2>1. flush' = Idle /\ outcome' = "ok" /\ disk' = disk /\ reaped' = reaped
    BY <1>3 DEF Retain
  <2>2. StoreType'
    BY <1>1, <2>1 DEF StoreType, Idle, FlushPlaces
  <2>3. FlushInv'
    BY <2>1 DEF FlushInv, Busy, Idle
  <2>4. AckedInv'
    BY <1>1, <2>1 DEF AckedInv
  <2>5. OrderInv'
    <3>1. \A d \in Days : LinesOf(d)' = LinesOf(d)
      BY <2>1 DEF LinesOf
    <3>2. Unwritten' = Unwritten
      BY <1>1, <2>1 DEF Unwritten, Idle
    <3>3. \A d \in Days : FileOrder(d) => FileOrder(d)'
      BY <1>1, <2>1, <3>1, <3>2 DEF FileOrder, Increasing
    <3>4. /\ \A d \in Days : \A x \in LinesOf(d)' : x <= published
          /\ faults = 0 => \A d \in Days : FileOrder(d)'
      BY <1>1, <3>1, <3>3 DEF OrderInv
    <3> QED
      BY <1>1, <3>4, OrderKept
  <2>6. ~OverLimit(disk)
    BY <1>3, EmptyDirectory DEF There
  <2>7. RetentionHeld'
    BY <2>1, <2>6 DEF RetentionHeld
  <2>8. Kept \subseteq Kept'
    BY <1>1, <2>1 DEF Kept, LinesOf
  <2> QED
    BY <1>1, <2>2, <2>3, <2>4, <2>5, <2>7, <2>8 DEF StoreInv
<1> QED
  BY <1>2, <1>3

LEMMA RetainFailsStep ==
    ASSUME StoreInv, RetainFails, UNCHANGED <<queue, published>>
    PROVE  StoreInv' /\ Grown
<1>1. StoreType /\ OrderInv /\ disk' = disk /\ Fail
  BY DEF StoreInv, RetainFails
<1>2. Grown
  BY <1>1, GrownSame
<1>3. \A d \in Days : \A x \in Range(disk'[d].lines) : x <= published
  BY <1>1 DEF OrderInv, LinesOf
<1> QED
  BY <1>1, <1>2, <1>3, FailKeeps

\* Every step of flush() keeps the store in order and loses nothing; a flush that
\* ends has emptied the buffer or reported an error.
LEMMA FlushSteps ==
    ASSUME StoreInv, FlushStep, UNCHANGED <<queue, published>>
    PROVE  /\ StoreInv' /\ Kept \subseteq Kept'
           /\ Ended' => outcome' = "error" \/ buffer' = <<>>
           /\ ~Ended /\ closed' = closed
<1>1. StoreType
  BY DEF StoreInv
<1>2. CASE OpenForDate \/ WriteAll
  <2>1. StoreInv' /\ Grown
    BY <1>2, OpenForDateStep, WriteAllStep
  <2>2. buffer' = buffer /\ reaped' = reaped /\ ~Ended' /\ ~Ended /\ closed' = closed
    BY <1>1, <1>2, StoreFacts DEF OpenForDate, WriteAll, Ended, StoreType
  <2> QED
    BY <1>1, <2>1, <2>2, GrownKeeps
<1>3. CASE OpenFails \/ WriteFails \/ SyncFails \/ RetainFails
  <2>1. StoreInv' /\ Grown
    BY <1>3, OpenFailsStep, WriteFailsStep, SyncFailsStep, RetainFailsStep
  <2>2. Fail /\ ~Ended
    BY <1>3 DEF OpenFails, WriteFails, SyncFails, RetainFails, Ended
  <2>3. buffer' = buffer /\ reaped' = reaped /\ outcome' = "error" /\ closed' = closed
    BY <2>2 DEF Fail
  <2> QED
    BY <1>1, <2>1, <2>2, <2>3, GrownKeeps
<1>4. CASE Sync
  <2>1. ~Ended' /\ ~Ended /\ closed' = closed
    BY <1>4 DEF Sync, Ended
  <2> QED
    BY <1>4, <2>1, SyncStep
<1>5. CASE Retain
  <2>1. ~Ended /\ closed' = closed
    BY <1>5 DEF Retain, Ended
  <2> QED
    BY <1>5, <2>1, RetainStep
<1> QED
  BY <1>2, <1>3, <1>4, <1>5 DEF FlushStep
-----------------------------------------------------------------------------
(* The other steps, as the store sees them.                                *)

LEMMA StoreInit == Init => StoreInv
<1> SUFFICES ASSUME Init PROVE StoreInv
  OBVIOUS
<1>1. /\ buffer = <<>> /\ flush = Idle /\ disk = [d \in Days |-> Absent] /\ outcome = "none"
      /\ faults = 0 /\ acked = {} /\ queue = EmptyQueue /\ published = 0
  BY DEF Init, SinkInit
<1>2. FileOK(Absent) /\ Absent \in Files /\ Absent.lines = <<>> /\ Range(Absent.lines) = {}
  BY EmptyFiles DEF FileOK
<1>3. EmptyQueue \in Queues /\ EmptyQueue.items = <<>> /\ EmptyQueue.last = 0 /\ Len(<<>>) = 0
  BY DEF EmptyQueue, Queue, Queues
<1>4. StoreType
  BY <1>1, <1>2, <1>3, SinkAssumption DEF StoreType, Idle, FlushPlaces, SinkAssumption
<1>5. FlushInv /\ AckedInv /\ RetentionHeld
  BY <1>1 DEF FlushInv, Busy, Idle, AckedInv, RetentionHeld
<1>6. OrderInv
  <2>1. \A d \in Days : LinesOf(d) = {} /\ Len(disk[d].lines) = 0
    BY <1>1, <1>2, <1>3 DEF LinesOf
  <2>2. \A d \in Days : FileOrder(d)
    BY <2>1 DEF FileOrder, Increasing
  <2>3. Ordered(queue, published + 1) /\ Increasing(buffer)
    BY <1>1, <1>3 DEF Ordered, Increasing
  <2> QED
    BY <1>1, <1>3, <2>1, <2>2, <2>3 DEF OrderInv
<1> QED
  BY <1>4, <1>5, <1>6 DEF StoreInv

\* Steps that touch neither the sink nor its queue.
LEMMA StoreFrame ==
    ASSUME StoreInv, UNCHANGED <<sinkVars, queue, published>>
    PROVE  StoreInv' /\ Kept' = Kept
<1>1. /\ buffer' = buffer /\ fd' = fd /\ disk' = disk /\ flush' = flush /\ outcome' = outcome
      /\ faults' = faults /\ acked' = acked /\ reaped' = reaped /\ adrift' = adrift
  BY DEF sinkVars
<1>2. BatchEnd' = BatchEnd /\ Today' = Today
  BY <1>1, BatchKept
<1>3. \A d \in Days : LinesOf(d)' = LinesOf(d)
  BY <1>1 DEF LinesOf
<1>4. StoreType'
  BY <1>1 DEF StoreInv, StoreType
<1>5. FlushInv'
  BY <1>1, <1>2, <1>3 DEF StoreInv, FlushInv, Busy, LinesOf
<1>6. AckedInv' /\ RetentionHeld'
  BY <1>1 DEF StoreInv, AckedInv, RetentionHeld, Ended
<1>7. OrderInv'
  <2>1. Unwritten' = Unwritten
    BY <1>1, <1>2 DEF Unwritten
  <2>2. \A d \in Days : FileOrder(d) => FileOrder(d)'
    BY <1>1, <1>3, <2>1 DEF FileOrder, Increasing
  <2>3. /\ \A d \in Days : \A x \in LinesOf(d)' : x <= published
        /\ faults = 0 => \A d \in Days : FileOrder(d)'
    BY <1>3, <2>2 DEF StoreInv, OrderInv
  <2> QED
    BY <1>1, <2>3, OrderKept
<1>8. Kept' = Kept
  BY <1>1 DEF Kept, LinesOf
<1> QED
  BY <1>4, <1>5, <1>6, <1>7, <1>8 DEF StoreInv

\* What is left of every file is a beginning of it.
Shrunk ==
    /\ disk' \in [Days -> Files]
    /\ \A d \in Days :
          /\ FileOK(disk'[d])
          /\ Len(disk'[d].lines) <= Len(disk[d].lines)
          /\ \A i \in 1 .. Len(disk'[d].lines) : disk'[d].lines[i] = disk[d].lines[i]
          /\ Range(disk'[d].lines) \subseteq Range(disk[d].lines)

\* The sink starts over with an empty buffer, and the queue may too.
LEMMA StoreReset ==
    ASSUME StoreInv, Shrunk, AckedInv', RetentionHeld', buffer' = <<>>,
           flush' = Idle \/ (flush' = flush /\ Ended), queue' \in {queue, EmptyQueue}, UNCHANGED <<published, faults>>
    PROVE  StoreInv'
<1>1. StoreType /\ OrderInv
  BY DEF StoreInv
<1>2. EmptyQueue \in Queues /\ EmptyQueue.items = <<>> /\ EmptyQueue.last = 0 /\ Len(<<>>) = 0
  BY DEF EmptyQueue, Queue, Queues
<1>a. flush' \in [at : FlushPlaces, pos : Nat] /\ flush'.at = "idle"
  BY <1>1 DEF StoreType, Idle, Ended, FlushPlaces
<1>3. StoreType'
  BY <1>1, <1>2, <1>a DEF StoreType, Shrunk
<1>4. FlushInv'
  BY <1>a DEF FlushInv, Busy
<1>5. Ordered(queue, published + 1)'
  <2>1. published + 1 > 0
    BY <1>1, StoreFacts
  <2>2. CASE queue' = queue
    BY <1>1, <2>2 DEF OrderInv
  <2>3. CASE queue' = EmptyQueue
    BY <1>2, <2>1, <2>3 DEF Ordered
  <2> QED
    BY <2>2, <2>3
<1>6. Len(buffer') = 0
  BY <1>2
<1>7. Increasing(buffer)' /\ (\A i \in 1 .. Len(buffer) : buffer[i] <= queue.last)'
  BY <1>6 DEF Increasing
<1>8. \A d \in Days : LinesOf(d)' \subseteq LinesOf(d)
  BY DEF LinesOf, Shrunk
<1>9. (\A d \in Days : \A x \in LinesOf(d) : x <= published)'
  BY <1>1, <1>8 DEF OrderInv
<1>10. ASSUME faults = 0, NEW d \in Days PROVE FileOrder(d)'
  <2>1. FileOrder(d)
    BY <1>1, <1>10 DEF OrderInv
  <2>2. Increasing(disk'[d].lines)
    <3>1. /\ Len(disk'[d].lines) \in Nat /\ Len(disk[d].lines) \in Nat
          /\ Len(disk'[d].lines) <= Len(disk[d].lines)
          /\ \A i \in 1 .. Len(disk'[d].lines) : disk'[d].lines[i] = disk[d].lines[i]
      BY <1>1, FileFields DEF StoreType, Shrunk
    <3>2. \A i \in 1 .. Len(disk'[d].lines) : i \in 1 .. Len(disk[d].lines)
      BY <3>1
    <3> QED
      BY <2>1, <3>1, <3>2 DEF FileOrder, Increasing
  <2>3. \A i \in Unwritten' .. Len(buffer') : FALSE
    <3>1. Unwritten' = 1
      BY <1>a DEF Unwritten
    <3> QED
      BY <1>6, <3>1
  <2>4. \A x \in LinesOf(d)' : \A i \in 1 .. Len(queue'.items) :
           ~IsGap(queue'.items[i]) => x < queue'.items[i].seq
    <3>1. CASE queue' = queue
      BY <1>8, <2>1, <3>1 DEF FileOrder
    <3>2. CASE queue' = EmptyQueue
      BY <1>2, <3>2
    <3> QED
      BY <3>1, <3>2
  <2> QED
    BY <2>2, <2>3, <2>4 DEF FileOrder, Increasing
<1>11. OrderInv'
  BY <1>5, <1>7, <1>9, <1>10 DEF OrderInv
<1> QED
  BY <1>3, <1>4, <1>11 DEF StoreInv

LEMMA SameShrunk == StoreType /\ disk' = disk => Shrunk
<1> SUFFICES ASSUME StoreType, disk' = disk PROVE Shrunk
  OBVIOUS
<1>1. \A d \in Days : Len(disk[d].lines) \in Nat
  BY FileFields DEF StoreType
<1> QED
  BY <1>1 DEF StoreType, Shrunk

LEMMA OpenSinkStep ==
    ASSUME StoreInv, OpenSink, UNCHANGED <<queue, published>>
    PROVE  StoreInv'
<1>1. /\ buffer' = <<>> /\ flush' = Idle /\ outcome' = "none" /\ disk' = disk
      /\ faults' = faults /\ acked' = acked /\ reaped' = reaped /\ adrift' = adrift
  BY DEF OpenSink
<1>2. StoreType /\ AckedInv
  BY DEF StoreInv
<1>3. AckedInv' /\ RetentionHeld'
  BY <1>1, <1>2 DEF AckedInv, RetentionHeld
<1> QED
  BY <1>1, <1>2, <1>3, SameShrunk, StoreReset

LEMMA CloseSinkStep ==
    ASSUME StoreInv, CloseSink, UNCHANGED <<queue, published>>
    PROVE  StoreInv' /\ Ended' /\ outcome' = outcome /\ (buffer = <<>> => Kept' = Kept)
<1>1. /\ buffer' = <<>> /\ flush' = flush /\ flush.at = "idle" /\ outcome' = outcome
      /\ disk' = disk
      /\ faults' = faults /\ acked' = acked /\ reaped' = reaped /\ adrift' = adrift
  BY DEF CloseSink, Ended
<1>2. StoreType /\ AckedInv /\ OrderInv /\ RetentionHeld
  BY DEF StoreInv
<1>3. AckedInv' /\ RetentionHeld'
  BY <1>1, <1>2 DEF AckedInv, RetentionHeld, Ended
<1>4. Kept' = Kept \/ buffer # <<>>
  BY <1>1 DEF Kept, LinesOf
<1>5. StoreInv'
  BY <1>1, <1>2, <1>3, SameShrunk, StoreReset DEF Ended
<1> QED
  BY <1>1, <1>4, <1>5 DEF Ended

\* flush() begins at the first line of the buffer, if there is one.
LEMMA FlushStarts ==
    ASSUME StoreInv, Flush, UNCHANGED <<queue, published>>
    PROVE  /\ StoreInv' /\ Kept' = Kept /\ outcome' = outcome /\ closed' = closed
           /\ Ended' => buffer' = <<>>
<1>1. /\ StoreType /\ AckedInv /\ OrderInv /\ RetentionHeld /\ flush.at = "idle"
      /\ buffer' = buffer /\ fd' = fd /\ disk' = disk /\ outcome' = outcome /\ closed' = closed
      /\ faults' = faults /\ acked' = acked /\ reaped' = reaped /\ adrift' = adrift
  BY DEF StoreInv, Flush, Ended
<1>2. \/ flush' = Idle /\ buffer = <<>>
      \/ flush' = [at |-> "open", pos |-> 1] /\ buffer # <<>>
  BY DEF Flush, StartFlush
<1>3. buffer # <<>> => 1 \in 1 .. Len(buffer)
  <2>1. buffer \in Seq(Storable)
    BY <1>1 DEF StoreType
  <2> QED
    BY <2>1, EmptySeq
<1>4. StoreType'
  BY <1>1, <1>2 DEF StoreType, Idle, FlushPlaces
<1>5. FlushInv'
  <2>1. CASE flush' = Idle /\ buffer = <<>>
    BY <2>1 DEF FlushInv, Busy, Idle
  <2>2. CASE flush' = [at |-> "open", pos |-> 1] /\ buffer # <<>>
    <3>1. \A i \in 1 .. 1 - 1 : FALSE
      OBVIOUS
    <3> QED
      BY <1>1, <1>3, <2>2, <3>1 DEF FlushInv, Busy
  <2> QED
    BY <1>2, <2>1, <2>2
<1>6. AckedInv'
  BY <1>1 DEF AckedInv
<1>7. RetentionHeld'
  BY <1>1, <1>2 DEF RetentionHeld, Ended
<1>8. OrderInv'
  <2>1. Unwritten = 1 /\ Unwritten' = 1
    BY <1>1, <1>2 DEF Unwritten, Idle
  <2>2. \A d \in Days : LinesOf(d)' = LinesOf(d)
    BY <1>1 DEF LinesOf
  <2>3. \A d \in Days : FileOrder(d) => FileOrder(d)'
    BY <1>1, <2>1, <2>2 DEF FileOrder, Increasing
  <2>4. /\ \A d \in Days : \A x \in LinesOf(d)' : x <= published
        /\ faults = 0 => \A d \in Days : FileOrder(d)'
    BY <1>1, <2>2, <2>3 DEF OrderInv
  <2> QED
    BY <1>1, <2>4, OrderKept
<1>9. Kept' = Kept
  BY <1>1 DEF Kept, LinesOf
<1>10. Ended' => buffer' = <<>>
  BY <1>1, <1>2 DEF Ended
<1> QED
  BY <1>1, <1>4, <1>5, <1>6, <1>7, <1>8, <1>9, <1>10 DEF StoreInv

\* drain_available() takes an item that is not written: a marker, or an event that
\* the sink refuses.
LEMMA PopUnwritten ==
    ASSUME StoreInv, queue.items # <<>>, queue' = TryPop(queue),
           UNCHANGED <<sinkVars, published>>
    PROVE  StoreInv' /\ Kept' = Kept
<1>1. /\ buffer' = buffer /\ fd' = fd /\ disk' = disk /\ flush' = flush /\ outcome' = outcome
      /\ faults' = faults /\ acked' = acked /\ reaped' = reaped /\ adrift' = adrift
      /\ StoreType /\ OrderInv /\ published + 1 \in Nat
  BY StoreFacts DEF sinkVars, StoreInv
<1>2. /\ queue' \in Queues /\ Ordered(queue', published + 1)
      /\ queue'.items = Tail(queue.items)
      /\ queue'.last = IF IsGap(Head(queue.items)) THEN queue.last ELSE Head(queue.items).seq
      /\ Len(queue.items) \in Nat \ {0}
      /\ Len(Tail(queue.items)) = Len(queue.items) - 1
      /\ \A i \in 1 .. Len(queue.items) - 1 : Tail(queue.items)[i] = queue.items[i + 1]
      /\ ~IsGap(Head(queue.items)) => queue.last < Head(queue.items).seq
  BY <1>1, TryPopOrdered DEF StoreType, OrderInv
<1>3. \A i \in 1 .. Len(queue'.items) :
         i + 1 \in 1 .. Len(queue.items) /\ queue'.items[i] = queue.items[i + 1]
  BY <1>2
<1>4. BatchEnd' = BatchEnd /\ Today' = Today /\ \A d \in Days : LinesOf(d)' = LinesOf(d)
  BY <1>1, BatchKept DEF LinesOf
<1>5. StoreType'
  BY <1>1, <1>2 DEF StoreType
<1>6. FlushInv'
  BY <1>1, <1>4 DEF StoreInv, FlushInv, Busy, LinesOf
<1>7. AckedInv' /\ RetentionHeld'
  BY <1>1 DEF StoreInv, AckedInv, RetentionHeld, Ended
<1>8. OrderInv'
  <2>1. Unwritten' = Unwritten
    BY <1>1, <1>4 DEF Unwritten
  <2>2. \A d \in Days : FileOrder(d) => FileOrder(d)'
    BY <1>1, <1>3, <1>4, <2>1 DEF FileOrder, Increasing
  <2>3. ASSUME NEW i \in 1 .. Len(buffer) PROVE buffer[i] <= queue'.last
    <3>1. buffer[i] <= queue.last /\ buffer[i] \in Nat /\ queue.last \in Nat /\ queue'.last \in Nat
      BY <1>1, <1>2, StoreFacts, QueueFields DEF OrderInv
    <3>2. queue.last <= queue'.last
      BY <1>2, <3>1
    <3> QED
      BY <3>1, <3>2
  <2> QED
    BY <1>1, <1>2, <1>4, <2>2, <2>3 DEF OrderInv, Increasing
<1>9. Kept' = Kept
  BY <1>1 DEF Kept, LinesOf
<1> QED
  BY <1>5, <1>6, <1>7, <1>8, <1>9 DEF StoreInv

\* drain_available() writes an event to the sink.
LEMMA PopWritten ==
    ASSUME StoreInv, Ended, NEW e, queue.items # <<>>, ~IsGap(Head(queue.items)),
           e = Head(queue.items).seq, DateOf[e] # NoDate, queue' = TryPop(queue),
           buffer' = Append(buffer, e),
           flush' = flush \/ flush' = [at |-> "open", pos |-> 1],
           UNCHANGED <<fd, disk, outcome, faults, acked, reaped, adrift, published>>
    PROVE  StoreInv' /\ Kept \cup {e} \subseteq Kept'
<1>1. /\ StoreType /\ OrderInv /\ published + 1 \in Nat /\ published \in Nat
      /\ published <= MaxEvents /\ MaxEvents \in Nat /\ Len(buffer) \in Nat
  BY StoreFacts DEF StoreInv
<1>2. /\ queue' \in Queues /\ Ordered(queue', published + 1)
      /\ queue'.items = Tail(queue.items) /\ queue'.last = e
      /\ Head(queue.items) = queue.items[1] /\ Len(queue.items) \in Nat \ {0}
      /\ Len(Tail(queue.items)) = Len(queue.items) - 1
      /\ \A i \in 1 .. Len(queue.items) - 1 : Tail(queue.items)[i] = queue.items[i + 1]
      /\ queue.last < e /\ e < published + 1
  BY <1>1, TryPopOrdered DEF StoreType, OrderInv
<1>3. e \in Storable /\ e \in Nat
  <2>1. queue.last \in Nat /\ queue'.last \in Nat
    BY <1>1, <1>2, QueueFields DEF StoreType
  <2>2. e \in 1 .. MaxEvents
    BY <1>1, <1>2, <2>1
  <2>3. DateOf[e] \in Days
    BY <2>2, SinkAssumption DEF SinkAssumption, Events
  <2> QED
    BY <2>2, <2>3 DEF Storable, Events
<1>4. /\ buffer \in Seq(Storable) /\ buffer' \in Seq(Storable)
      /\ Len(buffer') = Len(buffer) + 1 /\ buffer'[Len(buffer) + 1] = e
      /\ \A i \in 1 .. Len(buffer) : buffer'[i] = buffer[i]
  BY <1>1, <1>3, AppendProperties DEF StoreType
<1>5. \A i \in 1 .. Len(buffer') : i \in 1 .. Len(buffer) \/ i = Len(buffer) + 1
  BY <1>1, <1>4
<1>6. \A i \in 1 .. Len(queue'.items) :
         i + 1 \in 1 .. Len(queue.items) /\ queue'.items[i] = queue.items[i + 1]
  BY <1>2
<1>7. StoreType'
  BY <1>1, <1>2, <1>4 DEF StoreType, FlushPlaces
<1>8. FlushInv'
  <2>1. CASE flush' = flush
    BY <2>1 DEF FlushInv, Busy, Ended
  <2>2. CASE flush' = [at |-> "open", pos |-> 1]
    <3>1. 1 \in 1 .. Len(buffer') /\ \A i \in 1 .. 1 - 1 : FALSE
      BY <1>1, <1>4
    <3> QED
      BY <2>2, <3>1 DEF FlushInv, Busy
  <2> QED
    BY <2>1, <2>2
<1>9. AckedInv' /\ RetentionHeld'
  BY DEF StoreInv, AckedInv, RetentionHeld, Ended
<1>10. Unwritten = 1 /\ Unwritten' = 1
  BY DEF Ended, Unwritten
<1>11. OrderInv'
  <2>1. \A i \in 1 .. Len(buffer) : buffer[i] < e
    <3>1. \A i \in 1 .. Len(buffer) : buffer[i] <= queue.last /\ buffer[i] \in Nat
      BY <1>1, StoreFacts DEF OrderInv
    <3>2. queue.last \in Nat
      BY <1>1, StoreFacts
    <3> QED
      BY <1>2, <1>3, <3>1, <3>2
  <2>2. ASSUME NEW i \in 1 .. Len(buffer'), NEW j \in 1 .. Len(buffer'), i < j
        PROVE  buffer'[i] < buffer'[j]
    <3>1. i \in 1 .. Len(buffer) /\ buffer'[i] = buffer[i]
      BY <1>1, <1>4, <2>2
    <3>2. CASE j \in 1 .. Len(buffer)
      BY <1>1, <1>4, <2>2, <3>1, <3>2 DEF OrderInv, Increasing
    <3>3. CASE j = Len(buffer) + 1
      BY <1>4, <2>1, <3>1, <3>3
    <3> QED
      BY <1>5, <3>2, <3>3
  <2>3. \A i \in 1 .. Len(buffer') : buffer'[i] <= queue'.last
    <3>1. \A i \in 1 .. Len(buffer) : buffer[i] \in Nat
      BY <1>1, StoreFacts
    <3> QED
      BY <1>2, <1>3, <1>4, <1>5, <2>1, <3>1
  <2>4. \A d \in Days : LinesOf(d)' = LinesOf(d)
    BY DEF LinesOf
  <2>5. ASSUME faults = 0, NEW d \in Days PROVE FileOrder(d)'
    <3>1. FileOrder(d)
      BY <1>1, <2>5 DEF OrderInv
    <3>2. 1 \in 1 .. Len(queue.items) /\ ~IsGap(queue.items[1]) /\ queue.items[1].seq = e
      BY <1>2
    <3>3. \A x \in LinesOf(d) : x < e
      BY <3>1, <3>2 DEF FileOrder
    <3>4. \A x \in LinesOf(d) : \A i \in 1 .. Len(buffer) : x < buffer[i]
      BY <1>10, <3>1 DEF FileOrder
    <3>5. \A x \in LinesOf(d) : \A i \in 1 .. Len(buffer') : x < buffer'[i]
      BY <1>4, <1>5, <3>3, <3>4
    <3>6. \A x \in LinesOf(d) : \A i \in 1 .. Len(queue'.items) :
             ~IsGap(queue'.items[i]) => x < queue'.items[i].seq
      BY <1>6, <3>1 DEF FileOrder
    <3>7. Increasing(disk'[d].lines)
      BY <3>1 DEF FileOrder, Increasing
    <3> QED
      BY <1>10, <2>4, <3>5, <3>6, <3>7 DEF FileOrder, Increasing
  <2>6. Increasing(buffer)'
    BY <2>2 DEF Increasing
  <2>7. (\A d \in Days : \A x \in LinesOf(d) : x <= published)'
    BY <1>1, <2>4 DEF OrderInv
  <2> QED
    BY <1>2, <2>3, <2>5, <2>6, <2>7 DEF OrderInv
<1>12. Kept \cup {e} \subseteq Kept'
  <2>1. Range(buffer) \cup {e} \subseteq Range(buffer')
    <3>1. DOMAIN buffer = 1 .. Len(buffer) /\ DOMAIN buffer' = 1 .. Len(buffer')
      BY <1>4
    <3>2. \A i \in DOMAIN buffer : i \in DOMAIN buffer' /\ buffer'[i] = buffer[i]
      BY <1>1, <1>4, <3>1
    <3>3. Len(buffer) + 1 \in DOMAIN buffer'
      BY <1>1, <1>4, <3>1
    <3> QED
      BY <1>4, <3>2, <3>3 DEF Range
  <2> QED
    BY <2>1 DEF Kept, LinesOf
<1> QED
  BY <1>7, <1>8, <1>9, <1>11, <1>12 DEF StoreInv

\* publish() puts an event behind all that is queued, or drops it.
LEMMA PublishStep ==
    ASSUME StoreInv, UNCHANGED sinkVars, published < MaxEvents, published' = published + 1,
           queue' = queue \/ queue' = Enqueue(queue, Event(KindOf[published'], published'),
                                              QueueDepth, "coalesce")
    PROVE  StoreInv' /\ Kept' = Kept
<1>1. /\ buffer' = buffer /\ fd' = fd /\ disk' = disk /\ flush' = flush /\ outcome' = outcome
      /\ faults' = faults /\ acked' = acked /\ reaped' = reaped /\ adrift' = adrift
      /\ StoreType /\ OrderInv /\ published \in Nat /\ MaxEvents \in Nat
      /\ published' \in Nat
  BY StoreFacts DEF sinkVars, StoreInv
<1> DEFINE n == published'
<1>2. KindOf[n] \in Kinds /\ n \in Nat /\ QueueDepth \in Nat \ {0}
  BY <1>1, DaemonAssumption DEF DaemonAssumption, Events
<1>3. /\ queue' \in Queues /\ Ordered(queue', n + 1) /\ queue'.last = queue.last
      /\ \A i \in 1 .. Len(queue'.items) : ~IsGap(queue'.items[i]) =>
            \/ queue'.items[i].seq = n
            \/ \E j \in 1 .. Len(queue.items) :
                  ~IsGap(queue.items[j]) /\ queue'.items[i].seq = queue.items[j].seq
  <2>1. queue \in Queues /\ Ordered(queue, n)
    BY <1>1 DEF StoreType, OrderInv
  <2>2. CASE queue' = queue
    <3>1. queue.last \in Nat /\ \A i \in 1 .. Len(queue.items) : queue.items[i].seq \in Nat
      BY <2>1, QueueFields
    <3>2. Ordered(queue, n + 1)
      BY <1>2, <2>1, <3>1 DEF Ordered
    <3> QED
      BY <2>1, <2>2, <3>2
  <2>3. CASE queue' = Enqueue(queue, Event(KindOf[n], n), QueueDepth, "coalesce")
    BY <1>2, <2>1, <2>3, EnqueueOrdered
  <2> QED
    BY <2>2, <2>3
<1>4. BatchEnd' = BatchEnd /\ Today' = Today /\ \A d \in Days : LinesOf(d)' = LinesOf(d)
  BY <1>1, BatchKept DEF LinesOf
<1>5. StoreType'
  BY <1>1, <1>3 DEF StoreType
<1>6. FlushInv'
  BY <1>1, <1>4 DEF StoreInv, FlushInv, Busy, LinesOf
<1>7. AckedInv' /\ RetentionHeld'
  BY <1>1 DEF StoreInv, AckedInv, RetentionHeld, Ended
<1>8. OrderInv'
  <2>1. Unwritten' = Unwritten
    BY <1>1, <1>4 DEF Unwritten
  <2>2. \A d \in Days : \A x \in LinesOf(d) : x \in Nat /\ x < n /\ x <= n
    <3> SUFFICES ASSUME NEW d \in Days, NEW x \in LinesOf(d) PROVE x \in Nat /\ x < n /\ x <= n
      OBVIOUS
    <3>1. FileOK(disk[d]) /\ x <= published
      BY <1>1 DEF StoreType, OrderInv
    <3>2. PICK i \in 1 .. Len(disk[d].lines) : x = disk[d].lines[i]
      BY <3>1, FileFields DEF LinesOf
    <3>3. x \in Nat
      BY <3>1, <3>2, FileFields
    <3> QED
      BY <1>1, <3>1, <3>3
  <2>3. \A d \in Days : FileOrder(d) => FileOrder(d)'
    <3> SUFFICES ASSUME NEW d \in Days, FileOrder(d) PROVE FileOrder(d)'
      OBVIOUS
    <3>1. \A x \in LinesOf(d) : \A i \in 1 .. Len(queue'.items) :
             ~IsGap(queue'.items[i]) => x < queue'.items[i].seq
      BY <1>3, <2>2 DEF FileOrder
    <3> QED
      BY <1>1, <1>4, <2>1, <3>1 DEF FileOrder, Increasing
  <2>4. Ordered(queue, published + 1)'
    BY <1>3
  <2>5. Increasing(buffer)' /\ (\A i \in 1 .. Len(buffer) : buffer[i] <= queue.last)'
    BY <1>1, <1>3 DEF OrderInv, Increasing
  <2>6. (\A d \in Days : \A x \in LinesOf(d) : x <= published)'
    BY <1>4, <2>2
  <2> QED
    BY <1>1, <2>3, <2>4, <2>5, <2>6 DEF OrderInv
<1>9. Kept' = Kept
  BY <1>1 DEF Kept, LinesOf
<1> QED
  BY <1>5, <1>6, <1>7, <1>8, <1>9 DEF StoreInv

\* The machine stops: what was safe is still there, but for unlinked files.
LEMMA CrashStep ==
    ASSUME StoreInv, Crash
    PROVE  StoreInv'
<1>1. /\ StoreType /\ AckedInv /\ buffer' = <<>> /\ flush' = Idle /\ outcome' = "none"
      /\ queue' = EmptyQueue /\ faults' = faults /\ acked' = acked /\ reaped' = reaped
      /\ published' = published
      /\ disk' \in {f \in [Days -> UNION {Survivors(disk[d]) : d \in Days}] :
                       \A d \in Days : f[d] \in Survivors(disk[d])}
      /\ adrift' = adrift \cup UNION {LinesOf(d) : d \in {x \in There : ~disk'[x].there}}
  BY DEF Crash, Fresh, StoreInv
<1>2. /\ DOMAIN disk' = Days /\ disk' = [d \in Days |-> disk'[d]]
      /\ \A d \in Days : disk'[d] \in Survivors(disk[d])
  BY <1>1
<1>3. ASSUME NEW d \in Days
      PROVE  /\ FileOK(disk'[d]) /\ disk'[d] \in Files
             /\ disk'[d].there => disk[d].there /\ Safe(disk'[d]) = Safe(disk[d])
             /\ Len(disk'[d].lines) <= Len(disk[d].lines)
             /\ \A i \in 1 .. Len(disk'[d].lines) : disk'[d].lines[i] = disk[d].lines[i]
             /\ Range(disk'[d].lines) \subseteq Range(disk[d].lines)
  <2>1. FileOK(disk[d]) /\ disk'[d] \in Survivors(disk[d])
    BY <1>1, <1>2 DEF StoreType
  <2> QED
    BY <2>1, SurvivorFile DEF FileOK
<1>4. Shrunk
  <2>1. disk' \in [Days -> Files]
    BY <1>2, <1>3
  <2> QED
    BY <1>3, <2>1 DEF Shrunk
<1>5. AckedInv'
  <2>1. ASSUME NEW x \in acked PROVE x \in (UNION {Safe(disk'[d]) : d \in Days}) \cup reaped \cup adrift'
    <3>1. CASE x \in reaped \/ x \in adrift
      BY <1>1, <3>1
    <3>2. CASE x \notin reaped /\ x \notin adrift
      <4>1. PICK d \in Days : x \in Safe(disk[d])
        BY <1>1, <3>2 DEF AckedInv
      <4>2. CASE disk'[d].there
        BY <1>3, <4>1, <4>2
      <4>3. CASE ~disk'[d].there
        <5>1. x \in LinesOf(d) /\ disk[d].there
          BY <1>1, <4>1, FileFields DEF StoreType, LinesOf
        <5>2. d \in {y \in There : ~disk'[y].there}
          BY <4>3, <5>1 DEF There, Present
        <5>3. x \in adrift'
          BY <1>1, <5>1, <5>2
        <5> QED
          BY <5>3
      <4> QED
        BY <4>2, <4>3
    <3> QED
      BY <3>1, <3>2
  <2> QED
    BY <1>1, <2>1 DEF AckedInv
<1>6. RetentionHeld'
  BY <1>1 DEF RetentionHeld
<1> QED
  BY <1>1, <1>4, <1>5, <1>6, StoreReset
-----------------------------------------------------------------------------
(* The drain thread against start() and shutdown().                        *)

DrainPlaces == {"none", "subscribe", "setNotify", "drain", "wait", "blocked", "final",
                "unset", "exited"}

\* Events come only while the thread is subscribed, it leaves only when told to,
\* and the sink is open as long as it runs.
DrainInv ==
    /\ ds \in [notified : BOOLEAN, stopping : BOOLEAN]
    /\ drain \in DrainPlaces
    /\ drain \in {"none", "subscribe"} => queue.items = <<>> /\ owed = {}
    /\ drain \in {"none", "subscribe", "exited"} => sub = "none"
    /\ ready = "error" => drain = "exited"
    /\ ds.stopping => owner \in Stopped \/ drain = "exited"
    /\ drain \in {"final", "unset"} => ds.stopping
    /\ closed => Ended /\ (drain = "none" \/ owner = "done")
    /\ owner = "done" => closed /\ (buffer = <<>> \/ drain = "none")

LEMMA DrainInit == Init => DrainInv
  BY DEF Init, SinkInit, DrainInv, DrainPlaces, EmptyQueue, Queue, Ended, Idle

LEMMA DrainOwner == UsersInv /\ DrainInv /\ (Owner \/ CallShutdown) => DrainInv'
<1> SUFFICES ASSUME UsersInv, DrainInv, Owner \/ CallShutdown PROVE DrainInv'
  OBVIOUS
<1>1. CASE ComposeSession
  BY <1>1 DEF ComposeSession, DrainInv, sinkVars, Ended
<1>2. CASE StartStorage
  BY <1>2 DEF StartStorage, OpenSink, UsersInv, DrainInv, DrainPlaces, sinkVars, Ended, Idle
<1>3. CASE Handshake
  BY <1>3 DEF Handshake, DrainInv, sinkVars, Ended
<1>4. CASE StartTransport \/ StartSources
  BY <1>4 DEF StartTransport, StartSources, DrainInv, sinkVars, Ended
<1>5. CASE StartObservation \/ StopReactor \/ CallShutdown
  BY <1>5 DEF StartObservation, StopReactor, CallShutdown, Later, DrainInv, sinkVars, Ended
<1>6. CASE JoinReactor \/ StopServer \/ StopObservation
  BY <1>6 DEF JoinReactor, StopServer, StopObservation, DrainInv, sinkVars, Ended
<1>7. CASE SignalDrainStop
  <2>1. ds' \in [notified : BOOLEAN, stopping : BOOLEAN] /\ ds'.stopping
    BY <1>7 DEF SignalDrainStop
  <2> QED
    BY <1>7, <2>1 DEF SignalDrainStop, DrainInv, sinkVars, Ended
<1>12. CASE JoinDrain
  BY <1>12 DEF JoinDrain, DrainInv, sinkVars, Ended
<1>8. CASE FlushSink /\ closed
  BY <1>8 DEF FlushSink, UsersInv, DrainInv, Later, sinkVars, Ended
<1>9. CASE FlushSink /\ ~closed
  BY <1>9 DEF FlushSink, Flush, DrainInv, Later
<1>10. CASE CloseFlush
  BY <1>10 DEF CloseFlush, Flush, DrainInv, Later
<1>11. CASE CloseStorage
  BY <1>11 DEF CloseStorage, CloseSink, DrainInv, Later, Ended
<1> QED
  BY <1>1, <1>2, <1>3, <1>4, <1>5, <1>6, <1>7, <1>8, <1>9, <1>10, <1>11,
     <1>12 DEF Owner

LEMMA DrainSteps ==
    UsersInv /\ StoreInv /\ DrainInv /\ [Next]_vars => DrainInv'
<1> SUFFICES ASSUME UsersInv, StoreInv, DrainInv, [Next]_vars PROVE DrainInv'
  OBVIOUS
<1>1. CASE Owner \/ CallShutdown
  BY <1>1, DrainOwner
<1>2. CASE Subscribe \/ SetNotify
  BY <1>2 DEF Subscribe, SetNotify, DrainRest, DrainTo, DrainInv, DrainPlaces, sinkVars, Ended
<1>3. CASE Block \/ LeaveDrain
  BY <1>3 DEF Block, LeaveDrain, DrainRest, DrainTo, DrainInv, DrainPlaces, sinkVars, Ended
<1>10. CASE WaitForDataOrStop
  <2>1. ds' \in [notified : BOOLEAN, stopping : BOOLEAN] /\ ds'.stopping = ds.stopping
    BY <1>10 DEF WaitForDataOrStop, DrainInv
  <2> QED
    BY <1>10, <2>1 DEF WaitForDataOrStop, DrainRest, DrainTo, DrainInv, DrainPlaces, sinkVars,
                       Ended
<1>4. CASE DrainAvailable
  <2>1. /\ drain \in {"drain", "final"} /\ UNCHANGED <<DrainRest, ready, ds, sub>>
        /\ drain' = drain \/ (drain = "drain" /\ drain' = "wait")
                          \/ (drain = "final" /\ drain' = "unset")
        /\ UNCHANGED closed
    BY <1>4 DEF DrainAvailable, DrainTo, Write, sinkVars
  <2>2. owner # "done" /\ ~closed
    BY <2>1 DEF UsersInv, DrainInv
  <2> QED
    BY <2>1, <2>2 DEF DrainRest, DrainInv, DrainPlaces
<1>5. CASE ReactorThread \/ UNCHANGED vars
  BY <1>5 DEF ReactorThread, vars, daemonVars, DrainInv, sinkVars, Ended
<1>6. CASE Sinking
  <2>1. UNCHANGED daemonVars /\ FlushStep
    BY <1>6 DEF Sinking
  <2>2. ~Ended /\ closed' = closed
    BY <2>1, FlushSteps DEF daemonVars
  <2> QED
    BY <2>1, <2>2 DEF daemonVars, DrainInv
<1>7. CASE Crash
  BY <1>7 DEF Crash, Fresh, DrainInv, DrainPlaces, EmptyQueue, Queue, Ended, Idle
<1>8. ASSUME NEW p \in Publishers, Publish(p) PROVE DrainInv'
  <2>1. UNCHANGED <<sinkVars, owner, drain, ready, ds, sub>>
    BY <1>8 DEF Publish
  <2>2. drain \in {"none", "subscribe"} => queue' = queue /\ owed' = owed
    BY <1>8 DEF Publish, DrainInv
  <2> QED
    BY <2>1, <2>2 DEF DrainInv, sinkVars, Ended
<1>9. ASSUME NEW p \in Publishers, NotifyWaiter(p) PROVE DrainInv'
  BY <1>9 DEF NotifyWaiter, DrainInv, sinkVars, Ended
<1>11. CASE ClientStreams \/ ClientLeaves
  BY <1>11 DEF ClientStreams, ClientLeaves, DrainInv, sinkVars, Ended
<1> QED
  BY <1>1, <1>2, <1>3, <1>4, <1>5, <1>6, <1>7, <1>8, <1>9, <1>10, <1>11 DEF Next, Drain
-----------------------------------------------------------------------------
(* What storage took on, on its way to the disk.                           *)

\* Unless the queue overflowed: no marker hides what is queued; a thread that
\* left has left nothing behind; a flush of shutdown() that ended emptied the
\* buffer or failed; and nothing owed was lost before a failure was final.
KeptInv ==
    /\ ~Overflowed => \A i \in 1 .. Len(queue.items) : ~IsGap(queue.items[i])
    /\ ~Overflowed /\ drain \in {"unset", "exited"} => queue.items = <<>>
    /\ owner \in {"flushing", "closing"} /\ Ended => buffer = <<>> \/ outcome = "error"
    /\ ~Overflowed /\ ~(owner = "done" /\ outcome = "error") =>
          \A e \in owed : Sound(e) => e \in Queued(queue) \cup Kept

LEMMA KeptInit == Init => KeptInv
  BY DEF Init, SinkInit, KeptInv, EmptyQueue, Queue, Overflowed

\* Steps that touch neither the sink nor the queue.
LEMMA KeptQuiet ==
    ASSUME KeptInv, Kept' = Kept, UNCHANGED <<queue, owed, outcome>>,
           drain' \in {"unset", "exited"} => drain \in {"unset", "exited"} \/ queue.items = <<>>,
           owner = "done" => owner' = "done",
           owner' \in {"flushing", "closing"} /\ Ended' => buffer' = <<>> \/ outcome = "error"
    PROVE  KeptInv'
<1>1. queue' = queue /\ owed' = owed /\ outcome' = outcome
  OBVIOUS
<1>2. Overflowed' = Overflowed /\ Queued(queue') = Queued(queue)
  BY <1>1 DEF Overflowed
<1> QED
  BY <1>1, <1>2 DEF KeptInv

LEMMA KeptOwner ==
    ASSUME UsersInv, StoreInv, DrainInv, KeptInv, Owner \/ CallShutdown
    PROVE  StoreInv' /\ KeptInv'
<1>1. ASSUME UNCHANGED <<sinkVars, queue, published, owed, drain>>, owner # "done",
             owner' \notin {"flushing", "closing"}
      PROVE  StoreInv' /\ KeptInv'
  <2>1. StoreInv' /\ Kept' = Kept /\ outcome' = outcome
    BY <1>1, StoreFrame DEF sinkVars
  <2> QED
    BY <1>1, <2>1, KeptQuiet
<1>2. CASE ComposeSession \/ Handshake
  BY <1>1, <1>2 DEF ComposeSession, Handshake
<1>3. CASE StartTransport \/ StartSources \/ StartObservation
  BY <1>1, <1>3 DEF StartTransport, StartSources, StartObservation
<1>4. CASE StopReactor \/ JoinReactor \/ StopServer
  BY <1>1, <1>4 DEF StopReactor, JoinReactor, StopServer
<1>5. CASE StopObservation \/ SignalDrainStop \/ JoinDrain
  BY <1>1, <1>5 DEF StopObservation, SignalDrainStop, JoinDrain
<1>6. CASE CallShutdown \/ (FlushSink /\ closed)
  BY <1>1, <1>6 DEF CallShutdown, FlushSink, Later
<1>7. CASE StartStorage
  <2>1. CASE UNCHANGED <<sinkVars, drain>>
    BY <1>1, <1>7, <2>1 DEF StartStorage
  <2>2. CASE OpenSink
    <3>1. /\ UNCHANGED <<queue, published, owed>> /\ owner' \notin Ends
          /\ owner = "storage" /\ drain' \in {"none", "subscribe"}
          /\ drain = "none"
      BY <1>7, <2>2 DEF StartStorage, UsersInv
    <3>2. StoreInv'
      BY <2>2, <3>1, OpenSinkStep
    <3>3. owed = {}
      BY <3>1 DEF DrainInv
    <3> QED
      BY <3>1, <3>2, <3>3 DEF KeptInv, Overflowed
  <2> QED
    BY <1>7, <2>1, <2>2 DEF StartStorage
<1>8. CASE (FlushSink /\ ~closed) \/ CloseFlush
  <2>1. Flush /\ UNCHANGED <<queue, published, owed, drain>> /\ owner # "done"
    BY <1>8 DEF FlushSink, CloseFlush, Later
  <2>2. StoreInv' /\ Kept' = Kept /\ outcome' = outcome /\ (Ended' => buffer' = <<>>)
    BY <2>1, FlushStarts
  <2> QED
    BY <2>1, <2>2, KeptQuiet
<1>9. CASE CloseStorage
  <2>1. CloseSink /\ UNCHANGED <<queue, published, owed, drain>> /\ owner = "closing"
        /\ owner' = "done" /\ Ended
    BY <1>9 DEF CloseStorage, CloseSink, Later
  <2>2. StoreInv' /\ outcome' = outcome /\ (buffer = <<>> => Kept' = Kept)
    BY <2>1, CloseSinkStep
  <2>3. CASE buffer = <<>>
    BY <2>1, <2>2, <2>3, KeptQuiet
  <2>4. CASE outcome = "error"
    BY <2>1, <2>2, <2>4 DEF KeptInv, Overflowed
  <2> QED
    BY <2>1, <2>3, <2>4 DEF KeptInv
<1> QED
  BY <1>2, <1>3, <1>4, <1>5, <1>6, <1>7, <1>8, <1>9 DEF Owner

\* drain_available() gets every event that is not hidden by a marker.
LEMMA KeptDrain ==
    ASSUME UsersInv, StoreInv, DrainInv, KeptInv, DrainAvailable
    PROVE  StoreInv' /\ KeptInv'
<1>1. /\ drain \in {"drain", "final"} /\ Ended
      /\ owner' = owner /\ published' = published /\ owed' = owed
  BY DEF DrainAvailable, DrainRest
<1>2. owner \notin Ends /\ ~closed
  BY <1>1 DEF UsersInv, DrainInv
<1>3. CASE queue.items = <<>>
  <2>1. UNCHANGED <<sinkVars, queue>>
    BY <1>3 DEF DrainAvailable
  <2>2. StoreInv' /\ Kept' = Kept /\ outcome' = outcome
    BY <1>1, <2>1, StoreFrame DEF sinkVars
  <2> QED
    BY <1>1, <1>2, <1>3, <2>1, <2>2, KeptQuiet
<1>4. CASE queue.items # <<>>
  <2> DEFINE e == Head(queue.items).seq
  <2>0. queue' = TryPop(queue) /\ queue \in Queues /\ published + 1 \in Nat
        /\ Ordered(queue, published + 1)
    BY <1>4, StoreFacts DEF DrainAvailable, StoreInv, StoreType, OrderInv
  <2>1. /\ queue'.items = Tail(queue.items) /\ queue'.overflow = queue.overflow
        /\ Head(queue.items) = queue.items[1] /\ Len(queue.items) \in Nat \ {0}
        /\ Len(Tail(queue.items)) = Len(queue.items) - 1
        /\ \A i \in 1 .. Len(queue.items) - 1 : Tail(queue.items)[i] = queue.items[i + 1]
    BY <1>4, <2>0, TryPopOrdered
  <2>2. 1 \in 1 .. Len(queue.items) /\ Overflowed' = Overflowed
    BY <2>1 DEF Overflowed
  <2>3. \A i \in 1 .. Len(queue'.items) :
           i + 1 \in 1 .. Len(queue.items) /\ queue'.items[i] = queue.items[i + 1]
    BY <2>1
  <2>4. ~Overflowed => /\ \A i \in 1 .. Len(queue'.items) : ~IsGap(queue'.items[i])
                       /\ ~IsGap(Head(queue.items))
    BY <2>1, <2>2, <2>3 DEF KeptInv
  <2>5. Queued(queue) \subseteq Queued(queue') \cup {e}
    <3> SUFFICES ASSUME NEW i \in 1 .. Len(queue.items)
                 PROVE  queue.items[i].seq \in Queued(queue') \cup {e}
      BY DEF Queued
    <3>1. CASE i = 1
      BY <2>1, <3>1
    <3>2. CASE i # 1
      <4>1. i - 1 \in 1 .. Len(queue'.items) /\ (i - 1) + 1 = i
        BY <2>1, <3>2
      <4>2. queue'.items[i - 1] = queue.items[i]
        BY <2>3, <4>1
      <4> QED
        BY <4>1, <4>2 DEF Queued
    <3> QED
      BY <3>1, <3>2
  <2>6. CASE IsGap(Head(queue.items))
    <3>1. UNCHANGED sinkVars
      BY <1>4, <2>6 DEF DrainAvailable
    <3>2. StoreInv'
      BY <1>1, <1>4, <2>0, <3>1, PopUnwritten
    <3> QED
      BY <1>1, <1>2, <2>2, <2>4, <2>6, <3>2 DEF KeptInv
  <2>7. CASE ~IsGap(Head(queue.items))
    <3>0. drain' = drain /\ Write(e)
      BY <1>4, <2>7 DEF DrainAvailable
    <3>1. StoreInv' /\ Kept \subseteq Kept' /\ (Sound(e) => e \in Kept')
      <4>1. CASE DateOf[e] = NoDate
        <5>1. UNCHANGED sinkVars
          BY <3>0, <4>1 DEF Write, sinkVars
        <5>2. StoreInv' /\ Kept' = Kept
          BY <1>1, <1>4, <2>0, <5>1, PopUnwritten
        <5> QED
          BY <4>1, <5>2 DEF Sound
      <4>2. CASE DateOf[e] # NoDate
        <5>1. /\ buffer' = Append(buffer, e)
              /\ flush' = flush \/ flush' = [at |-> "open", pos |-> 1]
              /\ UNCHANGED <<fd, disk, outcome, faults, acked, reaped, adrift>>
          <6>1. /\ buffer' = Append(buffer, e)
                /\ flush' = flush \/ StartFlush(buffer')
                /\ UNCHANGED <<fd, disk, outcome, faults, acked, reaped, adrift>>
            BY <1>2, <3>0, <4>2 DEF Write
          <6>2. buffer \in Seq(Storable)
            BY DEF StoreInv, StoreType
          <6>3. buffer' # <<>>
            BY <6>1, <6>2
          <6> QED
            BY <6>1, <6>3 DEF StartFlush
        <5>2. StoreInv' /\ Kept \cup {e} \subseteq Kept'
          BY <1>1, <1>4, <2>0, <2>7, <4>2, <5>1, PopWritten
        <5> QED
          BY <5>2
      <4> QED
        BY <4>1, <4>2
    <3>2. ~Overflowed => \A x \in owed : Sound(x) => x \in Queued(queue') \cup Kept'
      <4> SUFFICES ASSUME ~Overflowed, NEW x \in owed, Sound(x)
                   PROVE  x \in Queued(queue') \cup Kept'
        OBVIOUS
      <4>1. x \in Queued(queue) \cup Kept
        BY <1>2 DEF KeptInv
      <4> QED
        BY <2>5, <3>1, <4>1
    <3> QED
      BY <1>1, <1>2, <2>2, <2>4, <3>0, <3>1, <3>2 DEF KeptInv
  <2> QED
    BY <2>6, <2>7
<1> QED
  BY <1>3, <1>4

\* publish() makes storage owe the event, or counts an overflow.  Nobody can
\* publish any more when the drain thread looks at the queue for the last time.
LEMMA KeptPublish ==
    ASSUME UsersInv, StoreInv, DrainInv, KeptInv, NEW p \in Publishers, Publish(p)
    PROVE  StoreInv' /\ KeptInv'
<1>1. /\ UNCHANGED <<sinkVars, owner, drain>> /\ outcome' = outcome /\ buffer' = buffer
      /\ flush' = flush /\ published < MaxEvents
      /\ published' = published + 1
      /\ MayPublish(p)
  BY DEF Publish, sinkVars
<1>2. queue' = queue \/ queue' = Enqueue(queue, Event(KindOf[published'], published'),
                                         QueueDepth, "coalesce")
  BY DEF Publish
<1>3. StoreInv' /\ Kept' = Kept
  BY <1>1, <1>2, PublishStep
<1>4. CASE sub = "none"
  <2>1. queue' = queue /\ owed' = owed
    BY <1>4 DEF Publish
  <2> QED
    BY <1>1, <1>3, <2>1, KeptQuiet DEF KeptInv, Ended
<1>5. CASE sub # "none"
  <2>1. /\ queue' = Enqueue(queue, Event(KindOf[published'], published'), QueueDepth, "coalesce")
        /\ owed' = (owed \cup {published'}) \ (Queued(queue) \ Queued(queue'))
    BY <1>5 DEF Publish
  <2>2. drain \notin {"unset", "exited"}
    BY <1>1, <1>5 DEF DrainInv, UsersInv, MayPublish
  <2>3. owner \notin {"flushing", "closing", "done"}
    BY <1>1, <1>5 DEF DrainInv, UsersInv, MayPublish
  <2>4. queue'.overflow = 0 =>
           /\ queue.overflow = 0
           /\ \E i \in 1 .. Len(queue'.items) : queue'.items[i].seq = published'
           /\ (\A i \in 1 .. Len(queue.items) : ~IsGap(queue.items[i])) =>
                 (\A i \in 1 .. Len(queue'.items) : ~IsGap(queue'.items[i]))
    <3>1. queue \in Queues /\ Ordered(queue, published') /\ published' \in Nat
      BY <1>1, StoreFacts DEF StoreInv, StoreType, OrderInv
    <3>2. published' \in Events
      BY <1>1, StoreFacts DEF StoreInv, Events
    <3>3. KindOf[published'] \in Kinds /\ QueueDepth \in Nat \ {0}
      BY <3>2, DaemonAssumption DEF DaemonAssumption
    <3> QED
      BY <2>1, <3>1, <3>3, EnqueueOrdered
  <2>5. queue.overflow \in Nat /\ queue'.overflow \in Nat
    BY <1>3, QueueFields DEF StoreInv, StoreType
  <2>6. ~Overflowed' =>
           /\ ~Overflowed /\ published' \in Queued(queue')
           /\ (\A i \in 1 .. Len(queue.items) : ~IsGap(queue.items[i])) =>
                 (\A i \in 1 .. Len(queue'.items) : ~IsGap(queue'.items[i]))
    BY <2>4, <2>5 DEF Overflowed, Queued
  <2>7. ASSUME ~Overflowed', NEW e \in owed', Sound(e)
        PROVE  e \in Queued(queue') \cup Kept
    <3>1. CASE e = published'
      BY <2>6, <2>7, <3>1
    <3>2. CASE e \in owed
      <4>1. e \in Queued(queue) \cup Kept
        BY <2>3, <2>6, <2>7, <3>2 DEF KeptInv
      <4> QED
        BY <2>1, <2>7, <4>1
    <3> QED
      BY <2>1, <3>1, <3>2
  <2> QED
    BY <1>1, <1>3, <2>2, <2>3, <2>6, <2>7 DEF KeptInv, Sound
<1> QED
  BY <1>4, <1>5

-----------------------------------------------------------------------------
(* Lines that continue a fragment.                                         *)

\* A spoilt line is one of the file's, and its event is on record as glued; a
\* fragment is left only by a failed call or a crash.
GluedInv ==
    /\ crashes \in Nat
    /\ \A d \in Days : \A i \in disk[d].spoilt :
          i \in 1 .. Len(disk[d].lines) /\ disk[d].lines[i] \in glued
    /\ faults = 0 /\ crashes = 0 => glued = {} /\ \A d \in Days : ~disk[d].torn

LEMMA GluedInit == Init => GluedInv
<1>1. Absent.spoilt = {} /\ ~Absent.torn
  BY DEF Absent
<1> QED
  BY <1>1 DEF Init, SinkInit, GluedInv

\* A step that touches neither the files nor what is known of their lines.
LEMMA GluedFrame ==
    ASSUME GluedInv, UNCHANGED <<disk, glued, crashes>>, faults' = faults \/ faults' # 0
    PROVE  GluedInv'
  BY DEF GluedInv

\* One file is exchanged for one without spoilt lines and fragments, or for one
\* that differs in other things.
LEMMA GluedOther ==
    ASSUME GluedInv, StoreType, UNCHANGED <<glued, crashes>>, faults' = faults \/ faults' # 0,
           NEW day \in Days, NEW f, disk' = [disk EXCEPT ![day] = f],
           \/ f.spoilt = {} /\ ~f.torn
           \/ f.spoilt = disk[day].spoilt /\ f.lines = disk[day].lines /\ f.torn = disk[day].torn
    PROVE  GluedInv'
<1>1. disk'[day] = f /\ \A d \in Days : d # day => disk'[d] = disk[d]
  BY DEF StoreType
<1> QED
  BY <1>1 DEF GluedInv

\* write_all(), whole or cut short.
LEMMA GluedWrite ==
    ASSUME GluedInv, StoreInv, flush.at = "write", NEW n \in 0 .. Len(Batch), NEW cut \in BOOLEAN,
           disk' = [disk EXCEPT ![fd] = Appended(disk[fd], Batch, n, cut)],
           glued' = glued \cup Glued(disk[fd], Batch, n), UNCHANGED crashes,
           (faults' = faults /\ ~cut) \/ faults' # 0
    PROVE  GluedInv'
<1> DEFINE f == disk[fd]
           g == Appended(f, Batch, n, cut)
<1>1. /\ StoreType /\ FlushInv /\ flush.pos \in 1 .. Len(buffer) /\ fd = Today /\ f.there
  BY DEF StoreInv, FlushInv, Busy
<1>2. fd \in Days /\ Batch \in Seq(Nat)
  BY <1>1, BatchFacts
<1>3. FileOK(f) /\ f \in Files /\ disk \in [Days -> Files]
  BY <1>1, <1>2 DEF StoreType
<1>4. disk'[fd] = g /\ \A d \in Days : d # fd => disk'[d] = disk[d]
  BY <1>2, <1>3
<1>5. FileLengthened(g, f, Batch, n)
  BY <1>1, <1>2, <1>3, AppendedFully
<1>6. /\ g.torn = (cut \/ (n = 0 /\ f.torn))
      /\ g.spoilt = IF f.torn /\ n > 0 THEN f.spoilt \cup {Len(f.lines) + 1} ELSE f.spoilt
  BY <1>3 DEF Appended, Files
<1>7. /\ Len(f.lines) \in Nat /\ Len(g.lines) = Len(f.lines) + n /\ n \in Nat
      /\ \A i \in 1 .. Len(f.lines) : g.lines[i] = f.lines[i]
      /\ \A i \in 1 .. n : g.lines[Len(f.lines) + i] = Batch[i]
  BY <1>2, <1>3, <1>5, FileFields DEF FileLengthened
<1> HIDE DEF f, g
<1>8. ASSUME NEW i \in g.spoilt PROVE i \in 1 .. Len(g.lines) /\ g.lines[i] \in glued'
  <2>1. CASE i \in f.spoilt
    <3>1. i \in 1 .. Len(f.lines) /\ f.lines[i] \in glued
      BY <1>2, <2>1 DEF GluedInv, f
    <3>2. i \in 1 .. Len(g.lines) /\ g.lines[i] = f.lines[i]
      BY <1>7, <3>1
    <3> QED
      BY <3>1, <3>2
  <2>2. CASE i \notin f.spoilt
    <3>1. f.torn /\ n > 0 /\ i = Len(f.lines) + 1
      BY <1>6, <1>8, <2>2
    <3>2. i \in 1 .. Len(g.lines) /\ g.lines[i] = Batch[1]
      BY <1>7, <3>1
    <3>3. Batch[1] \in glued'
      BY <3>1 DEF Glued, f
    <3> QED
      BY <3>2, <3>3
  <2> QED
    BY <2>1, <2>2
<1>9. ASSUME faults' = 0, crashes' = 0
      PROVE  glued' = {} /\ \A d \in Days : ~disk'[d].torn
  <2>1. faults = 0 /\ crashes = 0 /\ ~cut
    BY <1>9
  <2>2. ~f.torn /\ glued = {} /\ \A d \in Days : ~disk[d].torn
    BY <1>2, <2>1 DEF GluedInv, f
  <2>3. glued' = {}
    BY <2>2 DEF Glued, f
  <2>4. ~g.torn
    BY <1>6, <2>1, <2>2
  <2> QED
    BY <1>4, <2>2, <2>3, <2>4
<1>10. \A d \in Days : \A i \in disk'[d].spoilt :
          i \in 1 .. Len(disk'[d].lines) /\ disk'[d].lines[i] \in glued'
  <2> SUFFICES ASSUME NEW d \in Days, NEW i \in disk'[d].spoilt
               PROVE  i \in 1 .. Len(disk'[d].lines) /\ disk'[d].lines[i] \in glued'
    OBVIOUS
  <2>1. CASE d = fd
    BY <1>4, <1>8, <2>1
  <2>2. CASE d # fd
    BY <1>4, <2>2 DEF GluedInv
  <2> QED
    BY <2>1, <2>2
<1> QED
  BY <1>9, <1>10 DEF GluedInv

LEMMA GluedCrash ==
    ASSUME GluedInv, StoreInv, Crash
    PROVE  GluedInv'
<1>1. /\ StoreType /\ glued' = glued /\ crashes' = crashes + 1 /\ crashes \in Nat
      /\ disk' \in {f \in [Days -> UNION {Survivors(disk[d]) : d \in Days}] :
                       \A d \in Days : f[d] \in Survivors(disk[d])}
  BY DEF Crash, StoreInv, GluedInv
<1>2. ASSUME NEW d \in Days, NEW i \in disk'[d].spoilt
      PROVE  i \in 1 .. Len(disk'[d].lines) /\ disk'[d].lines[i] \in glued
  <2> DEFINE f == disk[d]
             g == disk'[d]
  <2>1. FileOK(f) /\ g \in Survivors(f)
    BY <1>1 DEF StoreType
  <2>2. \A j \in f.spoilt : j \in 1 .. Len(f.lines) /\ f.lines[j] \in glued
    BY DEF GluedInv
  <2>3. /\ f \in Files /\ f.lines \in Seq(Nat) /\ Len(f.lines) \in Nat /\ f.synced \in Nat
        /\ \A j \in 1 .. Len(f.lines) : f.lines[j] \in Nat
    BY <2>1, FileFields DEF FileOK
  <2>4. i \in g.spoilt
    BY <1>2
  <2> HIDE DEF f, g
  <2>5. CASE g = f
    BY <2>2, <2>4, <2>5 DEF g
  <2>6. CASE g = Absent
    BY <2>4, <2>6 DEF Absent
  <2>7. CASE g # f /\ g # Absent
    <3>1. PICK n \in f.synced .. Len(f.lines), cut \in BOOLEAN :
             g = [f EXCEPT !.lines = SubSeq(f.lines, 1, n), !.torn = cut,
                           !.spoilt = f.spoilt \cap (1 .. n)]
      BY <2>1, <2>7 DEF Survivors
    <3>2. n \in Nat /\ n <= Len(f.lines) /\ \A j \in 1 .. n : f.lines[j] \in Nat
      BY <2>3, <3>1
    <3> DEFINE s == SubSeq(f.lines, 1, n)
    <3>3. s \in Seq(Nat) /\ Len(s) = n /\ \A j \in 1 .. n : s[j] = f.lines[j]
      BY <3>2, SubSeqProperties
    <3>4. g.lines = s /\ g.spoilt = f.spoilt \cap (1 .. n)
      BY <2>3, <3>1 DEF Files
    <3> HIDE DEF s
    <3>5. i \in f.spoilt /\ i \in 1 .. n
      BY <2>4, <3>4
    <3> QED
      BY <2>2, <3>3, <3>4, <3>5 DEF g
  <2> QED
    BY <2>5, <2>6, <2>7
<1>3. crashes' \in Nat /\ crashes' # 0
  BY <1>1
<1> QED
  BY <1>1, <1>2, <1>3 DEF GluedInv

LEMMA GluedFlush ==
    ASSUME GluedInv, StoreInv, FlushStep, UNCHANGED crashes
    PROVE  GluedInv'
<1>1. StoreType /\ FlushInv /\ faults \in Nat
  BY DEF StoreInv, StoreType
<1>2. Fail => faults' # 0
  BY <1>1 DEF Fail
<1>3. Busy => Today \in Days
  BY <1>1, BatchFacts DEF FlushInv
<1>4. Len(Batch) \in Nat \/ flush.at # "write"
  BY <1>1, BatchFacts DEF FlushInv, Busy
<1>5. /\ NewFile.spoilt = {} /\ ~NewFile.torn /\ Absent.spoilt = {} /\ ~Absent.torn
      /\ [NewFile EXCEPT !.linked = FALSE].spoilt = {} /\ ~[NewFile EXCEPT !.linked = FALSE].torn
  BY DEF NewFile, Absent
<1>6. CASE OpenForDate
  <2>1. Today \in Days /\ UNCHANGED <<glued, faults>>
    BY <1>3, <1>6 DEF OpenForDate, Busy
  <2>2. disk' = disk \/ disk' = [disk EXCEPT ![Today] = NewFile]
    BY <1>6 DEF OpenForDate
  <2> QED
    BY <1>1, <1>5, <2>1, <2>2, GluedFrame, GluedOther
<1>7. CASE OpenFails
  <2>1. Today \in Days /\ UNCHANGED glued /\ faults' # 0
    BY <1>2, <1>3, <1>7 DEF OpenFails, Busy
  <2>2. \/ disk' = disk \/ disk' = [disk EXCEPT ![Today] = NewFile]
        \/ disk' = [disk EXCEPT ![Today] = [NewFile EXCEPT !.linked = FALSE]]
    BY <1>7 DEF OpenFails
  <2> QED
    BY <1>1, <1>5, <2>1, <2>2, GluedFrame, GluedOther
<1>8. CASE WriteAll
  <2>1. Len(Batch) \in 0 .. Len(Batch) /\ flush.at = "write"
    BY <1>4, <1>8 DEF WriteAll
  <2> QED
    BY <1>8, <2>1, GluedWrite DEF WriteAll
<1>9. CASE WriteFails
  <2>1. flush.at = "write" /\ faults' # 0
    BY <1>2, <1>9 DEF WriteFails
  <2>2. PICK n \in 0 .. Len(Batch) - 1, cut \in BOOLEAN :
          /\ disk' = [disk EXCEPT ![fd] = Appended(disk[fd], Batch, n, cut)]
          /\ glued' = glued \cup Glued(disk[fd], Batch, n)
    BY <1>9 DEF WriteFails
  <2>3. n \in 0 .. Len(Batch)
    BY <1>4, <2>1
  <2> QED
    BY <2>1, <2>2, <2>3, GluedWrite
<1>10. CASE Sync
  <2> DEFINE f == [disk[fd] EXCEPT !.synced = Len(disk[fd].lines)]
  <2>1. fd \in Days /\ UNCHANGED <<glued, faults>> /\ disk' = [disk EXCEPT ![fd] = f]
    BY <1>1, <1>3, <1>10 DEF Sync, FlushInv, Busy
  <2>2. disk[fd] \in Files
    BY <1>1, <2>1 DEF StoreType
  <2>3. f.spoilt = disk[fd].spoilt /\ f.lines = disk[fd].lines /\ f.torn = disk[fd].torn
    BY <2>2 DEF Files
  <2> HIDE DEF f
  <2> QED
    BY <1>1, <2>1, <2>3, GluedOther
<1>11. CASE Retain
  <2>1. UNCHANGED <<glued, faults>>
    BY <1>11 DEF Retain
  <2>2. disk' = disk \/ \E d \in Days : disk' = [disk EXCEPT ![d] = Absent]
    <3>1. CASE There # {} /\ OverLimit(disk)
      <4>1. Min(There) \in There
        BY <3>1, Least, SinkAssumption DEF There, Present, SinkAssumption
      <4> QED
        BY <1>11, <3>1, <4>1 DEF Retain, There, Present
    <3>2. CASE ~(There # {} /\ OverLimit(disk))
      BY <1>11, <3>2 DEF Retain
    <3> QED
      BY <3>1, <3>2
  <2> QED
    BY <1>1, <1>5, <2>1, <2>2, GluedFrame, GluedOther
<1>12. CASE SyncFails \/ RetainFails
  BY <1>2, <1>12, GluedFrame DEF SyncFails, RetainFails
<1> QED
  BY <1>6, <1>7, <1>8, <1>9, <1>10, <1>11, <1>12 DEF FlushStep

LEMMA GluedStep == GluedInv /\ StoreInv /\ [Next]_vars => GluedInv'
<1> SUFFICES ASSUME GluedInv, StoreInv, [Next]_vars PROVE GluedInv'
  OBVIOUS
<1>1. CASE Crash
  BY <1>1, GluedCrash
<1>2. CASE Sinking
  BY <1>2, GluedFlush DEF Sinking, daemonVars
<1>3. CASE UNCHANGED <<sinkVars, crashes>>
  BY <1>3, GluedFrame DEF sinkVars
<1>4. CASE StartStorage \/ FlushSink \/ CloseFlush \/ CloseStorage
  <2>1. UNCHANGED <<disk, glued, crashes, faults>>
    BY <1>4 DEF StartStorage, OpenSink, FlushSink, CloseFlush, CloseStorage, Flush, CloseSink,
                Later, sinkVars
  <2> QED
    BY <2>1, GluedFrame
<1>5. CASE DrainAvailable
  <2>1. UNCHANGED <<disk, glued, crashes, faults>>
    BY <1>5 DEF DrainAvailable, Write, DrainRest, sinkVars
  <2> QED
    BY <2>1, GluedFrame
<1>6. CASE ComposeSession \/ Handshake \/ StartTransport \/ StartSources \/ StartObservation
  BY <1>3, <1>6 DEF ComposeSession, Handshake, StartTransport, StartSources, StartObservation
<1>7. CASE CallShutdown \/ StopReactor \/ JoinReactor \/ StopServer
  BY <1>3, <1>7 DEF CallShutdown, StopReactor, JoinReactor, StopServer, Later
<1>8. CASE StopObservation \/ SignalDrainStop \/ JoinDrain \/ ReactorThread
  BY <1>3, <1>8 DEF StopObservation, SignalDrainStop, JoinDrain, ReactorThread
<1>9. CASE Subscribe \/ SetNotify \/ Block \/ WaitForDataOrStop \/ LeaveDrain
  BY <1>3, <1>9 DEF Subscribe, SetNotify, Block, WaitForDataOrStop, LeaveDrain, DrainRest
<1>10. CASE ClientStreams \/ ClientLeaves \/ UNCHANGED vars
  BY <1>3, <1>10 DEF ClientStreams, ClientLeaves, vars, daemonVars
<1>11. ASSUME NEW p \in Publishers, Publish(p) \/ NotifyWaiter(p) PROVE GluedInv'
  BY <1>3, <1>11 DEF Publish, NotifyWaiter
<1> QED
  BY <1>1, <1>2, <1>4, <1>5, <1>6, <1>7, <1>8, <1>9, <1>10, <1>11 DEF Next, Owner, Drain

-----------------------------------------------------------------------------

DaemonInv == UsersInv /\ StoreInv /\ DrainInv /\ KeptInv /\ GluedInv

LEMMA DaemonStep == DaemonInv /\ [Next]_vars => DaemonInv'
<1> SUFFICES ASSUME UsersInv, StoreInv, DrainInv, KeptInv, [Next]_vars
             PROVE  StoreInv' /\ KeptInv'
  BY UsersStep, DrainSteps, GluedStep DEF DaemonInv
<1>1. ASSUME UNCHANGED <<sinkVars, queue, published, owed, owner>>,
             drain' \in {"unset", "exited"} => drain \in {"unset", "exited"} \/ queue.items = <<>>
      PROVE  StoreInv' /\ KeptInv'
  <2>1. StoreInv' /\ Kept' = Kept /\ outcome' = outcome /\ buffer' = buffer /\ flush' = flush
    BY <1>1, StoreFrame DEF sinkVars
  <2> QED
    BY <1>1, <2>1, KeptQuiet DEF KeptInv, Ended
<1>2. CASE Owner \/ CallShutdown
  BY <1>2, KeptOwner
<1>3. CASE DrainAvailable
  BY <1>3, KeptDrain
<1>4. CASE Subscribe \/ SetNotify \/ Block \/ WaitForDataOrStop \/ LeaveDrain
  BY <1>1, <1>4 DEF Subscribe, SetNotify, Block, WaitForDataOrStop, LeaveDrain, DrainRest, DrainTo,
                    DrainInv
<1>5. CASE ReactorThread
  BY <1>1, <1>5 DEF ReactorThread
<1>6. CASE UNCHANGED vars
  BY <1>1, <1>6 DEF vars, daemonVars
<1>7. CASE Sinking
  <2>1. UNCHANGED daemonVars /\ FlushStep /\ queue' = queue /\ owed' = owed
    BY <1>7 DEF Sinking, daemonVars
  <2>2. /\ StoreInv' /\ Kept \subseteq Kept' /\ ~Ended
        /\ Ended' => outcome' = "error" \/ buffer' = <<>>
    BY <2>1, FlushSteps DEF daemonVars
  <2>3. owner # "done" /\ owner' = owner /\ drain' = drain
    BY <2>1, <2>2 DEF DrainInv, daemonVars
  <2>4. Overflowed' = Overflowed /\ Queued(queue') = Queued(queue)
    BY <2>1 DEF Overflowed
  <2> QED
    BY <2>1, <2>2, <2>3, <2>4 DEF KeptInv
<1>8. CASE Crash
  <2>1. owed' = {} /\ queue' = EmptyQueue /\ owner' = "compose"
    BY <1>8 DEF Crash, Fresh
  <2>2. EmptyQueue.items = <<>> /\ Len(<<>>) = 0
    BY DEF EmptyQueue, Queue
  <2> QED
    BY <1>8, <2>1, <2>2, CrashStep DEF KeptInv
<1>9. ASSUME NEW p \in Publishers, Publish(p) PROVE StoreInv' /\ KeptInv'
  BY <1>9, KeptPublish
<1>10. ASSUME NEW p \in Publishers, NotifyWaiter(p) PROVE StoreInv' /\ KeptInv'
  BY <1>1, <1>10 DEF NotifyWaiter
<1>11. CASE ClientStreams \/ ClientLeaves
  BY <1>1, <1>11 DEF ClientStreams, ClientLeaves
<1> QED
  BY <1>2, <1>3, <1>4, <1>5, <1>6, <1>7, <1>8, <1>9, <1>10, <1>11 DEF Next, Drain

LEMMA InvTruthful == DaemonInv => StorageTruthful
<1> SUFFICES ASSUME DaemonInv PROVE StorageTruthful
  OBVIOUS
<1>1. /\ UsersInv /\ StoreType /\ AckedInv /\ OrderInv /\ RetentionHeld /\ DrainInv /\ KeptInv
      /\ GluedInv
  BY DEF DaemonInv, StoreInv
<1>2. \A d \in Days : LinesOf(d) \subseteq OnDisk \cup glued
  <2> SUFFICES ASSUME NEW d \in Days, NEW x \in LinesOf(d), x \notin glued PROVE x \in OnDisk
    OBVIOUS
  <2>1. FileOK(disk[d])
    BY <1>1 DEF StoreType
  <2>2. disk[d].there
    BY <2>1, FileFields DEF LinesOf
  <2>3. d \in There
    BY <2>2 DEF There, Present
  <2>4. PICK i \in 1 .. Len(disk[d].lines) : x = disk[d].lines[i]
    BY <2>1, FileFields DEF LinesOf
  <2>5. i \notin disk[d].spoilt
    BY <1>1, <2>4 DEF GluedInv
  <2>6. x \in Readable(disk[d])
    BY <2>4, <2>5 DEF Readable
  <2> QED
    BY <2>3, <2>6 DEF OnDisk
<1>3. AckedIsStored
  <2> SUFFICES ASSUME NEW x \in acked, x \notin reaped, x \notin adrift
               PROVE  x \in OnDisk \cup glued
    BY <1>1 DEF AckedIsStored, GluedInv
  <2>1. PICK d \in Days : x \in Safe(disk[d])
    BY <1>1 DEF AckedInv
  <2>2. x \in LinesOf(d)
    BY <1>1, <2>1, FileFields DEF StoreType, LinesOf
  <2> QED
    BY <1>2, <2>2
<1>4. StoredOnceInOrder
  <2>1. \A d \in There : d \in Days
    BY DEF There, Present
  <2> QED
    BY <1>1, <2>1 DEF StoredOnceInOrder, OrderInv, FileOrder, Increasing
<1>5. StoredAtShutdown
  <2> SUFFICES ASSUME owner = "done", outcome # "error", ~Overflowed, NEW e \in owed, Sound(e)
               PROVE  e \in OnDisk \cup reaped \cup glued
    BY DEF StoredAtShutdown
  <2>1. drain = "exited"
    BY <1>1 DEF UsersInv, DrainInv
  <2>2. queue.items = <<>> /\ buffer = <<>> /\ e \in Queued(queue) \cup Kept
    BY <1>1, <2>1 DEF KeptInv, DrainInv
  <2>3. Queued(queue) = {} /\ Range(buffer) = {}
    BY <2>2 DEF Queued, Range
  <2>4. e \in reaped \/ \E d \in Days : e \in LinesOf(d)
    BY <2>2, <2>3 DEF Kept
  <2> QED
    BY <1>2, <2>4
<1> QED
  BY <1>1, <1>3, <1>4, <1>5 DEF StorageTruthful

\* Storage is worth what flush() and shutdown() say of it, through failed system
\* calls and crashes at any point: what was reported stored can be read back unless its
\* line was appended to a fragment that a failure left, files hold events in order, a clean shutdown stored all it took on, and a
\* successful flush left the directory within its limits (jsonl_sink.cpp,
\* daemon.cpp drain_loop()).
THEOREM StorageIsTruthful == Spec => []StorageTruthful
<1>1. Init => DaemonInv
  BY UsersInit, StoreInit, DrainInit, KeptInit, GluedInit DEF DaemonInv
<1> QED
  BY <1>1, DaemonStep, InvTruthful, PTL DEF Spec

-----------------------------------------------------------------------------
(* The calls the daemon serves.                                            *)

SlotInv ==
    /\ at \in [Calls -> Places]
    /\ rpc \in [Calls -> Rpcs]
    /\ active = Cardinality(Admitted)
    /\ active <= Cap

\* A handler begins as one of the places that count.
LEMMA EntryWorks ==
    ASSUME NEW r \in Rpcs
    PROVE  Entry(r) \in Working
BY DEF Entry, Working

\* Calls are finite in number, and so are those whose handler runs.
LEMMA AdmittedFinite ==
    IsFiniteSet(Admitted) /\ Cardinality(Admitted) \in Nat
<1>1. Admitted \subseteq Calls
  BY DEF Admitted
<1>2. IsFiniteSet(Admitted)
  BY ServiceAssumption, <1>1, FS_Subset
<1>3. QED
  BY <1>2, FS_CardinalityType

\* A call that is let in is one more that counts.
LEMMA OneMore ==
    ASSUME SlotInv,
           NEW c \in Calls, NEW place \in Working,
           at[c] \notin Working, Goto(c, place), active < Cap, active' = active + 1,
           rpc' \in [Calls -> Rpcs]
    PROVE  SlotInv'
<1>1. at' \in [Calls -> Places]
  BY DEF SlotInv, Goto, Places
<1>2. Admitted' = Admitted \cup {c} /\ c \notin Admitted
  BY DEF SlotInv, Goto, Admitted
<1>3. Cardinality(Admitted') = Cardinality(Admitted) + 1
  BY <1>2, AdmittedFinite, FS_AddElement
<1>4. active \in Nat /\ Cap \in Nat
  BY ServiceAssumption, AdmittedFinite DEF SlotInv
<1>5. QED
  BY <1>1, <1>3, <1>4 DEF SlotInv

\* A call whose handler returns gives its slot back.
LEMMA OneLess ==
    ASSUME SlotInv, NEW c \in Calls, at[c] \in Working, Release(c)
    PROVE  SlotInv'
<1>1. at' \in [Calls -> Places] /\ rpc' \in [Calls -> Rpcs]
  BY DEF SlotInv, Release, Return, Goto, Places, Rpcs
<1>2. Admitted' = Admitted \ {c} /\ c \in Admitted
  BY DEF SlotInv, Release, Return, Goto, Admitted, Working
<1>3. Cardinality(Admitted') = Cardinality(Admitted) - 1
  BY <1>2, AdmittedFinite, FS_RemoveElement
<1>4. Cardinality(Admitted) # 0
  BY <1>2, AdmittedFinite, FS_EmptySet
<1>5. active \in Nat /\ Cap \in Nat
  BY ServiceAssumption, AdmittedFinite DEF SlotInv
<1>6. active' = active - 1
  BY <1>4, <1>5 DEF Release, SlotInv
<1>7. QED
  BY <1>1, <1>3, <1>5, <1>6 DEF SlotInv

\* A step within a handler, or outside of any, changes nothing that counts.
LEMMA AsBefore ==
    ASSUME SlotInv,
           NEW c \in Calls, NEW place \in Places,
           at[c] \in Working <=> place \in Working, Goto(c, place), active' = active,
           rpc' \in [Calls -> Rpcs]
    PROVE  SlotInv'
<1>1. at' \in [Calls -> Places]
  BY DEF SlotInv, Goto
<1>2. Admitted' = Admitted
  BY DEF SlotInv, Goto, Admitted
<1>3. QED
  BY <1>1, <1>2 DEF SlotInv

\* AdmissionController's constructor.
LEMMA SlotInit ==
    ServiceInit => SlotInv
<1> SUFFICES ASSUME ServiceInit PROVE SlotInv
  OBVIOUS
<1>1. Admitted = {}
  BY DEF ServiceInit, Admitted, Working
<1>2. Cardinality(Admitted) = 0
  BY <1>1, FS_EmptySet
<1>3. QED
  BY ServiceAssumption, <1>2 DEF ServiceInit, SlotInv, Places, Rpcs

\* A new call.
LEMMA SlotDispatch ==
    ASSUME SlotInv, NEW c \in Calls, NEW r \in Requests[c], Dispatch(c, r)
    PROVE  SlotInv'
<1>1. r \in Rpcs
  BY ServiceAssumption DEF ServiceAssumption
<1>2. rpc' \in [Calls -> Rpcs] /\ at[c] \notin Working /\ active' = active
  BY <1>1 DEF Dispatch, SlotInv, Working, admission
<1>3. QED
  BY <1>2, AsBefore DEF Dispatch, Places, Working

\* acquire() under the lock: a slot, a ticket, or neither.
LEMMA SlotAcquire ==
    ASSUME SlotInv, NEW c \in Calls, Acquire(c)
    PROVE  SlotInv'
<1>1. rpc' \in [Calls -> Rpcs] /\ rpc[c] \in Rpcs /\ at[c] \notin Working
  BY DEF Acquire, Return, SlotInv, Rpcs, Working
<1>2. CASE active < Cap /\ active' = active + 1 /\ Goto(c, Entry(rpc[c]))
  BY <1>1, <1>2, EntryWorks, OneMore
<1>3. CASE (Goto(c, "waiting") \/ Goto(c, "idle")) /\ active' = active
  BY <1>1, <1>3, AsBefore DEF Places, Working
<1>4. QED
  BY <1>2, <1>3 DEF Acquire, Return, admission

\* The end of the wait in acquire(): the call is admitted, or gives up.
LEMMA SlotWait ==
    ASSUME SlotInv, NEW c \in Calls, GiveUp(c) \/ Admit(c)
    PROVE  SlotInv'
<1>1. CASE GiveUp(c)
  <2>1. rpc' \in [Calls -> Rpcs]
    BY <1>1 DEF GiveUp, Return, SlotInv, Rpcs
  <2>2. QED
    BY <1>1, <2>1, AsBefore DEF GiveUp, Return, Places, Working
<1>2. CASE Admit(c)
  <2>1. rpc' \in [Calls -> Rpcs] /\ rpc[c] \in Rpcs
    BY <1>2 DEF Admit, SlotInv
  <2>2. QED
    BY <1>2, <2>1, EntryWorks, OneMore DEF Admit, Working
<1>3. QED
  BY <1>1, <1>2

\* The handlers.
LEMMA SlotHandler ==
    ASSUME SlotInv, NEW c \in Calls, Handler(c)
    PROVE  SlotInv'
<1>1. CASE PushEvent(c)
  BY <1>1, OneLess DEF PushEvent, Working
<1>2. CASE SubscribeStream(c)
  <2>1. CASE Release(c)
    BY <1>2, <2>1, OneLess DEF SubscribeStream, Working
  <2>2. CASE Goto(c, "stream") /\ UNCHANGED Handled
    <3>1. rpc' \in [Calls -> Rpcs] /\ active' = active
      BY <2>2 DEF Handled, admission, SlotInv
    <3>2. QED
      BY <1>2, <2>2, <3>1, AsBefore DEF SubscribeStream, Working, Places
  <2>3. QED
    BY <1>2, <2>1, <2>2 DEF SubscribeStream
<1>3. CASE WriteAvailableEvents(c)
  <2>1. rpc' \in [Calls -> Rpcs] /\ active' = active
    BY <1>3 DEF WriteAvailableEvents, Handled, admission, SlotInv
  <2>2. QED
    BY <1>3, <2>1, AsBefore DEF WriteAvailableEvents, Working, Places
<1>4. CASE EndStream(c)
  BY <1>4, OneLess DEF EndStream, Working
<1>5. CASE WaitForDataOrPollInterval(c)
  <2>1. rpc' \in [Calls -> Rpcs] /\ active' = active
    BY <1>5 DEF WaitForDataOrPollInterval, Handled, admission, SlotInv
  <2>2. QED
    BY <1>5, <2>1, AsBefore DEF WaitForDataOrPollInterval, Working, Places
<1>6. CASE Query(c)
  BY <1>6, OneLess DEF Query, Working
<1>7. QED
  BY <1>1, <1>2, <1>3, <1>4, <1>5, <1>6 DEF Handler

\* Clients, clocks, health and the server leave the slots alone.
LEMMA SlotOthers ==
    ASSUME SlotInv, UNCHANGED <<at, rpc, active>>
    PROVE  SlotInv'
<1>1. Admitted' = Admitted
  BY DEF Admitted
<1>2. QED
  BY <1>1 DEF SlotInv

\* SlotInv is inductive.
LEMMA SlotNext ==
    SlotInv /\ [ServiceNext]_serviceVars => SlotInv'
<1> SUFFICES ASSUME SlotInv, [ServiceNext]_serviceVars PROVE SlotInv'
  OBVIOUS
<1>1. CASE \E c \in Calls : \E r \in Requests[c] : Dispatch(c, r)
  BY <1>1, SlotDispatch
<1>2. CASE \E c \in Calls : Acquire(c) \/ GiveUp(c) \/ Admit(c)
  BY <1>2, SlotAcquire, SlotWait
<1>3. CASE \E c \in Calls : Handler(c)
  BY <1>3, SlotHandler
<1>4. CASE \E c \in Calls : Cancel(c) \/ Tick(c)
  <2>1. UNCHANGED <<at, rpc, active>>
    BY <1>4 DEF Cancel, Tick, admission
  <2>2. QED
    BY <2>1, SlotOthers
<1>5. CASE ChangeHealth \/ ServerShutdown \/ ServerDown
  <2>1. UNCHANGED <<at, rpc, active>>
    BY <1>5 DEF ChangeHealth, ServerShutdown, ServerDown, admission
  <2>2. QED
    BY <2>1, SlotOthers
<1>6. CASE UNCHANGED serviceVars
  <2>1. UNCHANGED <<at, rpc, active>>
    BY <1>6 DEF serviceVars, admission
  <2>2. QED
    BY <2>1, SlotOthers
<1>7. QED
  BY <1>1, <1>2, <1>3, <1>4, <1>5, <1>6 DEF ServiceNext, Serve

\* For any number of calls and any cap: active_ counts exactly the calls whose
\* handler runs, and never more than concurrency_cap (AdmissionController::run).
THEOREM SlotsNeverLeak ==
    ServiceSpec => []SlotsExact
<1>1. SlotInv => SlotsExact
  BY DEF SlotInv, SlotsExact
<1>2. QED
  BY <1>1, SlotInit, SlotNext, PTL DEF ServiceSpec

-----------------------------------------------------------------------------
(* The tickets of the queue.  TicketInv is inductive: those in the queue   *)
(* are those of the waiting calls, one each, handed out in the order in    *)
(* which they stand there.                                                 *)

TicketInv ==
    /\ tickets \in Seq(Nat)
    /\ next \in Nat
    /\ ticket \in [Calls -> Nat]
    /\ \A c \in Waiting : \E i \in 1 .. Len(tickets) : tickets[i] = ticket[c]
    /\ \A i \in 1 .. Len(tickets) : \E c \in Waiting : tickets[i] = ticket[c]
    /\ \A i \in 1 .. Len(tickets) : tickets[i] < next
    /\ \A i, j \in 1 .. Len(tickets) : i < j => tickets[i] < tickets[j]
    /\ \A c, d \in Waiting : ticket[c] = ticket[d] => c = d
    /\ Len(tickets) = Cardinality(Waiting)
    /\ Len(tickets) <= QueueCapacity

\* The waiting calls are finite in number.
LEMMA WaitingFinite ==
    IsFiniteSet(Waiting) /\ Cardinality(Waiting) \in Nat
<1>1. Waiting \subseteq Calls
  BY DEF Waiting
<1>2. IsFiniteSet(Waiting)
  BY ServiceAssumption, <1>1, FS_Subset
<1>3. QED
  BY <1>2, FS_CardinalityType

\* What erasing the i-th ticket leaves.
LEMMA WithoutElements ==
    ASSUME NEW s \in Seq(Nat), NEW i \in 1 .. Len(s)
    PROVE  /\ Without(s, i) \in Seq(Nat)
           /\ Len(Without(s, i)) = Len(s) - 1
           /\ \A j \in 1 .. Len(s) - 1 : Without(s, i)[j] = IF j < i THEN s[j] ELSE s[j + 1]
<1>1. Len(s) \in Nat /\ Len(s) - 1 \in Nat
  OBVIOUS
<1>2. ASSUME NEW j \in 1 .. Len(s) - 1
      PROVE  (IF j < i THEN s[j] ELSE s[j + 1]) \in Nat
  <2>1. j \in 1 .. Len(s) /\ j + 1 \in 1 .. Len(s)
    BY <1>1
  <2>2. s[j] \in Nat /\ s[j + 1] \in Nat
    BY <2>1, ElementOfSeq
  <2> QED
    BY <2>2
<1>3. QED
  BY <1>1, <1>2 DEF Without

\* The head leaves as pop_front() lets it.
LEMMA TailIsWithout ==
    ASSUME NEW s \in Seq(Nat), s # <<>>
    PROVE  Tail(s) = Without(s, 1)
<1>1. Len(s) \in Nat /\ Len(s) >= 1
  OBVIOUS
<1>2. \A j \in 1 .. Len(s) - 1 : Without(s, 1)[j] = s[j + 1]
  BY <1>1 DEF Without
<1>3. Tail(s) \in Seq(Nat) /\ Len(Tail(s)) = Len(s) - 1
  BY HeadTailProperties
<1>4. \A j \in 1 .. Len(s) - 1 : Tail(s)[j] = s[j + 1]
  BY HeadTailProperties
<1>5. Without(s, 1) \in Seq(Nat) /\ Len(Without(s, 1)) = Len(s) - 1
  BY <1>1, WithoutElements
<1>6. QED
  BY <1>2, <1>3, <1>4, <1>5, SeqEqual

\* A call that finds no slot joins the end of the queue.
LEMMA Joins ==
    ASSUME TicketInv, at \in [Calls -> Places], NEW c \in Calls,
           at[c] # "waiting", Goto(c, "waiting"),
           Len(tickets) < QueueCapacity,
           next' = next + 1, ticket' = [ticket EXCEPT ![c] = next],
           tickets' = Append(tickets, next)
    PROVE  TicketInv'
<1>0. PICK n \in Nat : n = next
  BY DEF TicketInv
<1>1. Waiting' = Waiting \cup {c} /\ c \notin Waiting /\ Waiting \subseteq Calls
  BY DEF Goto, Waiting
<1>2. /\ tickets' \in Seq(Nat) /\ Len(tickets') = Len(tickets) + 1 /\ Len(tickets) \in Nat
      /\ tickets'[Len(tickets) + 1] = n
      /\ \A i \in 1 .. Len(tickets) : tickets'[i] = tickets[i]
  BY <1>0, AppendProperties DEF TicketInv
<1>3. /\ \A i \in 1 .. Len(tickets) : tickets[i] \in Nat /\ tickets[i] < n
      /\ \A i, j \in 1 .. Len(tickets) : i < j => tickets[i] < tickets[j]
  BY <1>0 DEF TicketInv
<1>4. /\ ticket' \in [Calls -> Nat] /\ ticket'[c] = n
      /\ \A d \in Waiting : ticket'[d] = ticket[d]
  BY <1>0, <1>1 DEF TicketInv
<1>5. \A d \in Waiting : ticket[d] \in Nat /\ ticket[d] < n
  BY <1>3 DEF TicketInv
<1>6. \A i \in 1 .. Len(tickets') : i \in 1 .. Len(tickets) \/ i = Len(tickets) + 1
  BY <1>2
<1>7. \A i \in 1 .. Len(tickets) : i \in 1 .. Len(tickets') /\ i < Len(tickets) + 1
  BY <1>2
<1>8. Len(tickets) + 1 \in 1 .. Len(tickets')
  BY <1>2
<1>9. \A d \in Waiting' : \E i \in 1 .. Len(tickets') : tickets'[i] = ticket'[d]
  <2>1. SUFFICES ASSUME NEW d \in Waiting'
                 PROVE  \E i \in 1 .. Len(tickets') : tickets'[i] = ticket'[d]
    OBVIOUS
  <2>2. CASE d = c
    BY <1>2, <1>4, <1>8, <2>2
  <2>3. CASE d \in Waiting
    <3>1. PICK i \in 1 .. Len(tickets) : tickets[i] = ticket[d]
      BY <2>3 DEF TicketInv
    <3>2. i \in 1 .. Len(tickets') /\ tickets'[i] = ticket'[d]
      BY <1>2, <1>4, <1>7, <2>3, <3>1
    <3>3. QED
      BY <3>2
  <2>4. QED
    BY <1>1, <2>1, <2>2, <2>3
<1>10. \A i \in 1 .. Len(tickets') : \E d \in Waiting' : tickets'[i] = ticket'[d]
  <2>1. SUFFICES ASSUME NEW i \in 1 .. Len(tickets')
                 PROVE  \E d \in Waiting' : tickets'[i] = ticket'[d]
    OBVIOUS
  <2>2. CASE i = Len(tickets) + 1
    BY <1>1, <1>2, <1>4, <2>2
  <2>3. CASE i \in 1 .. Len(tickets)
    <3>1. PICK d \in Waiting : tickets[i] = ticket[d]
      BY <2>3 DEF TicketInv
    <3>2. QED
      BY <1>1, <1>2, <1>4, <2>3, <3>1
  <2>4. QED
    BY <1>6, <2>2, <2>3
<1>11. \A i \in 1 .. Len(tickets') : tickets'[i] < next'
  <2>1. \A i \in 1 .. Len(tickets) : tickets[i] < n + 1
    BY <1>3
  <2>2. QED
    BY <1>0, <1>2, <1>6, <2>1
<1>12. \A i, j \in 1 .. Len(tickets') : i < j => tickets'[i] < tickets'[j]
  <2>1. SUFFICES ASSUME NEW i \in 1 .. Len(tickets'), NEW j \in 1 .. Len(tickets'), i < j
                 PROVE  tickets'[i] < tickets'[j]
    OBVIOUS
  <2>2. i \in 1 .. Len(tickets)
    BY <1>2, <2>1
  <2>3. QED
    BY <1>2, <1>3, <1>6, <2>1, <2>2
<1>13. \A d, e \in Waiting' : ticket'[d] = ticket'[e] => d = e
  <2>1. \A d, e \in Waiting : ticket[d] = ticket[e] => d = e
    BY DEF TicketInv
  <2>2. \A d \in Waiting : ticket[d] # n
    BY <1>5
  <2>3. QED
    BY <1>1, <1>4, <2>1, <2>2
<1>14. Len(tickets') = Cardinality(Waiting')
  <2>1. Cardinality(Waiting') = Cardinality(Waiting) + 1
    BY <1>1, WaitingFinite, FS_AddElement
  <2>2. QED
    BY <1>2, <2>1 DEF TicketInv
<1>15. Len(tickets') <= QueueCapacity /\ next' \in Nat
  BY ServiceAssumption, <1>0, <1>2
<1>16. QED
  BY <1>2, <1>4, <1>9, <1>10, <1>11, <1>12, <1>13, <1>14, <1>15 DEF TicketInv

\* A call that stops waiting, admitted or not, takes its ticket along.
LEMMA Leaves ==
    ASSUME TicketInv, at \in [Calls -> Places], NEW c \in Waiting,
           NEW place, place # "waiting", Goto(c, place),
           NEW i \in 1 .. Len(tickets), tickets[i] = ticket[c],
           tickets' = Without(tickets, i), ticket' = [ticket EXCEPT ![c] = 0],
           next' = next
    PROVE  TicketInv'
<1>1. Waiting' = Waiting \ {c} /\ c \in Calls /\ Waiting \subseteq Calls
  BY DEF Goto, Waiting
<1>2. /\ tickets' \in Seq(Nat) /\ Len(tickets') = Len(tickets) - 1 /\ Len(tickets) \in Nat
      /\ \A j \in 1 .. Len(tickets') : tickets'[j] = IF j < i THEN tickets[j] ELSE tickets[j + 1]
  <2>1. tickets \in Seq(Nat) /\ Len(tickets) \in Nat
    BY DEF TicketInv
  <2>2. QED
    BY <2>1, WithoutElements
<1>3. ticket' \in [Calls -> Nat] /\ \A d \in Waiting' : ticket'[d] = ticket[d]
  BY <1>1 DEF TicketInv
<1>4. \A j \in 1 .. Len(tickets') :
         /\ j < i => j \in 1 .. Len(tickets) /\ tickets'[j] = tickets[j]
         /\ ~(j < i) => j + 1 \in 1 .. Len(tickets) /\ i < j + 1 /\ tickets'[j] = tickets[j + 1]
  BY <1>2
<1>5. \A d \in Waiting' : \E j \in 1 .. Len(tickets') : tickets'[j] = ticket'[d]
  <2>1. SUFFICES ASSUME NEW d \in Waiting'
                 PROVE  \E j \in 1 .. Len(tickets') : tickets'[j] = ticket'[d]
    OBVIOUS
  <2>2. PICK j \in 1 .. Len(tickets) : tickets[j] = ticket[d]
    BY <1>1 DEF TicketInv
  <2>3. j # i
    BY <1>1, <2>2 DEF TicketInv
  <2>4. CASE j < i
    <3>1. j \in 1 .. Len(tickets')
      BY <1>2, <2>4
    <3>2. QED
      BY <1>3, <1>4, <2>2, <2>4, <3>1
  <2>5. CASE i < j
    <3>1. j - 1 \in 1 .. Len(tickets') /\ ~(j - 1 < i) /\ (j - 1) + 1 = j
      BY <1>2, <2>5
    <3>2. tickets'[j - 1] = tickets[j]
      BY <1>4, <3>1
    <3>3. QED
      BY <1>3, <2>2, <3>1, <3>2
  <2>6. QED
    BY <2>3, <2>4, <2>5
<1>6. \A j \in 1 .. Len(tickets') : \E k \in 1 .. Len(tickets) : k # i /\ tickets'[j] = tickets[k]
  <2>1. SUFFICES ASSUME NEW j \in 1 .. Len(tickets')
                 PROVE  \E k \in 1 .. Len(tickets) : k # i /\ tickets'[j] = tickets[k]
    OBVIOUS
  <2>2. CASE j < i
    BY <1>4, <2>2
  <2>3. CASE ~(j < i)
    <3>1. j + 1 \in 1 .. Len(tickets) /\ j + 1 # i /\ tickets'[j] = tickets[j + 1]
      BY <1>4, <2>3
    <3>2. QED
      BY <3>1
  <2>4. QED
    BY <2>2, <2>3
<1>7. \A j, k \in 1 .. Len(tickets) : j < k => tickets[j] < tickets[k] /\ tickets[j] # tickets[k]
  <2>1. \A j \in 1 .. Len(tickets) : tickets[j] \in Nat
    <3>1. tickets \in Seq(Nat)
      BY DEF TicketInv
    <3>2. QED
      BY <3>1
  <2>2. \A j, k \in 1 .. Len(tickets) : j < k => tickets[j] < tickets[k]
    BY DEF TicketInv
  <2>3. QED
    BY <2>1, <2>2
<1>8. \A k \in 1 .. Len(tickets) : k # i => tickets[k] # tickets[i]
  <2>1. \A k \in 1 .. Len(tickets) : k # i => k < i \/ i < k
    OBVIOUS
  <2>2. QED
    BY <1>7, <2>1
<1>9. \A j \in 1 .. Len(tickets') : \E d \in Waiting' : tickets'[j] = ticket'[d]
  <2>1. SUFFICES ASSUME NEW j \in 1 .. Len(tickets')
                 PROVE  \E d \in Waiting' : tickets'[j] = ticket'[d]
    OBVIOUS
  <2>2. PICK k \in 1 .. Len(tickets) : k # i /\ tickets'[j] = tickets[k]
    BY <1>6
  <2>3. PICK d \in Waiting : tickets[k] = ticket[d]
    BY DEF TicketInv
  <2>4. d # c
    BY <1>8, <2>2, <2>3
  <2>5. QED
    BY <1>1, <1>3, <2>2, <2>3, <2>4
<1>10. \A j \in 1 .. Len(tickets') : tickets'[j] < next'
  <2>1. \A k \in 1 .. Len(tickets) : tickets[k] < next
    BY DEF TicketInv
  <2>2. QED
    BY <1>6, <2>1
<1>11. \A j, k \in 1 .. Len(tickets') : j < k => tickets'[j] < tickets'[k]
  <2>1. SUFFICES ASSUME NEW j \in 1 .. Len(tickets'), NEW k \in 1 .. Len(tickets'), j < k
                 PROVE  tickets'[j] < tickets'[k]
    OBVIOUS
  <2>2. CASE k < i
    <3>1. j < i
      BY <1>2, <2>1, <2>2
    <3>2. QED
      BY <1>4, <1>7, <2>1, <2>2, <3>1
  <2>3. CASE ~(k < i) /\ j < i
    <3>1. j < k + 1
      BY <1>2, <2>1
    <3>2. QED
      BY <1>4, <1>7, <2>3, <3>1
  <2>4. CASE ~(j < i)
    <3>1. j + 1 < k + 1 /\ ~(k < i)
      BY <1>2, <2>1, <2>4
    <3>2. QED
      BY <1>4, <1>7, <2>4, <3>1
  <2>5. QED
    BY <2>2, <2>3, <2>4
<1>12. \A d, e \in Waiting' : ticket'[d] = ticket'[e] => d = e
  BY <1>1, <1>3 DEF TicketInv
<1>13. Len(tickets') = Cardinality(Waiting')
  <2>1. Cardinality(Waiting') = Cardinality(Waiting) - 1
    BY <1>1, WaitingFinite, FS_RemoveElement
  <2>2. QED
    BY <1>2, <2>1 DEF TicketInv
<1>14. Len(tickets') <= QueueCapacity /\ next' \in Nat
  BY ServiceAssumption, <1>2 DEF TicketInv
<1>15. QED
  BY <1>2, <1>3, <1>5, <1>9, <1>10, <1>11, <1>12, <1>13, <1>14 DEF TicketInv

\* Everything else leaves the queue and those who wait in it alone.
LEMMA TicketsKept ==
    ASSUME TicketInv, Waiting' = Waiting, UNCHANGED <<tickets, next, ticket>>
    PROVE  TicketInv'
BY DEF TicketInv

\* A step of a call that neither begins nor ends its wait.
LEMMA NobodyMoves ==
    ASSUME at \in [Calls -> Places], NEW c \in Calls, NEW place,
           at[c] # "waiting", place # "waiting", Goto(c, place)
    PROVE  Waiting' = Waiting
BY DEF Goto, Waiting

\* The queue of a new controller is empty.
LEMMA TicketInit ==
    ServiceInit => TicketInv
<1> SUFFICES ASSUME ServiceInit PROVE TicketInv
  OBVIOUS
<1>1. Waiting = {} /\ tickets = <<>> /\ Len(tickets) = 0
  BY DEF ServiceInit, Waiting
<1>2. Cardinality(Waiting) = 0
  BY <1>1, FS_EmptySet
<1>3. QED
  BY ServiceAssumption, <1>1, <1>2 DEF ServiceInit, TicketInv

\* Where the ticket of a waiting call stands.
LEMMA TicketQueued ==
    ASSUME TicketInv, NEW c \in Waiting
    PROVE  \E i \in 1 .. Len(tickets) : tickets[i] = ticket[c]
BY DEF TicketInv

\* acquire(), from the first look at the queue to the end of the wait.
LEMMA QueueWait ==
    ASSUME TicketInv, SlotInv, NEW c \in Calls,
           GiveUp(c) \/ Admit(c) \/ Acquire(c)
    PROVE  TicketInv'
<1>1. at \in [Calls -> Places] /\ rpc[c] \in Rpcs
  BY DEF SlotInv
<1>2. CASE GiveUp(c)
  <2>1. c \in Waiting /\ Goto(c, "idle") /\ EraseTicket(c) /\ next' = next
    BY <1>2 DEF GiveUp, Return, Waiting
  <2> DEFINE i == CHOOSE k \in 1 .. Len(tickets) : tickets[k] = ticket[c]
  <2>2. i \in 1 .. Len(tickets) /\ tickets[i] = ticket[c]
    BY <2>1, TicketQueued
  <2>3. tickets' = Without(tickets, i) /\ ticket' = [ticket EXCEPT ![c] = 0]
    BY <2>1, <2>2 DEF EraseTicket
  <2> HIDE DEF i
  <2>4. QED
    BY <1>1, <2>1, <2>2, <2>3, Leaves
<1>3. CASE Admit(c)
  <2>1. /\ c \in Waiting /\ Goto(c, Entry(rpc[c])) /\ next' = next
        /\ tickets # <<>> /\ Head(tickets) = ticket[c] /\ tickets' = Tail(tickets)
        /\ ticket' = [ticket EXCEPT ![c] = 0]
    BY <1>3 DEF Admit, Waiting
  <2>2. tickets \in Seq(Nat)
    BY DEF TicketInv
  <2>3. tickets' = Without(tickets, 1) /\ 1 \in 1 .. Len(tickets) /\ tickets[1] = ticket[c]
    BY <2>1, <2>2, TailIsWithout, HeadTailProperties
  <2>4. Entry(rpc[c]) # "waiting"
    BY <1>1 DEF Entry
  <2>5. QED
    BY <1>1, <2>1, <2>3, <2>4, Leaves
<1>4. CASE Acquire(c)
  <2>1. at[c] # "waiting"
    BY <1>4 DEF Acquire
  <2>2. CASE (Goto(c, Entry(rpc[c])) \/ Goto(c, "idle")) /\ UNCHANGED <<ticket, tickets, next>>
    <3>1. Entry(rpc[c]) # "waiting"
      BY <1>1 DEF Entry
    <3>2. Waiting' = Waiting
      BY <1>1, <2>1, <2>2, <3>1, NobodyMoves
    <3>3. QED
      BY <2>2, <3>2, TicketsKept
  <2>3. CASE /\ Len(tickets) < QueueCapacity /\ next' = next + 1
             /\ ticket' = [ticket EXCEPT ![c] = next] /\ tickets' = Append(tickets, next)
             /\ Goto(c, "waiting")
    BY <1>1, <2>1, <2>3, Joins
  <2>4. QED
    BY <1>4, <2>2, <2>3 DEF Acquire, Return, admission
<1>5. QED
  BY <1>2, <1>3, <1>4

\* A new call has not looked at the queue yet.
LEMMA QueueDispatch ==
    ASSUME TicketInv, SlotInv, NEW c \in Calls, NEW r, Dispatch(c, r)
    PROVE  TicketInv'
<1>1. /\ at \in [Calls -> Places] /\ at[c] # "waiting" /\ Goto(c, "acquire")
      /\ UNCHANGED <<ticket, tickets, next>>
  BY DEF SlotInv, Dispatch, admission
<1>2. QED
  BY <1>1, NobodyMoves, TicketsKept

\* No handler touches the queue, or starts to wait in it.
LEMMA QueueHandler ==
    ASSUME TicketInv, SlotInv, NEW c \in Calls, Handler(c)
    PROVE  /\ TicketInv'
           /\ at[c] \in Working /\ \E place \in Places : Goto(c, place)
<1>1. /\ at[c] \in Working /\ UNCHANGED <<ticket, tickets, next>>
      /\ \E place \in Places \ {"waiting"} : Goto(c, place)
  BY DEF Handler, PushEvent, SubscribeStream, WriteAvailableEvents, EndStream,
         WaitForDataOrPollInterval, Query, Release, Return, Handled, admission,
         Working, Places
<1>2. at \in [Calls -> Places] /\ at[c] # "waiting"
  BY <1>1 DEF SlotInv, Working
<1>3. Waiting' = Waiting
  BY <1>1, <1>2, NobodyMoves
<1>4. QED
  BY <1>1, <1>3, TicketsKept

\* TicketInv is inductive.
LEMMA TicketNext ==
    TicketInv /\ SlotInv /\ [ServiceNext]_serviceVars => TicketInv'
<1> SUFFICES ASSUME TicketInv, SlotInv, [ServiceNext]_serviceVars PROVE TicketInv'
  OBVIOUS
<1>1. CASE UNCHANGED <<at, ticket, tickets, next>>
  <2>1. Waiting' = Waiting
    BY <1>1 DEF Waiting
  <2>2. QED
    BY <1>1, <2>1, TicketsKept
<1>2. CASE \E c \in Calls : Cancel(c) \/ Tick(c)
  BY <1>1, <1>2 DEF Cancel, Tick, admission
<1>3. CASE ChangeHealth \/ ServerShutdown \/ ServerDown
  BY <1>1, <1>3 DEF ChangeHealth, ServerShutdown, ServerDown, admission
<1>4. CASE UNCHANGED serviceVars
  BY <1>1, <1>4 DEF serviceVars, admission
<1>5. CASE \E c \in Calls : Serve(c) \/ \E r \in Requests[c] : Dispatch(c, r)
  BY <1>5, QueueWait, QueueDispatch, QueueHandler DEF Serve
<1>6. QED
  BY <1>2, <1>3, <1>4, <1>5 DEF ServiceNext

\* One call's step admits no other.
LEMMA OnlyOneMoves ==
    ASSUME at \in [Calls -> Places], NEW e \in Calls, NEW place, Goto(e, place),
           NEW c \in Calls, c \notin Admitted, c \in Admitted'
    PROVE  c = e
BY DEF Goto, Admitted

\* A step that admits a call serves the queue in its order.
LEMMA InTurn ==
    ASSUME TicketInv, SlotInv, [ServiceNext]_serviceVars, NEW c \in Calls, c \notin Admitted, c \in Admitted',
           NEW d \in Waiting, d # c
    PROVE  c \in Waiting /\ ticket[c] < ticket[d]
<1>1. at \in [Calls -> Places] /\ at[c] \notin Working /\ at'[c] \in Working /\ at' # at
  BY DEF SlotInv, Admitted
<1>2. ASSUME NEW e \in Calls, Admit(e) PROVE c \in Waiting /\ ticket[c] < ticket[d]
  <2>1. e = c
    BY <1>1, <1>2, OnlyOneMoves DEF Admit
  <2>2. /\ c \in Waiting /\ tickets # <<>> /\ Head(tickets) = ticket[c]
    BY <1>2, <2>1 DEF Admit, Waiting
  <2>3. tickets \in Seq(Nat) /\ tickets[1] = ticket[c] /\ 1 \in 1 .. Len(tickets)
    BY <2>2, HeadTailProperties DEF TicketInv
  <2>4. PICK i \in 1 .. Len(tickets) : tickets[i] = ticket[d]
    BY TicketQueued
  <2>5. i # 1
    BY <2>2, <2>3, <2>4 DEF TicketInv
  <2>6. 1 < i
    BY <2>3, <2>5
  <2>7. QED
    BY <2>2, <2>3, <2>4, <2>6 DEF TicketInv
<1>3. ASSUME NEW e \in Calls, Acquire(e) PROVE FALSE
  <2>1. CASE tickets = <<>> /\ Goto(e, Entry(rpc[e]))
    <3>1. PICK i \in 1 .. Len(tickets) : tickets[i] = ticket[d]
      BY TicketQueued
    <3>2. QED
      BY <2>1, <3>1
  <2>2. CASE Goto(e, "waiting") \/ Goto(e, "idle")
    <3>1. e = c
      BY <1>1, <2>2, OnlyOneMoves
    <3>2. QED
      BY <1>1, <2>2, <3>1 DEF Goto, Working
  <2>3. QED
    BY <1>3, <2>1, <2>2 DEF Acquire, Return
<1>4. ASSUME NEW e \in Calls, GiveUp(e) PROVE FALSE
  <2>1. Goto(e, "idle")
    BY <1>4 DEF GiveUp, Return
  <2>2. e = c
    BY <1>1, <2>1, OnlyOneMoves
  <2>3. QED
    BY <1>1, <2>1, <2>2 DEF Goto, Working
<1>5. ASSUME NEW e \in Calls, Handler(e) PROVE FALSE
  <2>1. PICK place \in Places : Goto(e, place) /\ at[e] \in Working
    BY <1>5, QueueHandler
  <2>2. e = c
    BY <1>1, <2>1, OnlyOneMoves
  <2>3. QED
    BY <1>1, <2>1, <2>2
<1>6. ASSUME at' = at PROVE FALSE
  BY <1>1, <1>6
<1>7. ASSUME NEW e \in Calls, NEW r \in Requests[e], Dispatch(e, r) PROVE FALSE
  <2>1. Goto(e, "acquire")
    BY <1>7 DEF Dispatch
  <2>2. e = c
    BY <1>1, <2>1, OnlyOneMoves
  <2>3. QED
    BY <1>1, <2>1, <2>2 DEF Goto, Working
<1>8. QED
  BY <1>2, <1>3, <1>4, <1>5, <1>6, <1>7
  DEF ServiceNext, Serve, Cancel, Tick, ChangeHealth, ServerShutdown, ServerDown, serviceVars

\* For any number of calls, any cap and any queue: the queue holds one ticket for each
\* waiting call and no other, oldest first, and a call is admitted only before all
\* those that came after it (AdmissionController::acquire, service.cpp:479-556).
THEOREM QueueServedInTurn ==
    ServiceSpec => QueueFair
<1>1. TicketInv => QueueExact
  <2> SUFFICES ASSUME TicketInv PROVE QueueExact
    OBVIOUS
  <2>1. {tickets[i] : i \in 1 .. Len(tickets)} = {ticket[c] : c \in Waiting}
    BY DEF TicketInv
  <2>2. QED
    BY <2>1 DEF TicketInv, QueueExact
<1>2. TicketInv /\ SlotInv /\ [ServiceNext]_serviceVars =>
         [\A c \in Calls : c \notin Admitted /\ c \in Admitted' =>
             \A d \in Waiting \ {c} : c \in Waiting /\ ticket[c] < ticket[d]]_serviceVars
  BY InTurn
<1>3. ServiceSpec => [](TicketInv /\ SlotInv)
  BY TicketInit, TicketNext, SlotInit, SlotNext, PTL DEF ServiceSpec
<1>4. QED
  BY <1>1, <1>2, <1>3, PTL DEF ServiceSpec, QueueFair, NoOvertaking
=============================================================================
