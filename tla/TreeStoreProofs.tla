--------------------------- MODULE TreeStoreProofs ---------------------------
(***************************************************************************)
(* The store of trees, for any catalogue of trees, any number of versions, *)
(* resyncs and queued updates.                                             *)
(*                                                                         *)
(* One thread publishes: PublisherInv follows the flag from the apply()    *)
(* that raised it to the drain that lowers it.                             *)
(*                                                                         *)
(* The store never mixes two states of its source.  The source's states    *)
(* are told apart by their stamps (Before, OneStamp), so that a delta is   *)
(* applied to the very tree it was computed from and gives the next one    *)
(* (DeltaGivesNext).  What validate_and_find_roots() accepts is a forest:  *)
(* a node that Kahn's visit reaches is reached in some round               *)
(* (RoundsExist), and the first round of a set of nodes has no parent in   *)
(* that set (VisitedForest).  Line is the tree that readers see, then what *)
(* is staged behind it: within a scope each entry has a later revision     *)
(* than the one before (Forward), and a runtime that was left does not     *)
(* come back (Retires).                                                    *)
(***************************************************************************)
EXTENDS TreeStore, SequenceTheorems, FiniteSetTheorems, WellFoundedInduction, TLAPS

-----------------------------------------------------------------------------
(* Where the threads are.                                                  *)

Jobs   == {"attach", "prime", "observe", "pump", "resync"}
Places == {"idle", "next", "snapshot", "apply", "publish", "failed", "done"}

IsThread(x) ==
    /\ x = [pc |-> x.pc, job |-> x.job, held |-> x.held, drained |-> x.drained]
    /\ x.pc \in Places
    /\ x.job \in Jobs
    /\ x.pc = "next" => x.job # "prime"

StarterJobs == {"attach", "prime", "observe"}

ThreadsOk ==
    /\ thread = [t \in Threads |-> thread[t]]
    /\ thread[Starter].job \in StarterJobs
    /\ \A t \in Threads : IsThread(thread[t])

\* One thread moves; the others stay where they are.
Moved(t, x) ==
    /\ thread'[t] = x
    /\ \A o \in Threads \ {t} : thread'[o] = thread[o]

\* A thread that is given a record of its own shape leaves all of them well formed.
LEMMA ThreadMoved ==
    ASSUME ThreadsOk, NEW t \in Threads, NEW x, IsThread(x),
           t = Starter => x.job \in StarterJobs,
           thread' = [thread EXCEPT ![t] = x]
    PROVE  ThreadsOk' /\ Moved(t, x)
<1>1. \A o \in Threads : thread'[o] = IF o = t THEN x ELSE thread[o]
  BY DEF ThreadsOk
<1>2. thread' = [o \in Threads |-> thread'[o]]
  BY DEF ThreadsOk
<1>3. \A o \in Threads : IsThread(thread'[o])
  BY <1>1 DEF ThreadsOk
<1>4. thread'[Starter].job \in StarterJobs
  BY <1>1 DEF ThreadsOk, Threads
<1> QED
  BY <1>1, <1>2, <1>3, <1>4 DEF ThreadsOk, Moved, Threads

\* Once apply() has answered, a thread neither publishes nor holds an update.
LEMMA AnsweredPlace ==
    ASSUME ThreadsOk, NEW t \in Threads, NEW ok \in BOOLEAN
    PROVE  /\ IsThread(Answered(t, ok))
           /\ Answered(t, ok).pc \notin {"publish", "apply"}
           /\ t = Starter => Answered(t, ok).job \in StarterJobs
<1> DEFINE x == thread[t]
<1>1. x = [pc |-> x.pc, job |-> x.job, held |-> x.held, drained |-> x.drained]
  BY DEF ThreadsOk, IsThread
<1>2. x.pc \in Places /\ x.job \in Jobs
  BY DEF ThreadsOk, IsThread
<1> DEFINE th == [x EXCEPT !.held = None]
<1>3. th = [pc |-> x.pc, job |-> x.job, held |-> None, drained |-> x.drained]
  BY <1>1
<1>9. t = Starter => x.job \in StarterJobs
  BY DEF ThreadsOk
<1>4. CASE x.job = "attach"
  BY <1>3, <1>4, <1>9 DEF Answered, IsThread, Places, Jobs, StarterJobs
<1>5. CASE x.job = "prime"
  BY <1>3, <1>5, <1>9 DEF Answered, IsThread, Places, Jobs, StarterJobs
<1>6. CASE x.job = "observe"
  BY <1>3, <1>6, <1>9 DEF Answered, IsThread, Places, Jobs, StarterJobs
<1>7. CASE x.job = "pump"
  BY <1>3, <1>7, <1>9 DEF Answered, IsThread, Places, Jobs, StarterJobs
<1>8. CASE x.job = "resync"
  BY <1>3, <1>8, <1>9 DEF Answered, IsThread, Places, Jobs, StarterJobs
<1> QED
  BY <1>2, <1>4, <1>5, <1>6, <1>7, <1>8 DEF Jobs

\* What apply() leaves its caller doing: refused, remembered, or published.
LEMMA RefusedMoves ==
    ASSUME ThreadsOk, NEW t \in Threads, ApplyRefused(t) \/ ApplyGap(t)
    PROVE  /\ ThreadsOk' /\ Moved(t, Answered(t, FALSE))
           /\ thread[t].pc = "apply"
           /\ Answered(t, FALSE).pc \notin {"publish", "apply"}
<1>1. thread' = [thread EXCEPT ![t] = Answered(t, FALSE)] /\ thread[t].pc = "apply"
  BY DEF ApplyRefused, ApplyGap
<1> QED
  BY <1>1, AnsweredPlace, ThreadMoved

LEMMA DoneMoves ==
    ASSUME ThreadsOk, NEW t \in Threads, PublishDone(t)
    PROVE  /\ ThreadsOk' /\ Moved(t, Answered(t, TRUE))
           /\ Answered(t, TRUE).pc \notin {"publish", "apply"}
<1>1. thread' = [thread EXCEPT ![t] = Answered(t, TRUE)]
  BY DEF PublishDone
<1> QED
  BY <1>1, AnsweredPlace, ThreadMoved

LEMMA StagedMoves ==
    ASSUME ThreadsOk, NEW t \in Threads, ApplyStaged(t)
    PROVE  \E x : /\ ThreadsOk' /\ Moved(t, x)
                  /\ x.pc # "apply"
                  /\ x.pc = "publish" <=> ~ publishing
<1>1. CASE ~ publishing
  <2> DEFINE x == [thread[t] EXCEPT !.pc = "publish"]
  <2>1. thread' = [thread EXCEPT ![t] = x]
    BY <1>1 DEF ApplyStaged, should_publish
  <2>2. IsThread(x) /\ x.pc = "publish" /\ (t = Starter => x.job \in StarterJobs)
    <3>1. IsThread(thread[t]) /\ (t = Starter => thread[t].job \in StarterJobs)
      BY DEF ThreadsOk
    <3> QED
      BY <3>1 DEF IsThread, Places
  <2> HIDE DEF x
  <2>3. ThreadsOk' /\ Moved(t, x)
    BY <2>1, <2>2, ThreadMoved
  <2> QED
    BY <2>2, <2>3, <1>1
<1>2. CASE publishing
  <2> DEFINE x == Answered(t, TRUE)
  <2>1. thread' = [thread EXCEPT ![t] = x]
    BY <1>2 DEF ApplyStaged, should_publish
  <2>2. IsThread(x) /\ x.pc \notin {"publish", "apply"} /\ (t = Starter => x.job \in StarterJobs)
    BY AnsweredPlace
  <2> HIDE DEF x
  <2>3. ThreadsOk' /\ Moved(t, x)
    BY <2>1, <2>2, ThreadMoved
  <2> QED
    BY <2>2, <2>3, <1>2
<1> QED
  BY <1>1, <1>2

\* The steps that take an update or a snapshot, and those of the starter.
LEMMA TakenMoves ==
    ASSUME ThreadsOk, NEW t \in Threads, NEW u,
           thread' = [thread EXCEPT ![t].held = u, ![t].pc = "apply"]
    PROVE  \E x : /\ ThreadsOk' /\ Moved(t, x)
                  /\ x.pc = "apply" /\ x.held = u
<1> DEFINE x == [pc |-> "apply", job |-> thread[t].job, held |-> u,
                 drained |-> thread[t].drained]
<1>1. thread[t] = [pc |-> thread[t].pc, job |-> thread[t].job, held |-> thread[t].held,
                   drained |-> thread[t].drained]
  BY DEF ThreadsOk, IsThread
<1>2. thread = [o \in Threads |-> thread[o]]
  BY DEF ThreadsOk
<1> DEFINE y == [thread[t] EXCEPT !.held = u]
<1>7. y = [pc |-> thread[t].pc, job |-> thread[t].job, held |-> u,
           drained |-> thread[t].drained]
  BY <1>1
<1> HIDE DEF y
<1>8. [y EXCEPT !.pc = "apply"] = x
  BY <1>7
<1> USE DEF y
<1>5. [[thread[t] EXCEPT !.held = u] EXCEPT !.pc = "apply"] = x
  BY <1>8
<1>6. thread' = [thread EXCEPT ![t] = [[thread[t] EXCEPT !.held = u] EXCEPT !.pc = "apply"]]
  BY <1>2
<1>3. thread' = [thread EXCEPT ![t] = x]
  BY <1>5, <1>6
<1>4. IsThread(x) /\ x.pc = "apply" /\ x.held = u /\ (t = Starter => x.job \in StarterJobs)
  BY DEF ThreadsOk, IsThread, Places
<1> HIDE DEF x
<1> QED
  BY <1>3, <1>4, ThreadMoved

LEMMA StarterMoves ==
    ASSUME ThreadsOk, NothingQueued
    PROVE  \E x : /\ ThreadsOk' /\ Moved(Starter, x)
                  /\ x.pc \notin {"publish", "apply"}
<1> DEFINE y == thread[Starter]
           x == CASE y.job = "attach" /\ ~ y.drained ->
                       [y EXCEPT !.job = "prime", !.pc = "snapshot"]
                  [] y.job = "attach" /\ y.drained -> [y EXCEPT !.job = "observe"]
                  [] y.job = "observe" -> [y EXCEPT !.pc = "done"]
<1>0. Starter \in Threads
  BY DEF Threads
<1>1. thread' = [thread EXCEPT ![Starter] = x]
  BY DEF NothingQueued
<1>2. IsThread(y) /\ y.pc = "next" /\ y.job \in StarterJobs
  BY <1>0 DEF ThreadsOk, NothingQueued, Draining
<1>3. y = [pc |-> y.pc, job |-> y.job, held |-> y.held, drained |-> y.drained]
  BY <1>2 DEF IsThread
<1>4. y.job \in {"attach", "observe"}
  BY <1>2 DEF IsThread, StarterJobs
<1>5. IsThread(x) /\ x.job \in StarterJobs /\ x.pc \notin {"publish", "apply"}
  <2>1. CASE y.job = "attach" /\ ~ y.drained
    BY <1>2, <1>3, <2>1 DEF IsThread, Places, Jobs, StarterJobs
  <2>2. CASE y.job = "attach" /\ y.drained
    BY <1>2, <1>3, <2>2 DEF IsThread, Places, Jobs, StarterJobs
  <2>3. CASE y.job = "observe"
    BY <1>2, <1>3, <2>3 DEF IsThread, Places, Jobs, StarterJobs
  <2> QED
    BY <1>4, <2>1, <2>2, <2>3
<1> HIDE DEF x
<1> QED
  BY <1>0, <1>1, <1>5, ThreadMoved

-----------------------------------------------------------------------------
(* One publisher.                                                          *)

PublisherInv ==
    /\ ThreadsOk
    /\ publishing \in BOOLEAN
    /\ \A t \in Threads : thread[t].pc = "publish" => publishing
    /\ publishing => \E t \in Threads : thread[t].pc = "publish"
    /\ \A t, o \in Threads :
            thread[t].pc = "publish" /\ thread[o].pc = "publish" => t = o
    /\ pending # <<>> => publishing

LEMMA PublisherInit == Init => PublisherInv
<1> SUFFICES ASSUME Init PROVE PublisherInv
  OBVIOUS
<1>1. thread = [t \in Threads |->
            [pc |-> IF t \in Resyncers THEN "idle" ELSE "next",
             job |-> IF t = Starter THEN "attach"
                     ELSE IF t = Pump THEN "pump" ELSE "resync",
             held |-> None, drained |-> FALSE]]
  BY DEF Init
<1>2. ThreadsOk
  BY <1>1 DEF ThreadsOk, IsThread, Places, Jobs, StarterJobs, Threads
<1>3. \A t \in Threads : thread[t].pc # "publish"
  BY <1>1
<1> QED
  BY <1>2, <1>3 DEF Init, PublisherInv

\* A step in which the store stays as it is and no thread begins or stops publishing.
LEMMA NobodyPublishes ==
    ASSUME PublisherInv, NEW t \in Threads, NEW x, ThreadsOk', Moved(t, x),
           thread[t].pc # "publish", x.pc # "publish", UNCHANGED <<publishing, pending>>
    PROVE  PublisherInv'
  BY DEF PublisherInv, Moved

LEMMA PublisherNext == PublisherInv /\ [Next]_vars => PublisherInv'
<1> SUFFICES ASSUME PublisherInv, [Next]_vars PROVE PublisherInv'
  OBVIOUS
<1>1. ThreadsOk
  BY DEF PublisherInv
<1>2. CASE UNCHANGED <<thread, publishing, pending>>
  BY <1>2 DEF PublisherInv, ThreadsOk
<1>3. CASE SourceChange
  BY <1>2, <1>3 DEF SourceChange, store
<1>4. CASE NothingQueued
  <2>1. Starter \in Threads /\ thread[Starter].pc = "next"
    BY <1>4 DEF Threads, NothingQueued, Draining
  <2>2. UNCHANGED <<publishing, pending>>
    BY <1>4 DEF NothingQueued, store
  <2> QED
    BY <1>1, <1>4, <2>1, <2>2, StarterMoves, NobodyPublishes
<1>5. ASSUME NEW t \in Threads, TakeSnapshot(t), thread[t].pc # "publish"
      PROVE  PublisherInv'
  <2> DEFINE u == Update("snapshot", Len(versions), 0, TRUE)
  <2>1. thread' = [thread EXCEPT ![t].held = u, ![t].pc = "apply"]
    BY <1>5 DEF TakeSnapshot
  <2>2. UNCHANGED <<publishing, pending>>
    BY <1>5 DEF TakeSnapshot, store
  <2> HIDE DEF u
  <2> QED
    BY <1>1, <1>5, <2>1, <2>2, TakenMoves, NobodyPublishes
<1>6. CASE Prime
  BY <1>5, <1>6 DEF Prime, Threads
<1>7. ASSUME NEW t \in Resyncers, resync(t) PROVE PublisherInv'
  BY <1>5, <1>7 DEF resync, Threads
<1>8. ASSUME NEW t \in Threads, NextUpdate(t) PROVE PublisherInv'
  <2>1. thread' = [thread EXCEPT ![t].held = Head(queue), ![t].pc = "apply"]
    BY <1>8 DEF NextUpdate
  <2>2. UNCHANGED <<publishing, pending>> /\ thread[t].pc # "publish"
    BY <1>8 DEF NextUpdate, Draining, store
  <2> QED
    BY <1>1, <1>8, <2>1, <2>2, TakenMoves, NobodyPublishes
<1>9. ASSUME NEW t \in Threads, ApplyRefused(t) \/ ApplyGap(t) PROVE PublisherInv'
  <2>1. UNCHANGED <<publishing, pending>>
    BY <1>9 DEF ApplyRefused, ApplyGap, store
  <2> QED
    BY <1>1, <1>9, <2>1, RefusedMoves, NobodyPublishes
<1>10. ASSUME NEW t \in Threads, ApplyStaged(t) PROVE PublisherInv'
  <2>1. PICK x : /\ ThreadsOk' /\ Moved(t, x)
                 /\ x.pc = "publish" <=> ~ publishing
    BY <1>1, <1>10, StagedMoves
  <2>2. publishing' = TRUE /\ thread[t].pc = "apply"
    BY <1>10 DEF ApplyStaged
  <2> QED
    BY <2>1, <2>2 DEF PublisherInv, Moved
<1>11. ASSUME NEW t \in Threads, PublishNext(t) PROVE PublisherInv'
  BY <1>11 DEF PublishNext, PublisherInv, ThreadsOk
<1>12. ASSUME NEW t \in Threads, PublishDone(t) PROVE PublisherInv'
  <2>1. ThreadsOk' /\ Moved(t, Answered(t, TRUE)) /\ Answered(t, TRUE).pc # "publish"
    BY <1>1, <1>12, DoneMoves
  <2>2. publishing' = FALSE /\ thread[t].pc = "publish" /\ pending' = <<>>
    BY <1>12 DEF PublishDone, publishing_when_drained
  <2> QED
    BY <2>1, <2>2 DEF PublisherInv, Moved
<1>13. ASSUME NEW t \in Threads, Deliver(t) PROVE PublisherInv'
  BY <1>2, <1>13 DEF Deliver, store
<1>14. CASE UNCHANGED vars
  BY <1>2, <1>14 DEF vars, store
<1> QED
  BY <1>3, <1>4, <1>6, <1>7, <1>8, <1>9, <1>10, <1>11, <1>12, <1>13, <1>14
  DEF Next, ThreadStep

LEMMA PublisherInvariance == Spec => []PublisherInv
  BY PublisherInit, PublisherNext, PTL DEF Spec

\* At most one thread delivers events, it has said so, and while updates wait there
\* is one (drain_publications() and apply(), for any number of threads).
THEOREM OneThreadPublishes == Spec => []OnePublisher
<1>1. PublisherInv => OnePublisher
  <2> SUFFICES ASSUME PublisherInv PROVE OnePublisher
    OBVIOUS
  <2> DEFINE P == {t \in Threads : thread[t].pc = "publish"}
  <2>1. Cardinality(P) <= 1
    <3>1. CASE P = {}
      BY <3>1, FS_EmptySet
    <3>2. CASE P # {}
      <4>1. PICK t : t \in P
        BY <3>2
      <4>2. P = {t}
        BY <4>1 DEF PublisherInv
      <4>3. Cardinality({t}) = 1
        BY FS_Singleton
      <4> QED
        BY <4>2, <4>3
    <3> QED
      BY <3>1, <3>2
  <2> QED
    BY <2>1 DEF OnePublisher, PublisherInv
<1> QED
  BY <1>1, PublisherInvariance, PTL

-----------------------------------------------------------------------------
(* Trees: Kahn's visit proves a forest, and a delta on its base gives the tree. *)

Graphs == {[nodes |-> tree.nodes, rel |-> tree.rel] : tree \in Catalogue}

Forest(g) ==
    \A S \in (SUBSET Nodes(g)) \ {{}} : \E n \in S : Parents(g, n) \cap S = {}

LEMMA GraphShape ==
    ASSUME NEW g \in Graphs
    PROVE  /\ g = [nodes |-> g.nodes, rel |-> g.rel]
           /\ g.nodes = [n \in Nodes(g) |-> g.nodes[n]]
           /\ IsFiniteSet(Nodes(g))
           /\ \A r \in g.rel : r[1] \in Nodes(g) /\ r[2] \in Nodes(g)
<1>1. PICK tree \in Catalogue : g = [nodes |-> tree.nodes, rel |-> tree.rel]
  BY DEF Graphs
<1>2. g.nodes = tree.nodes /\ g.rel = tree.rel /\ Nodes(g) = DOMAIN tree.nodes
  BY <1>1 DEF Nodes
<1>3. /\ tree.nodes = [n \in DOMAIN tree.nodes |-> tree.nodes[n]]
      /\ DOMAIN tree.nodes \subseteq 1..MaxNode
      /\ \A r \in tree.rel : {r[1], r[2]} \subseteq DOMAIN tree.nodes
  BY CatalogueAssumption
<1>4. IsFiniteSet(Nodes(g))
  <2>1. IsFiniteSet(1..MaxNode)
    BY FS_Interval, BoundsAssumption
  <2> QED
    BY <1>2, <1>3, <2>1, FS_Subset
<1> QED
  BY <1>1, <1>2, <1>3, <1>4

LEMMA LeastNumber ==
    ASSUME NEW S \in SUBSET Nat, S # {}
    PROVE  \E x \in S : \A y \in S : x <= y
<1> DEFINE Less == {ss \in Nat \X Nat : ss[1] < ss[2]}
<1>1. OpToRel(<, Nat) = Less
  BY Zenon DEF OpToRel
<1>2. IsWellFoundedOn(Less, Nat)
  BY <1>1, NatLessThanWellFounded, Zenon
<1> HIDE DEF Less
<1>3. PICK x \in S : \A y \in S : ~(<<y, x>> \in Less)
  BY <1>2, WFMin
<1>4. ASSUME NEW y \in S PROVE x <= y
  <2>1. x \in Nat /\ y \in Nat /\ ~(<<y, x>> \in Less)
    BY <1>3
  <2>2. ~(y < x)
    BY <2>1 DEF Less
  <2> QED
    BY <2>1, <2>2
<1> QED
  BY <1>4

\* The rounds of the visit, as the function that Visited() defines by recursion.
Ripe(g, done)    == {n \in Nodes(g) : Parents(g, n) \subseteq done}
Rounds(g, m, f)  == f = [k \in 0..m |-> IF k = 0 THEN {} ELSE Ripe(g, f[k - 1])]

LEMMA RoundsExist ==
    ASSUME NEW g
    PROVE  \A m \in Nat : \E f : Rounds(g, m, f)
<1> DEFINE Bad == {m \in Nat : ~ \E f : Rounds(g, m, f)}
<1> SUFFICES ASSUME Bad # {} PROVE FALSE
  OBVIOUS
<1>1. PICK m \in Bad : \A y \in Bad : m <= y
  BY LeastNumber
<1>2. m # 0
  <2> DEFINE f == [k \in 0..0 |-> {}]
  <2>1. f = [k \in 0..0 |-> IF k = 0 THEN {} ELSE Ripe(g, f[k - 1])]
    OBVIOUS
  <2>2. Rounds(g, 0, f)
    BY <2>1 DEF Rounds
  <2> QED
    BY <2>2, <1>1
<1>3. m \in Nat /\ m - 1 \in Nat /\ m - 1 \notin Bad
  BY <1>1, <1>2
<1>4. PICK h : Rounds(g, m - 1, h)
  BY <1>3
<1>5. /\ h = [k \in 0..(m - 1) |-> IF k = 0 THEN {} ELSE Ripe(g, h[k - 1])]
  BY <1>4 DEF Rounds
<1> DEFINE f == [k \in 0..m |-> IF k = m THEN Ripe(g, h[m - 1]) ELSE h[k]]
<1>6. ASSUME NEW k \in 0..m PROVE f[k] = IF k = 0 THEN {} ELSE Ripe(g, f[k - 1])
  <2>1. CASE k = m
    <3>1. f[k - 1] = h[m - 1] /\ k # 0
      BY <2>1, <1>2, <1>3
    <3> QED
      BY <3>1, <2>1
  <2>2. CASE k # m
    <3>1. k \in 0..(m - 1) /\ f[k] = h[k]
      BY <2>2, <1>3
    <3>2. k # 0 => f[k - 1] = h[k - 1]
      BY <3>1, <1>3
    <3>3. h[k] = IF k = 0 THEN {} ELSE Ripe(g, h[k - 1])
      BY <3>1, <1>5
    <3> QED
      BY <3>1, <3>2, <3>3
  <2> QED
    BY <2>1, <2>2
<1>7. f = [k \in 0..m |-> f[k]]
  OBVIOUS
<1> HIDE DEF f
<1>8. Rounds(g, m, f)
  BY <1>6, <1>7 DEF Rounds
<1> QED
  BY <1>8, <1>1

\* A tree whose visit reaches every node has no cycle of contains: some node of any
\* group of nodes has no parent in the group.
LEMMA VisitedForest ==
    ASSUME NEW g, IsFiniteSet(Nodes(g)), Visited(g) = Nodes(g)
    PROVE  Forest(g)
<1> DEFINE m == Cardinality(Nodes(g))
           f == CHOOSE h : Rounds(g, m, h)
<1>1. m \in Nat
  BY FS_CardinalityType
<1>2. Rounds(g, m, f)
  BY <1>1, RoundsExist
<1>3. Visited(g) = f[m]
  BY Zenon DEF Visited, Rounds, Ripe
<1> HIDE DEF f, m
<1>4. \A k \in 0..m : f[k] = IF k = 0 THEN {} ELSE Ripe(g, f[k - 1])
  BY <1>2 DEF Rounds
<1> SUFFICES ASSUME NEW S \in (SUBSET Nodes(g)) \ {{}}
             PROVE  \E n \in S : Parents(g, n) \cap S = {}
  BY DEF Forest
<1> DEFINE Hit == {k \in 0..m : f[k] \cap S # {}}
<1>5. m \in Hit
  BY <1>1, <1>3
<1>6. PICK k \in Hit : \A j \in Hit : k <= j
  <2>1. Hit \in SUBSET Nat
    BY <1>1
  <2> HIDE DEF Hit
  <2> QED
    BY <1>5, <2>1, LeastNumber
<1>7. k # 0
  BY <1>4, <1>6
<1>8. k \in 0..m /\ k - 1 \in 0..m /\ k - 1 \notin Hit
  BY <1>1, <1>6, <1>7
<1>9. f[k - 1] \cap S = {}
  BY <1>8
<1>10. PICK n \in S : n \in f[k]
  BY <1>6
<1>11. Parents(g, n) \subseteq f[k - 1]
  BY <1>4, <1>7, <1>8, <1>10 DEF Ripe
<1> QED
  BY <1>9, <1>11

\* A delta applied to the tree it was made from gives the next tree, node for node
\* and relation for relation (snapshot_from_delta()).
LEMMA DeltaGivesNext ==
    ASSUME NEW v, versions[v - 1].graph \in Graphs, versions[v].graph \in Graphs
    PROVE  snapshot_from_delta(versions[v - 1].graph, DeltaOf(v)) = versions[v].graph
<1> DEFINE g == versions[v - 1].graph
           h == versions[v].graph
           d == DeltaOf(v)
           res == snapshot_from_delta(g, d)
           gone == Nodes(g) \ Nodes(h)
           same == {n \in Nodes(g) \cap Nodes(h) : g.nodes[n] # h.nodes[n]}
<1>1. /\ d.added = [n \in Nodes(h) \ Nodes(g) |-> h.nodes[n]]
      /\ d.changed = [n \in same |-> h.nodes[n]]
      /\ d.removed = gone
      /\ d.rel_added = h.rel \ g.rel
      /\ d.rel_removed = {r \in g.rel \ h.rel : r[1] \notin gone /\ r[2] \notin gone}
  BY DEF DeltaOf, Restrict
<1>2. /\ h = [nodes |-> h.nodes, rel |-> h.rel]
      /\ h.nodes = [n \in Nodes(h) |-> h.nodes[n]]
      /\ \A r \in h.rel : r[1] \in Nodes(h) /\ r[2] \in Nodes(h)
  BY GraphShape
<1> DEFINE nodes == (Nodes(g) \cup DOMAIN d.added \cup DOMAIN d.changed) \ d.removed
<1>3. /\ res.nodes = [n \in nodes |-> IF n \in DOMAIN d.changed THEN d.changed[n]
                                      ELSE IF n \in DOMAIN d.added THEN d.added[n]
                                      ELSE g.nodes[n]]
      /\ res.rel = (relations_after_removal(g, d.removed) \ d.rel_removed) \cup d.rel_added
      /\ res = [nodes |-> res.nodes, rel |-> res.rel]
  BY DEF snapshot_from_delta
<1> HIDE DEF d, res
<1>4. nodes = Nodes(h)
  BY <1>1
<1>5. res.nodes = h.nodes
  <2>1. ASSUME NEW n \in Nodes(h)
        PROVE  (IF n \in DOMAIN d.changed THEN d.changed[n]
                ELSE IF n \in DOMAIN d.added THEN d.added[n] ELSE g.nodes[n]) = h.nodes[n]
    <3>1. CASE n \in same
      BY <3>1, <1>1
    <3>2. CASE n \in Nodes(h) \ Nodes(g)
      BY <3>2, <1>1
    <3>3. CASE n \in Nodes(g) /\ n \notin same
      BY <3>3, <1>1
    <3> QED
      BY <3>1, <3>2, <3>3
  <2> HIDE DEF nodes
  <2> QED
    BY <1>2, <1>3, <1>4, <2>1
<1>6. res.rel = h.rel
  BY <1>1, <1>2, <1>3 DEF relations_after_removal
<1>7. res = h
  BY <1>2, <1>3, <1>5, <1>6
<1> QED
  BY <1>7 DEF res, d

-----------------------------------------------------------------------------
(* The line of generations: what it means to move forward.                 *)

Stamps == 1..MaxVersions
Gens   == [runtime : Stamps, epoch : Stamps, revision : Stamps, graph : Graphs]

Forward(s) ==
    /\ \A i \in 1..(Len(s) - 1) :
        Scope(s[i]) = Scope(s[i + 1]) => s[i].revision < s[i + 1].revision
    /\ \A i, k \in DOMAIN s : \A j \in i..k :
        s[i].runtime = s[k].runtime => s[j].runtime = s[i].runtime

\* Every runtime of the line but the last one's is retired.
Retires(s, gone) ==
    \A i \in DOMAIN s : s[i].runtime # s[Len(s)].runtime => s[i].runtime \in gone

LEMMA NoneIsNoGeneration == None \notin Gens
  BY NoneAssumption DEF Gens, Stamps, Graphs

LEMMA ForwardAppend ==
    ASSUME NEW s \in Seq(Gens), NEW g \in Gens, NEW gone, NEW after,
           Forward(s), Retires(s, gone), g.runtime \notin gone, gone \subseteq after,
           s # <<>> =>
              /\ Scope(s[Len(s)]) = Scope(g) => s[Len(s)].revision < g.revision
              /\ s[Len(s)].runtime # g.runtime => s[Len(s)].runtime \in after
    PROVE  Forward(Append(s, g)) /\ Retires(Append(s, g), after)
<1> DEFINE z == Append(s, g)
           n == Len(s)
<1>1. /\ n \in Nat /\ Len(z) = n + 1 /\ DOMAIN z = 1..(n + 1) /\ DOMAIN s = 1..n
      /\ z[n + 1] = g
      /\ \A i \in 1..n : z[i] = s[i]
      /\ s # <<>> <=> n # 0
  BY AppendProperties, LenProperties, EmptySeq
<1> HIDE DEF z, n
<1>2. n # 0 => /\ Scope(s[n]) = Scope(g) => s[n].revision < g.revision
               /\ s[n].runtime # g.runtime => s[n].runtime \in after
  BY <1>1 DEF n
<1>3. ASSUME NEW i \in 1..n, s[i].runtime = g.runtime, NEW j \in i..n
      PROVE  s[j].runtime = g.runtime
  <2>1. s[i].runtime \notin gone /\ i \in DOMAIN s /\ n \in DOMAIN s /\ j \in i..n
    BY <1>1, <1>3
  <2>2. s[i].runtime = s[n].runtime
    BY <2>1 DEF Retires, n
  <2> QED
    BY <1>3, <2>1, <2>2 DEF Forward
<1>4. ASSUME NEW i \in 1..n, Scope(z[i]) = Scope(z[i + 1])
      PROVE  z[i].revision < z[i + 1].revision
  <2>1. CASE i = n
    BY <1>1, <1>2, <1>4, <2>1
  <2>2. CASE i # n
    <3>0. i \in 1..(n - 1) /\ i + 1 \in 1..n
      BY <1>1, <2>2
    <3>1. i \in 1..(Len(s) - 1) /\ z[i] = s[i] /\ z[i + 1] = s[i + 1]
      BY <1>1, <3>0 DEF n
    <3>2. Scope(s[i]) = Scope(s[i + 1]) => s[i].revision < s[i + 1].revision
      BY <3>1 DEF Forward
    <3> QED
      BY <1>4, <3>1, <3>2
  <2> QED
    BY <2>1, <2>2
<1>5. ASSUME NEW i \in DOMAIN z, NEW k \in DOMAIN z, NEW j \in i..k,
             z[i].runtime = z[k].runtime
      PROVE  z[j].runtime = z[i].runtime
  <2>1. CASE k # n + 1
    <3>1. i \in 1..n /\ k \in 1..n /\ j \in 1..n /\ z[i] = s[i] /\ z[k] = s[k] /\ z[j] = s[j]
      BY <1>1, <2>1
    <3>2. s[i].runtime = s[k].runtime => s[j].runtime = s[i].runtime
      BY <1>1, <3>1 DEF Forward
    <3> QED
      BY <1>5, <3>1, <3>2
  <2>2. CASE k = n + 1 /\ j = n + 1
    BY <1>1, <1>5, <2>2
  <2>3. CASE k = n + 1 /\ j # n + 1
    <3>1. i \in 1..n /\ j \in i..n /\ z[i] = s[i] /\ z[j] = s[j] /\ z[k] = g
      BY <1>1, <2>3
    <3> QED
      BY <1>3, <1>5, <3>1
  <2> QED
    BY <2>1, <2>2, <2>3
<1>6. Retires(z, after)
  <2> SUFFICES ASSUME NEW i \in DOMAIN z, z[i].runtime # g.runtime
               PROVE  z[i].runtime \in after
    BY <1>1 DEF Retires
  <2>1. i \in 1..n /\ z[i] = s[i] /\ i \in DOMAIN s /\ n # 0
    BY <1>1
  <2>2. CASE s[i].runtime = s[n].runtime
    BY <1>2, <2>1, <2>2
  <2>3. CASE s[i].runtime # s[n].runtime
    BY <2>1, <2>3 DEF Retires, n
  <2> QED
    BY <2>2, <2>3
<1>7. Forward(z)
  BY <1>1, <1>4, <1>5 DEF Forward
<1> QED
  BY <1>6, <1>7 DEF z

LEMMA ForwardSuffix ==
    ASSUME NEW a \in Seq(Gens), NEW s \in Seq(Gens), NEW gone,
           Forward(a \o s), Retires(a \o s, gone)
    PROVE  Forward(s) /\ Retires(s, gone)
<1> DEFINE z == a \o s
           m == Len(a)
           n == Len(s)
<1>1. /\ m \in Nat /\ n \in Nat /\ Len(z) = m + n /\ DOMAIN z = 1..(m + n) /\ DOMAIN s = 1..n
      /\ \A i \in 1..n : z[m + i] = s[i]
  <2>1. /\ m \in Nat /\ n \in Nat /\ DOMAIN s = 1..n
    BY LenProperties
  <2>2. z \in Seq(Gens) /\ Len(z) = m + n
        /\ \A i \in 1..(m + n) : z[i] = IF i <= m THEN a[i] ELSE s[i - m]
    BY ConcatProperties
  <2>3. DOMAIN z = 1..(m + n)
    BY <2>2, LenProperties
  <2> HIDE DEF z, m, n
  <2>4. ASSUME NEW i \in 1..n PROVE z[m + i] = s[i]
    <3>1. m + i \in 1..(m + n) /\ ~ (m + i <= m) /\ (m + i) - m = i
      BY <2>1
    <3> QED
      BY <2>2, <3>1
  <2> QED
    BY <2>1, <2>2, <2>3, <2>4
<1>0. Forward(z) /\ Retires(z, gone)
  OBVIOUS
<1> HIDE DEF z, m, n
<1>2. ASSUME NEW i \in 1..(n - 1), Scope(s[i]) = Scope(s[i + 1])
      PROVE  s[i].revision < s[i + 1].revision
  <2>1. /\ m + i \in 1..(Len(z) - 1) /\ z[m + i] = s[i] /\ z[m + (i + 1)] = s[i + 1]
        /\ (m + i) + 1 = m + (i + 1)
    BY <1>1
  <2>2. Scope(z[m + i]) = Scope(z[(m + i) + 1]) => z[m + i].revision < z[(m + i) + 1].revision
    BY <1>0, <2>1 DEF Forward
  <2> QED
    BY <1>2, <2>1, <2>2
<1>3. ASSUME NEW i \in 1..n, NEW k \in 1..n, NEW j \in i..k, s[i].runtime = s[k].runtime
      PROVE  s[j].runtime = s[i].runtime
  <2>1. /\ m + i \in DOMAIN z /\ m + k \in DOMAIN z /\ m + j \in (m + i)..(m + k)
        /\ z[m + i] = s[i] /\ z[m + k] = s[k] /\ z[m + j] = s[j]
    BY <1>1
  <2> QED
    BY <1>0, <1>3, <2>1 DEF Forward
<1>4. ASSUME NEW i \in 1..n, s[i].runtime # s[n].runtime PROVE s[i].runtime \in gone
  <2>1. m + i \in DOMAIN z /\ z[m + i] = s[i] /\ z[m + n] = s[n] /\ Len(z) = m + n
    BY <1>1
  <2> QED
    BY <1>0, <1>4, <2>1 DEF Retires
<1>5. Forward(s)
  BY <1>1, <1>2, <1>3 DEF Forward, n
<1>6. Retires(s, gone)
  BY <1>1, <1>4 DEF Retires, n
<1> QED
  BY <1>5, <1>6

-----------------------------------------------------------------------------
(* The line of generations as the store changes.                           *)

IsSeq(s) == s \in Seq({s[i] : i \in DOMAIN s})

LEMMA SeqIs ==
    ASSUME NEW T, NEW s \in Seq(T)
    PROVE  IsSeq(s)
<1>1. Len(s) \in Nat /\ s \in [1..Len(s) -> T] /\ DOMAIN s = 1..Len(s)
  BY LenProperties
<1>2. s \in [1..Len(s) -> {s[i] : i \in DOMAIN s}]
  BY <1>1
<1>3. s \in UNION {[1..n -> {s[i] : i \in DOMAIN s}] : n \in Nat}
  BY <1>1, <1>2
<1> QED
  BY <1>3, SeqDef DEF IsSeq

LEMMA AppendIsSeq ==
    ASSUME NEW s, IsSeq(s), NEW e
    PROVE  /\ IsSeq(Append(s, e))
           /\ Len(s) \in Nat /\ DOMAIN s = 1..Len(s)
           /\ Len(Append(s, e)) = Len(s) + 1
           /\ DOMAIN Append(s, e) = 1..(Len(s) + 1)
           /\ \A i \in 1..Len(s) : Append(s, e)[i] = s[i]
           /\ Append(s, e)[Len(s) + 1] = e
<1> DEFINE T == {s[i] : i \in DOMAIN s} \cup {e}
<1>1. s \in Seq(T)
  <2>1. s \in Seq({s[i] : i \in DOMAIN s})
    BY DEF IsSeq
  <2> QED
    BY <2>1, SeqMonotonic
<1>2. e \in T
  OBVIOUS
<1> HIDE DEF T
<1>3. /\ Append(s, e) \in Seq(T) /\ Len(Append(s, e)) = Len(s) + 1
      /\ \A i \in 1..Len(s) : Append(s, e)[i] = s[i]
      /\ Append(s, e)[Len(s) + 1] = e
  BY <1>1, <1>2, AppendProperties
<1>4. DOMAIN Append(s, e) = 1..(Len(s) + 1)
  BY <1>3, LenProperties
<1>5. Len(s) \in Nat /\ DOMAIN s = 1..Len(s)
  BY <1>1, LenProperties
<1> QED
  BY <1>3, <1>4, <1>5, SeqIs

LEMMA TailIsSeq ==
    ASSUME NEW s, IsSeq(s), s # <<>>
    PROVE  /\ IsSeq(Tail(s))
           /\ Len(s) \in Nat \ {0} /\ DOMAIN s = 1..Len(s)
           /\ Len(Tail(s)) = Len(s) - 1
           /\ DOMAIN Tail(s) = 1..(Len(s) - 1)
           /\ \A i \in 1..(Len(s) - 1) : Tail(s)[i] = s[i + 1]
           /\ Head(s) = s[1]
<1> DEFINE T == {s[i] : i \in DOMAIN s}
<1>1. s \in Seq(T)
  BY DEF IsSeq
<1> HIDE DEF T
<1>2. /\ Tail(s) \in Seq(T) /\ Len(Tail(s)) = Len(s) - 1
      /\ \A i \in 1..Len(Tail(s)) : Tail(s)[i] = s[i + 1]
  BY <1>1, HeadTailProperties
<1>3. Len(s) \in Nat \ {0} /\ DOMAIN s = 1..Len(s)
  BY <1>1, LenProperties, EmptySeq
<1>4. DOMAIN Tail(s) = 1..(Len(s) - 1)
  BY <1>2, LenProperties
<1>5. Head(s) = s[1]
  BY <1>1
<1> QED
  BY <1>2, <1>3, <1>4, <1>5, SeqIs

\* The store's generations, well formed.
Kept ==
    /\ IsSeq(pending)
    /\ \A i \in DOMAIN pending : pending[i].generation \in Gens
    /\ current \in Gens \cup {None}
    /\ previous \in Gens \cup {None}
    /\ previous # None => current # None

One(x)  == IF x = None THEN <<>> ELSE <<x>>
Waiting == [i \in DOMAIN pending |-> pending[i].generation]

LineShape ==
    /\ Line = (One(previous) \o One(current)) \o Waiting
    /\ One(previous) \in Seq(Gens) /\ One(current) \in Seq(Gens)
    /\ Waiting \in Seq(Gens) /\ Len(Waiting) = Len(pending)
    /\ Line \in Seq(Gens)
    /\ Line = One(previous) \o (One(current) \o Waiting)

LEMMA LineParts == Kept => LineShape
<1> SUFFICES ASSUME Kept PROVE LineShape
  OBVIOUS
<1>1. Line = (One(previous) \o One(current)) \o Waiting
  BY DEF Line, One, Waiting
<1>2. One(previous) \in Seq(Gens) /\ One(current) \in Seq(Gens)
  BY DEF Kept, One
<1>3. Waiting \in Seq(Gens) /\ Len(Waiting) = Len(pending)
  <2>1. Len(pending) \in Nat /\ DOMAIN pending = 1..Len(pending)
    BY LenProperties DEF Kept, IsSeq
  <2>2. Waiting \in [1..Len(pending) -> Gens]
    BY <2>1 DEF Waiting, Kept
  <2>3. Waiting \in UNION {[1..n -> Gens] : n \in Nat}
    BY <2>1, <2>2
  <2>4. Waiting \in Seq(Gens)
    BY <2>3, SeqDef
  <2>5. Len(Waiting) \in Nat /\ DOMAIN Waiting = 1..Len(Waiting)
    BY <2>4, LenProperties
  <2>6. DOMAIN Waiting = 1..Len(pending)
    BY <2>2
  <2>7. ~(Len(Waiting) < Len(pending))
    <3>1. Len(Waiting) < Len(pending) => Len(Waiting) + 1 \in 1..Len(pending)
      BY <2>1, <2>5
    <3> QED
      BY <2>1, <2>5, <2>6, <3>1
  <2>8. ~(Len(pending) < Len(Waiting))
    <3>1. Len(pending) < Len(Waiting) => Len(pending) + 1 \in 1..Len(Waiting)
      BY <2>1, <2>5
    <3> QED
      BY <2>1, <2>5, <2>6, <3>1
  <2>9. Len(Waiting) = Len(pending)
    <3>1. Len(pending) \in Nat /\ Len(Waiting) \in Nat
      BY <2>1, <2>5
    <3> QED
      BY <3>1, <2>7, <2>8
  <2> QED
    BY <2>4, <2>9
<1>4. Line \in Seq(Gens)
  BY <1>1, <1>2, <1>3, ConcatProperties
<1>5. Line = One(previous) \o (One(current) \o Waiting)
  BY <1>1, <1>2, <1>3, ConcatAssociative
<1> QED
  BY <1>1, <1>2, <1>3, <1>4, <1>5 DEF LineShape

\* What apply() compares an update with is the end of the line.
LEMMA LineEnds ==
    ASSUME Kept
    PROVE  /\ staged_generation # None => Line # <<>> /\ staged_generation = Line[Len(Line)]
           /\ staged_generation = None => Line = <<>>
<1> DEFINE a == One(previous)
           b == One(current)
           w == Waiting
<1>1. /\ Line = a \o (b \o w) /\ Line = (a \o b) \o w
      /\ a \in Seq(Gens) /\ b \in Seq(Gens) /\ w \in Seq(Gens) /\ Line \in Seq(Gens)
      /\ Len(w) = Len(pending)
  BY LineParts DEF LineShape
<1>2. CASE pending # <<>>
  <2>1. Len(pending) \in Nat \ {0} /\ DOMAIN pending = 1..Len(pending)
    BY <1>2, TailIsSeq DEF Kept
  <2>2. staged_generation = pending[Len(pending)].generation /\ staged_generation \in Gens
    BY <1>2, <2>1 DEF staged_generation, Last, Kept
  <2>3. w[Len(w)] = staged_generation
    BY <1>1, <2>1, <2>2 DEF Waiting
  <2>4. a \o b \in Seq(Gens)
    BY <1>1, ConcatProperties
  <2> HIDE DEF a, b, w
  <2>5. /\ Len(Line) = Len(a \o b) + Len(w)
        /\ \A i \in 1..(Len(a \o b) + Len(w)) :
              ((a \o b) \o w)[i] = IF i <= Len(a \o b) THEN (a \o b)[i]
                                   ELSE w[i - Len(a \o b)]
    BY <1>1, <2>4, ConcatProperties
  <2>6. Len(a \o b) \in Nat
    BY <2>4, LenProperties
  <2>7. Line[Len(Line)] = w[Len(w)] /\ Len(Line) # 0
    BY <1>1, <2>1, <2>5, <2>6
  <2> QED
    BY <2>2, <2>3, <2>7, NoneIsNoGeneration
<1>3. CASE pending = <<>>
  <2>1. w = <<>>
    BY <1>3 DEF Waiting
  <2>2. staged_generation = current
    BY <1>3 DEF staged_generation
  <2>3. CASE current = None
    BY <1>1, <2>1, <2>2, <2>3 DEF Kept, One
  <2>4. CASE current # None
    <3>1. Line = a \o <<current>>
      BY <1>1, <2>1, <2>4, ConcatEmptySeq DEF One
    <3>2. <<current>> \in Seq(Gens) /\ current \in Gens /\ Len(<<current>>) = 1 /\ <<current>>[1] = current
      BY <2>4 DEF Kept
    <3>3. Len(a) \in Nat
      BY <1>1, LenProperties
    <3> HIDE DEF a
    <3>4. /\ Len(Line) = Len(a) + 1
          /\ \A i \in 1..(Len(a) + 1) : Line[i] = IF i <= Len(a) THEN a[i] ELSE <<current>>[i - Len(a)]
      BY <1>1, <3>1, <3>2, ConcatProperties
    <3>5. Line[Len(Line)] = current /\ Len(Line) # 0
      BY <3>2, <3>3, <3>4
    <3> QED
      BY <2>2, <2>4, <3>5
  <2> QED
    BY <2>3, <2>4
<1> QED
  BY <1>2, <1>3

\* Staging a publication puts its generation at the end of the line.
LEMMA LineStaged ==
    ASSUME Kept, Kept', NEW e, pending' = Append(pending, e), UNCHANGED <<current, previous>>
    PROVE  Line' = Append(Line, e.generation)
<1> DEFINE g == e.generation
           c == One(previous) \o One(current)
<1>1. /\ Line = c \o Waiting /\ c \in Seq(Gens) /\ Waiting \in Seq(Gens) /\ Line \in Seq(Gens)
      /\ Len(Waiting) = Len(pending)
  BY LineParts, ConcatProperties DEF LineShape
<1>2. Line' = c \o Waiting' /\ Waiting' \in Seq(Gens) /\ Len(Waiting') = Len(pending')
  <2>1. (Kept => LineShape)'
    BY LineParts, PTL
  <2> QED
    BY <2>1 DEF LineShape, One
<1>3. /\ Len(pending) \in Nat /\ Len(pending') = Len(pending) + 1
      /\ DOMAIN pending = 1..Len(pending) /\ DOMAIN pending' = 1..(Len(pending) + 1)
      /\ \A i \in 1..Len(pending) : pending'[i] = pending[i]
      /\ pending'[Len(pending) + 1] = e
  BY AppendIsSeq DEF Kept
<1>4. g \in Gens
  BY <1>3 DEF Kept
<1>5. Waiting' = Append(Waiting, g)
  <2>1. /\ Append(Waiting, g) \in Seq(Gens)
        /\ Len(Append(Waiting, g)) = Len(pending) + 1
        /\ \A i \in 1..Len(pending) : Append(Waiting, g)[i] = Waiting[i]
        /\ Append(Waiting, g)[Len(pending) + 1] = g
    BY <1>1, <1>4, AppendProperties
  <2>2. \A i \in 1..Len(Waiting') : Waiting'[i] = Append(Waiting, g)[i]
    BY <1>2, <1>3, <2>1 DEF Waiting
  <2> QED
    BY <1>2, <1>3, <2>1, <2>2, SeqEqual
<1> HIDE DEF c
<1>6. <<g>> \in Seq(Gens)
  BY <1>4
<1>7. c \o (Waiting \o <<g>>) = (c \o Waiting) \o <<g>>
  BY <1>1, <1>6, ConcatAssociative
<1> QED
  BY <1>1, <1>2, <1>4, <1>5, <1>7, AppendIsConcat

\* Publishing drops the oldest generation of a full line, and nothing else.
LEMMA LinePublished ==
    ASSUME Kept, Kept', pending # <<>>, pending' = Tail(pending),
           current' = Head(pending).generation, previous' = current
    PROVE  Line = One(previous) \o Line'
<1> DEFINE h == Head(pending).generation
<1>1. /\ Line = One(previous) \o (One(current) \o Waiting)
      /\ One(current) \in Seq(Gens) /\ Waiting \in Seq(Gens)
      /\ Len(Waiting) = Len(pending)
  BY LineParts DEF LineShape
<1>0. (Kept => LineShape)'
  BY LineParts, PTL
<1>2. /\ Line' = One(previous)' \o (One(current)' \o Waiting')
      /\ Waiting' \in Seq(Gens) /\ Len(Waiting') = Len(pending')
  BY <1>0 DEF LineShape
<1>3. /\ Len(pending) \in Nat \ {0} /\ DOMAIN pending = 1..Len(pending)
      /\ Len(pending') = Len(pending) - 1 /\ DOMAIN pending' = 1..(Len(pending) - 1)
      /\ \A i \in 1..(Len(pending) - 1) : pending'[i] = pending[i + 1]
      /\ Head(pending) = pending[1]
  BY TailIsSeq DEF Kept
<1>4. h \in Gens /\ h # None
  BY <1>3, NoneIsNoGeneration DEF Kept
<1>5. One(current)' = <<h>> /\ <<h>> \in Seq(Gens) /\ Len(<<h>>) = 1 /\ <<h>>[1] = h
  BY <1>4 DEF One
<1>6. <<h>> \o Waiting' = Waiting
  <2> DEFINE k == <<h>>
             n == Len(pending)
  <2>1. k \in Seq(Gens) /\ Len(k) = 1 /\ k[1] = h
    BY <1>5
  <2> HIDE DEF k, n
  <2>2. /\ k \o Waiting' \in Seq(Gens)
        /\ Len(k \o Waiting') = Len(k) + Len(Waiting')
        /\ \A i \in 1..(Len(k) + Len(Waiting')) :
              (k \o Waiting')[i] = IF i <= Len(k) THEN k[i] ELSE Waiting'[i - Len(k)]
    BY <1>2, <2>1, ConcatProperties
  <2>3. n \in Nat \ {0} /\ Len(Waiting') = n - 1 /\ Len(Waiting) = n
    BY <1>1, <1>2, <1>3 DEF n
  <2>4. ASSUME NEW i \in 1..n PROVE (k \o Waiting')[i] = Waiting[i]
    <3>1. CASE i = 1
      <4>1. (k \o Waiting')[i] = h
        BY <2>1, <2>2, <2>3, <3>1
      <4>2. Waiting[1] = h
        BY <1>3 DEF Waiting
      <4> QED
        BY <3>1, <4>1, <4>2
    <3>2. CASE i # 1
      <4>1. i - 1 \in 1..(n - 1) /\ (k \o Waiting')[i] = Waiting'[i - 1]
        BY <2>1, <2>2, <2>3, <3>2
      <4>2. i - 1 \in DOMAIN pending' /\ i \in DOMAIN pending /\ pending'[i - 1] = pending[(i - 1) + 1]
        BY <1>3, <4>1 DEF n
      <4>3. Waiting'[i - 1] = pending'[i - 1].generation /\ Waiting[i] = pending[i].generation
        BY <4>2 DEF Waiting
      <4>4. (i - 1) + 1 = i
        BY <2>3
      <4> QED
        BY <4>1, <4>2, <4>3, <4>4
    <3> QED
      BY <3>1, <3>2
  <2>5. Len(k \o Waiting') = n
    BY <2>1, <2>2, <2>3
  <2>6. k \o Waiting' = Waiting
    BY <1>1, <2>2, <2>3, <2>4, <2>5, SeqEqual
  <2> QED
    BY <2>6 DEF k
<1>7. One(previous)' = One(current)
  BY DEF One
<1> QED
  BY <1>1, <1>2, <1>5, <1>6, <1>7

-----------------------------------------------------------------------------
(* The source: its states are told apart by their stamps, and every update *)
(* in the queue or in a thread's hands is about one of them.               *)

Before(v, w) ==
    \/ v.runtime < w.runtime
    \/ v.runtime = w.runtime /\ v.epoch < w.epoch
    \/ v.runtime = w.runtime /\ v.epoch = w.epoch /\ v.revision < w.revision

SourceInv ==
    /\ IsSeq(versions)
    /\ Len(versions) \in 1..MaxVersions
    /\ \A i \in DOMAIN versions :
        /\ versions[i].runtime \in 1..i
        /\ versions[i].epoch \in 1..i
        /\ versions[i].revision \in 1..i
        /\ versions[i].graph \in Graphs
    /\ \A i, j \in DOMAIN versions : i < j => Before(versions[i], versions[j])

UpdateOk(u) ==
    /\ u.kind \in {"snapshot", "delta", "gap"}
    /\ u.version \in DOMAIN versions
    /\ u.kind = "delta" => /\ u.version - 1 \in DOMAIN versions
                           /\ Scope(versions[u.version - 1]) = Scope(versions[u.version])

UpdatesInv ==
    /\ IsSeq(queue)
    /\ \A i \in DOMAIN queue : UpdateOk(queue[i])
    /\ \A t \in Threads : thread[t].pc = "apply" => UpdateOk(thread[t].held)

\* The history of the source only grows.
Grows ==
    /\ DOMAIN versions \subseteq DOMAIN versions'
    /\ \A i \in DOMAIN versions : versions'[i] = versions[i]

LEMMA UpdateStays ==
    ASSUME Grows, NEW u, UpdateOk(u)
    PROVE  UpdateOk(u)'
  BY DEF Grows, UpdateOk

LEMMA VersionsDomain ==
    ASSUME SourceInv
    PROVE  DOMAIN versions = 1..Len(versions) /\ Len(versions) \in Nat \ {0}
  BY LenProperties DEF SourceInv, IsSeq

LEMMA SourceChanges ==
    ASSUME SourceInv, UpdatesInv, SourceChange
    PROVE  SourceInv' /\ UpdatesInv' /\ Grows
<1> DEFINE n == Len(versions)
<1>0. n \in Nat /\ n < MaxVersions /\ DOMAIN versions = 1..n /\ n \in 1..MaxVersions
  BY VersionsDomain, BoundsAssumption DEF SourceInv, SourceChange
<1>1. PICK tree \in Catalogue, next \in {
            <<Latest.runtime, Latest.epoch, Latest.revision + 1>>,
            <<Latest.runtime, Latest.epoch + 1, Latest.revision>>,
            <<Latest.runtime, Latest.epoch + 1, 1>>,
            <<Latest.runtime + 1, 1, 1>>} :
        /\ versions' = Append(versions, Version(next[1], next[2], next[3], tree))
        /\ LET v == Len(versions) + 1
                sequence == Cardinality({w \in DOMAIN versions :
                                versions[w].runtime = next[1]}) + 1
                kinds == IF next[1] = Latest.runtime /\ Len(queue) >= MaxQueue
                         THEN {"gap"}
                         ELSE IF <<next[1], next[2]>> = Scope(Latest)
                              THEN {"delta", "snapshot"} ELSE {"snapshot"}
           IN  \E kind \in kinds, complete \in BOOLEAN :
                /\ kind = "snapshot" \/ complete
                /\ queue' = Append(IF next[1] = Latest.runtime THEN queue ELSE <<>>,
                                   Update(kind, v, sequence, complete))
  BY Zenon DEF SourceChange
<1> DEFINE w == Version(next[1], next[2], next[3], tree)
<1>2. /\ w.runtime = next[1] /\ w.epoch = next[2] /\ w.revision = next[3]
      /\ w.graph = [nodes |-> tree.nodes, rel |-> tree.rel]
  BY DEF Version
<1>3. w.graph \in Graphs
  BY <1>2 DEF Graphs
<1>4. /\ Latest.runtime \in 1..n /\ Latest.epoch \in 1..n /\ Latest.revision \in 1..n
  BY <1>0 DEF Latest, SourceInv
<1>5. \/ next[1] = Latest.runtime /\ next[2] = Latest.epoch /\ next[3] = Latest.revision + 1
      \/ next[1] = Latest.runtime /\ next[2] = Latest.epoch + 1 /\ next[3] = Latest.revision
      \/ next[1] = Latest.runtime /\ next[2] = Latest.epoch + 1 /\ next[3] = 1
      \/ next[1] = Latest.runtime + 1 /\ next[2] = 1 /\ next[3] = 1
  <2> DEFINE a == Latest.runtime
             b == Latest.epoch
             c == Latest.revision
  <2>1. next \in {<<a, b, c + 1>>, <<a, b + 1, c>>, <<a, b + 1, 1>>, <<a + 1, 1, 1>>}
    OBVIOUS
  <2> HIDE DEF a, b, c
  <2>2. \/ next[1] = a /\ next[2] = b /\ next[3] = c + 1
        \/ next[1] = a /\ next[2] = b + 1 /\ next[3] = c
        \/ next[1] = a /\ next[2] = b + 1 /\ next[3] = 1
        \/ next[1] = a + 1 /\ next[2] = 1 /\ next[3] = 1
    BY <2>1
  <2> QED
    BY <2>2 DEF a, b, c
<1>6. /\ IsSeq(versions') /\ Len(versions') = n + 1 /\ DOMAIN versions' = 1..(n + 1)
      /\ \A i \in 1..n : versions'[i] = versions[i]
      /\ versions'[n + 1] = w
  <2>1. IsSeq(versions)
    BY DEF SourceInv
  <2> HIDE DEF w
  <2>2. versions' = Append(versions, w)
    BY <1>1 DEF w
  <2> QED
    BY <2>1, <2>2, AppendIsSeq
<1> HIDE DEF w
<1>7. Grows
  BY <1>0, <1>6 DEF Grows
<1>8. w.runtime \in 1..(n + 1) /\ w.epoch \in 1..(n + 1) /\ w.revision \in 1..(n + 1)
  BY <1>0, <1>2, <1>4, <1>5
<1>9. Before(Latest, w)
  BY <1>2, <1>4, <1>5 DEF Before
<1> HIDE DEF n
<1>10. SourceInv'
  <2>1. \A i \in DOMAIN versions' :
            /\ versions'[i].runtime \in 1..i
            /\ versions'[i].epoch \in 1..i
            /\ versions'[i].revision \in 1..i
            /\ versions'[i].graph \in Graphs
    <3> SUFFICES ASSUME NEW i \in 1..(n + 1)
                 PROVE  /\ versions'[i].runtime \in 1..i
                        /\ versions'[i].epoch \in 1..i
                        /\ versions'[i].revision \in 1..i
                        /\ versions'[i].graph \in Graphs
      BY <1>6
    <3>1. CASE i = n + 1
      BY <1>3, <1>6, <1>8, <3>1
    <3>2. CASE i # n + 1
      <4>1. i \in DOMAIN versions /\ versions'[i] = versions[i]
        BY <1>0, <1>6, <3>2
      <4> QED
        BY <4>1 DEF SourceInv
    <3> QED
      BY <3>1, <3>2
  <2>2. ASSUME NEW i \in DOMAIN versions', NEW j \in DOMAIN versions', i < j
        PROVE  Before(versions'[i], versions'[j])
    <3>1. CASE j # n + 1
      <4>1. /\ i \in DOMAIN versions /\ j \in DOMAIN versions
            /\ versions'[i] = versions[i] /\ versions'[j] = versions[j]
        BY <1>0, <1>6, <2>2, <3>1
      <4> QED
        BY <2>2, <4>1 DEF SourceInv
    <3>2. CASE j = n + 1 /\ i = n
      <4>1. versions'[i] = Latest /\ versions'[j] = w
        BY <1>0, <1>6, <3>2 DEF Latest, n
      <4> QED
        BY <1>9, <4>1
    <3>3. CASE j = n + 1 /\ i # n
      <4>1. /\ i \in DOMAIN versions /\ n \in DOMAIN versions /\ i < n
            /\ versions'[i] = versions[i] /\ versions'[j] = w
        BY <1>0, <1>6, <2>2, <3>3
      <4>2. Before(versions[i], Latest)
        BY <4>1 DEF SourceInv, Latest, n
      <4>3. /\ versions[i].runtime \in Int /\ versions[i].epoch \in Int
            /\ versions[i].revision \in Int
        BY <4>1 DEF SourceInv
      <4>4. /\ Latest.runtime \in Int /\ Latest.epoch \in Int /\ Latest.revision \in Int
            /\ w.runtime \in Int /\ w.epoch \in Int /\ w.revision \in Int
        BY <1>4, <1>8
      <4>5. Before(versions[i], w)
        BY <1>9, <4>2, <4>3, <4>4 DEF Before
      <4> QED
        BY <4>1, <4>5
    <3> QED
      BY <3>1, <3>2, <3>3
  <2>3. Len(versions') \in 1..MaxVersions
    BY <1>0, <1>6, BoundsAssumption
  <2> QED
    BY <1>6, <2>1, <2>2, <2>3 DEF SourceInv
<1>11. UpdatesInv'
  <2>1. PICK base, u :
            /\ base \in {queue, <<>>} /\ queue' = Append(base, u)
            /\ u.kind \in {"snapshot", "delta", "gap"} /\ u.version = n + 1
            /\ u.kind = "delta" => <<next[1], next[2]>> = Scope(Latest)
    <3>1. PICK kind, v, sequence, complete :
            /\ queue' = Append(IF next[1] = Latest.runtime THEN queue ELSE <<>>,
                               Update(kind, v, sequence, complete))
            /\ kind \in {"snapshot", "delta", "gap"} /\ v = n + 1
            /\ kind = "delta" => <<next[1], next[2]>> = Scope(Latest)
      BY <1>1 DEF n
    <3> DEFINE base == IF next[1] = Latest.runtime THEN queue ELSE <<>>
               u == Update(kind, v, sequence, complete)
    <3>2. u.version = v /\ u.kind = kind
      BY DEF Update
    <3>3. base \in {queue, <<>>} /\ queue' = Append(base, u)
      BY <3>1
    <3> HIDE DEF base, u
    <3> QED
      BY <3>1, <3>2, <3>3
  <2>2. UpdateOk(u)'
    <3>1. u.version \in DOMAIN versions'
      BY <1>0, <1>6, <2>1
    <3>2. ASSUME u.kind = "delta"
          PROVE  /\ u.version - 1 \in DOMAIN versions'
                 /\ Scope(versions'[u.version - 1]) = Scope(versions'[u.version])
      <4>1. u.version - 1 = n /\ n \in DOMAIN versions'
        BY <1>0, <1>6, <2>1
      <4>2. versions'[n] = Latest /\ versions'[u.version] = w
        BY <1>0, <1>6, <2>1 DEF Latest, n
      <4>3. Scope(w) = <<next[1], next[2]>>
        BY <1>2 DEF Scope
      <4>4. Scope(Latest) = <<next[1], next[2]>>
        BY <2>1, <3>2
      <4> QED
        BY <4>1, <4>2, <4>3, <4>4
    <3> QED
      BY <2>1, <3>1, <3>2 DEF UpdateOk
  <2>3. IsSeq(base) /\ \A i \in DOMAIN base : UpdateOk(base[i])'
    <3>1. CASE base = queue
      BY <1>7, <3>1, UpdateStays DEF UpdatesInv
    <3>2. CASE base = <<>>
      BY <3>2 DEF IsSeq
    <3> QED
      BY <2>1, <3>1, <3>2
  <2>4. /\ IsSeq(queue')
        /\ Len(base) \in Nat /\ DOMAIN base = 1..Len(base) /\ DOMAIN queue' = 1..(Len(base) + 1)
        /\ \A i \in 1..Len(base) : queue'[i] = base[i]
        /\ queue'[Len(base) + 1] = u
    BY <2>1, <2>3, AppendIsSeq
  <2>5. ASSUME NEW i \in DOMAIN queue' PROVE UpdateOk(queue[i])'
    <3>1. CASE i = Len(base) + 1
      <4>1. queue'[i] = u
        BY <2>4, <3>1
      <4> QED
        BY <2>2, <4>1 DEF UpdateOk
    <3>2. CASE i # Len(base) + 1
      <4>1. i \in DOMAIN base /\ queue'[i] = base[i]
        BY <2>4, <3>2
      <4> QED
        BY <2>3, <4>1 DEF UpdateOk
    <3> QED
      BY <3>1, <3>2
  <2>6. ASSUME NEW t \in Threads, thread'[t].pc = "apply" PROVE UpdateOk(thread[t].held)'
    <3>1. thread' = thread
      BY DEF SourceChange
    <3>2. UpdateOk(thread[t].held)
      BY <2>6, <3>1 DEF UpdatesInv
    <3> QED
      BY <1>7, <3>1, <3>2 DEF UpdateOk, Grows
  <2> QED
    BY <2>4, <2>5, <2>6 DEF UpdatesInv
<1> QED
  BY <1>7, <1>10, <1>11

-----------------------------------------------------------------------------
(* A generation of the store is a state of the source, and a forest.       *)

GenOk(g) ==
    /\ \E w \in DOMAIN versions : g = Generation(w, versions[w].graph)
    /\ Forest(g.graph)

HeldInv ==
    /\ IsSeq(pending)
    /\ \A i \in DOMAIN pending : GenOk(pending[i].generation)
    /\ current # None => GenOk(current)
    /\ previous # None => GenOk(previous) /\ current # None

StoreInv ==
    /\ SourceInv
    /\ UpdatesInv
    /\ HeldInv
    /\ Forward(Line)
    /\ Retires(Line, retired)

LEMMA GenStays ==
    ASSUME Grows, NEW g, GenOk(g)
    PROVE  GenOk(g)'
<1>1. PICK w \in DOMAIN versions : g = Generation(w, versions[w].graph)
  BY DEF GenOk
<1>2. w \in DOMAIN versions' /\ versions'[w] = versions[w]
  BY DEF Grows
<1>3. g = Generation(w, versions[w].graph)'
  BY <1>1, <1>2 DEF Generation
<1> QED
  BY <1>2, <1>3 DEF GenOk

LEMMA GenShape ==
    ASSUME SourceInv, NEW w \in DOMAIN versions
    PROVE  /\ Generation(w, versions[w].graph) \in Gens
           /\ Generation(w, versions[w].graph).runtime = versions[w].runtime
           /\ Generation(w, versions[w].graph).epoch = versions[w].epoch
           /\ Generation(w, versions[w].graph).revision = versions[w].revision
           /\ Generation(w, versions[w].graph).graph = versions[w].graph
<1>1. /\ versions[w].runtime \in 1..w /\ versions[w].epoch \in 1..w
      /\ versions[w].revision \in 1..w /\ versions[w].graph \in Graphs
  BY DEF SourceInv
<1>2. w \in 1..Len(versions) /\ Len(versions) \in 1..MaxVersions
  BY VersionsDomain DEF SourceInv
<1>3. \A k \in 1..w : k \in 1..MaxVersions
  BY <1>2, BoundsAssumption
<1> QED
  BY <1>1, <1>3 DEF Generation, Gens, Stamps

LEMMA GenIsGeneration ==
    ASSUME SourceInv, NEW g, GenOk(g)
    PROVE  g \in Gens /\ g # None
  BY GenShape, NoneIsNoGeneration DEF GenOk

LEMMA HeldKept == SourceInv /\ HeldInv => Kept
  BY GenIsGeneration DEF HeldInv, Kept

\* Two states of the source with one stamp are one state.
LEMMA OneStamp ==
    ASSUME SourceInv, NEW i \in DOMAIN versions, NEW j \in DOMAIN versions,
           Scope(versions[i]) = Scope(versions[j]),
           versions[i].revision = versions[j].revision
    PROVE  i = j
<1>1. i \in Int /\ j \in Int
  BY VersionsDomain
<1>2. versions[i].runtime = versions[j].runtime /\ versions[i].epoch = versions[j].epoch
  BY DEF Scope
<1>3. /\ versions[i].runtime \in Int /\ versions[i].epoch \in Int /\ versions[i].revision \in Int
  BY DEF SourceInv
<1>4. ~ Before(versions[i], versions[j]) /\ ~ Before(versions[j], versions[i])
  BY <1>2, <1>3 DEF Before
<1>5. ~ (i < j) /\ ~ (j < i)
  BY <1>4 DEF SourceInv
<1> QED
  BY <1>1, <1>5

LEMMA SnapshotPrepared ==
    ASSUME SourceInv, HeldInv, NEW u, UpdateOk(u), NEW gen \in prepare_snapshot(u)
    PROVE  /\ GenOk(gen)
           /\ gen.runtime = versions[u.version].runtime
           /\ staged_generation # None /\ Scope(staged_generation) = Scope(gen)
                => staged_generation.revision < gen.revision
<1> DEFINE v == versions[u.version]
<1>1. /\ u.version \in DOMAIN versions
  BY DEF UpdateOk
<1>2. /\ gen = Generation(u.version, v.graph)
      /\ ~ /\ staged_generation # None
           /\ Scope(v) = Scope(staged_generation)
           /\ v.revision <= staged_generation.revision
      /\ validate_and_find_roots(v.graph, v.roots)
  BY DEF prepare_snapshot
<1>3. /\ gen \in Gens /\ gen.runtime = v.runtime /\ gen.epoch = v.epoch
      /\ gen.revision = v.revision /\ gen.graph = v.graph
  BY <1>1, <1>2, GenShape
<1>4. Forest(gen.graph)
  <2>1. v.graph \in Graphs
    BY <1>1 DEF SourceInv
  <2>2. IsFiniteSet(Nodes(v.graph))
    BY <2>1, GraphShape
  <2>3. Visited(v.graph) = Nodes(v.graph)
    BY <1>2 DEF validate_and_find_roots
  <2> QED
    BY <1>3, <2>2, <2>3, VisitedForest
<1>5. GenOk(gen)
  BY <1>1, <1>2, <1>4 DEF GenOk
<1>6. ASSUME staged_generation # None, Scope(staged_generation) = Scope(gen)
      PROVE  staged_generation.revision < gen.revision
  <2>1. Scope(v) = Scope(gen)
    BY <1>3 DEF Scope
  <2>2. ~ (v.revision <= staged_generation.revision)
    BY <1>2, <1>6, <2>1
  <2>3. staged_generation \in Gens
    BY <1>6, LineEnds, LineParts, HeldKept, LenProperties, EmptySeq DEF LineShape
  <2>4. staged_generation.revision \in Int /\ gen.revision \in Int
    BY <1>3, <2>3 DEF Gens, Stamps
  <2> QED
    BY <1>3, <2>2, <2>4
<1> QED
  BY <1>3, <1>5, <1>6

\* The generation updates are compared with is one the store keeps.
LEMMA StagedOk ==
    ASSUME SourceInv, HeldInv, staged_generation # None
    PROVE  GenOk(staged_generation)
<1>1. CASE pending = <<>>
  BY <1>1 DEF staged_generation, HeldInv
<1>2. CASE pending # <<>>
  <2>1. Len(pending) \in DOMAIN pending
    BY <1>2, TailIsSeq DEF HeldInv
  <2> QED
    BY <1>2, <2>1 DEF staged_generation, HeldInv, Last
<1> QED
  BY <1>1, <1>2

LEMMA DeltaPrepared ==
    ASSUME SourceInv, HeldInv, NEW u, UpdateOk(u), u.kind = "delta",
           NEW gen \in prepare_delta(u)
    PROVE  /\ GenOk(gen)
           /\ gen.runtime = versions[u.version].runtime
           /\ staged_generation # None /\ Scope(staged_generation) = Scope(gen)
                => staged_generation.revision < gen.revision
<1> DEFINE v == versions[u.version]
           b == versions[u.version - 1]
           d == DeltaOf(u.version)
           res == snapshot_from_delta(staged_generation.graph, d)
<1>1. /\ u.version \in DOMAIN versions /\ u.version - 1 \in DOMAIN versions
      /\ Scope(b) = Scope(v)
  BY DEF UpdateOk
<1>2. /\ staged_generation # None
      /\ Scope(v) = Scope(staged_generation)
      /\ b.revision = staged_generation.revision
      /\ ~ (v.revision <= b.revision)
      /\ validate_and_find_roots(res, {})
      /\ gen = Generation(u.version, res)
  BY Zenon DEF prepare_delta
<1>3. PICK w \in DOMAIN versions : staged_generation = Generation(w, versions[w].graph)
  BY <1>2, StagedOk DEF GenOk
<1>4. /\ staged_generation.runtime = versions[w].runtime
      /\ staged_generation.epoch = versions[w].epoch
      /\ staged_generation.revision = versions[w].revision
      /\ staged_generation.graph = versions[w].graph
  BY <1>3, GenShape
<1>5. Scope(versions[w]) = Scope(b)
  BY <1>1, <1>2, <1>4 DEF Scope
<1>6. w = u.version - 1
  BY <1>1, <1>2, <1>4, <1>5, OneStamp
<1>7. b.graph \in Graphs /\ v.graph \in Graphs
  BY <1>1 DEF SourceInv
<1>8. res = v.graph
  BY <1>4, <1>6, <1>7, DeltaGivesNext
<1> HIDE DEF res
<1>9. /\ gen = Generation(u.version, v.graph) /\ gen.runtime = v.runtime
      /\ gen.revision = v.revision /\ gen.graph = v.graph
  BY <1>1, <1>2, <1>8, GenShape
<1>10. Forest(gen.graph)
  <2>1. IsFiniteSet(Nodes(v.graph))
    BY <1>7, GraphShape
  <2>2. Visited(v.graph) = Nodes(v.graph)
    BY <1>2, <1>8 DEF validate_and_find_roots
  <2> QED
    BY <1>9, <2>1, <2>2, VisitedForest
<1>11. GenOk(gen)
  BY <1>1, <1>9, <1>10 DEF GenOk
<1>12. staged_generation.revision < gen.revision
  <2>1. v.revision \in Int /\ b.revision \in Int
    BY <1>1 DEF SourceInv
  <2> QED
    BY <1>2, <1>9, <2>1
<1> QED
  BY <1>9, <1>11, <1>12

-----------------------------------------------------------------------------
(* The steps of the threads.                                               *)

\* A step that leaves the source's history and the store's generations alone and gives
\* at most one thread an update to apply.
LEMMA StoreKeeps ==
    ASSUME StoreInv, UNCHANGED <<versions, current, previous, pending, retired>>,
           IsSeq(queue'), \A i \in DOMAIN queue' : UpdateOk(queue'[i]),
           \A t \in Threads : thread'[t].pc = "apply" => UpdateOk(thread'[t].held)
    PROVE  StoreInv'
<1>1. SourceInv'
  BY DEF StoreInv, SourceInv
<1>2. \A u : UpdateOk(u)' <=> UpdateOk(u)
  BY DEF UpdateOk
<1>3. UpdatesInv'
  BY <1>2 DEF UpdatesInv, UpdateOk
<1>4. HeldInv'
  BY DEF StoreInv, HeldInv, GenOk, Generation
<1>5. Line' = Line
  BY DEF Line
<1> QED
  BY <1>1, <1>3, <1>4, <1>5 DEF StoreInv

LEMMA ThreadKeeps ==
    ASSUME StoreInv, NEW t \in Threads, NEW x, Moved(t, x),
           x.pc = "apply" => UpdateOk(x.held),
           UNCHANGED <<versions, queue, current, previous, pending, retired>>
    PROVE  StoreInv'
<1>1. \A o \in Threads : thread'[o].pc = "apply" => UpdateOk(thread'[o].held)
  BY DEF Moved, StoreInv, UpdatesInv
<1>2. IsSeq(queue') /\ \A i \in DOMAIN queue' : UpdateOk(queue'[i])
  BY DEF StoreInv, UpdatesInv
<1> QED
  BY <1>1, <1>2, StoreKeeps

LEMMA StoreTakes ==
    ASSUME StoreInv, ThreadsOk, NEW t \in Threads, TakeSnapshot(t)
    PROVE  StoreInv'
<1> DEFINE u == Update("snapshot", Len(versions), 0, TRUE)
<1>1. thread' = [thread EXCEPT ![t].held = u, ![t].pc = "apply"]
  BY DEF TakeSnapshot
<1>2. UNCHANGED <<versions, queue, current, previous, pending, retired>>
  BY DEF TakeSnapshot, source, store
<1>3. UpdateOk(u)
  <2>1. u.kind = "snapshot" /\ u.version = Len(versions)
    BY DEF Update
  <2>2. Len(versions) \in DOMAIN versions
    BY VersionsDomain DEF StoreInv
  <2> QED
    BY <2>1, <2>2 DEF UpdateOk
<1> HIDE DEF u
<1>4. PICK x : Moved(t, x) /\ x.held = u
  BY <1>1, TakenMoves
<1> QED
  BY <1>2, <1>3, <1>4, ThreadKeeps

LEMMA StoreNextUpdate ==
    ASSUME StoreInv, ThreadsOk, NEW t \in Threads, NextUpdate(t)
    PROVE  StoreInv'
<1>1. /\ thread' = [thread EXCEPT ![t].held = Head(queue), ![t].pc = "apply"]
      /\ queue # <<>> /\ queue' = Tail(queue)
      /\ UNCHANGED <<versions, current, previous, pending, retired>>
  BY DEF NextUpdate, store
<1>2. /\ IsSeq(queue') /\ Len(queue) \in Nat \ {0} /\ DOMAIN queue = 1..Len(queue)
      /\ DOMAIN queue' = 1..(Len(queue) - 1)
      /\ \A i \in 1..(Len(queue) - 1) : queue'[i] = queue[i + 1]
      /\ Head(queue) = queue[1]
  BY <1>1, TailIsSeq DEF StoreInv, UpdatesInv
<1>3. UpdateOk(Head(queue))
  BY <1>2 DEF StoreInv, UpdatesInv
<1>4. ASSUME NEW i \in DOMAIN queue' PROVE UpdateOk(queue'[i])
  <2>1. i + 1 \in DOMAIN queue /\ queue'[i] = queue[i + 1]
    BY <1>2
  <2> QED
    BY <2>1 DEF StoreInv, UpdatesInv
<1>5. PICK x : Moved(t, x) /\ x.held = Head(queue)
  BY <1>1, TakenMoves
<1>6. \A o \in Threads : thread'[o].pc = "apply" => UpdateOk(thread'[o].held)
  BY <1>3, <1>5 DEF Moved, StoreInv, UpdatesInv
<1> QED
  BY <1>1, <1>2, <1>4, <1>6, StoreKeeps

LEMMA StoreStages ==
    ASSUME StoreInv, ThreadsOk, NEW t \in Threads, ApplyStaged(t)
    PROVE  StoreInv'
<1> DEFINE u == thread[t].held
<1>1. UpdateOk(u)
  BY DEF ApplyStaged, StoreInv, UpdatesInv
<1>2. PICK gen, events :
        /\ gen \in Prepared(u)
        /\ pending' = Append(pending, [generation |-> gen, events |-> events])
        /\ retired' = retired_after(gen)
  BY Zenon DEF ApplyStaged
<1>3. /\ UNCHANGED <<versions, queue, current, previous>>
      /\ ~ RefusedAtOnce(u) /\ u.kind # "gap"
  BY DEF ApplyStaged, source
<1>4. SourceInv /\ HeldInv
  BY DEF StoreInv
<1>5. /\ GenOk(gen)
      /\ gen.runtime = versions[u.version].runtime
      /\ staged_generation # None /\ Scope(staged_generation) = Scope(gen)
            => staged_generation.revision < gen.revision
  <2>1. CASE u.kind = "snapshot"
    <3>1. gen \in prepare_snapshot(u)
      BY <1>2, <2>1 DEF Prepared
    <3> QED
      BY <1>1, <1>4, <3>1, SnapshotPrepared
  <2>2. CASE u.kind = "delta"
    <3>1. gen \in prepare_delta(u)
      BY <1>2, <2>2 DEF Prepared
    <3> QED
      BY <1>1, <1>4, <2>2, <3>1, DeltaPrepared
  <2> QED
    BY <1>1, <1>3, <2>1, <2>2 DEF UpdateOk
<1>6. gen.runtime \notin retired
  BY <1>3, <1>5 DEF RefusedAtOnce
<1> DEFINE e == [generation |-> gen, events |-> events]
<1>7. e.generation = gen
  OBVIOUS
<1> HIDE DEF e, u
<1>8. pending' = Append(pending, e)
  BY <1>2 DEF e
<1>9. HeldInv'
  <2>1. /\ IsSeq(pending') /\ Len(pending) \in Nat /\ DOMAIN pending = 1..Len(pending)
        /\ DOMAIN pending' = 1..(Len(pending) + 1)
        /\ \A i \in 1..Len(pending) : pending'[i] = pending[i]
        /\ pending'[Len(pending) + 1] = e
    BY <1>4, <1>8, AppendIsSeq DEF HeldInv
  <2>2. \A g : GenOk(g) => GenOk(g)'
    BY <1>3 DEF GenOk, Generation
  <2>3. ASSUME NEW i \in DOMAIN pending' PROVE GenOk(pending'[i].generation)
    <3>1. CASE i = Len(pending) + 1
      BY <1>5, <1>7, <2>1, <3>1
    <3>2. CASE i # Len(pending) + 1
      <4>1. i \in DOMAIN pending /\ pending'[i] = pending[i]
        BY <2>1, <3>2
      <4> QED
        BY <1>4, <4>1 DEF HeldInv
    <3> QED
      BY <3>1, <3>2
  <2>4. current' # None => GenOk(current)'
    BY <1>3, <1>4 DEF HeldInv, GenOk, Generation
  <2>5. previous' # None => GenOk(previous)' /\ current' # None
    BY <1>3, <1>4 DEF HeldInv, GenOk, Generation
  <2>6. ASSUME NEW i \in DOMAIN pending' PROVE GenOk(pending[i].generation)'
    BY <1>3, <2>3 DEF GenOk, Generation
  <2> QED
    BY <2>1, <2>4, <2>5, <2>6 DEF HeldInv
<1>10. SourceInv'
  BY <1>3, <1>4 DEF SourceInv
<1>11. UpdatesInv'
  <2>1. PICK x : Moved(t, x) /\ x.pc # "apply"
    BY StagedMoves
  <2>2. \A o \in Threads : thread'[o].pc = "apply" => UpdateOk(thread'[o].held)
    BY <2>1 DEF Moved, StoreInv, UpdatesInv
  <2> QED
    BY <1>3, <2>2 DEF UpdatesInv, UpdateOk, StoreInv
<1>12. Kept /\ Kept'
  <2>1. (SourceInv /\ HeldInv => Kept)'
    BY HeldKept, PTL
  <2> QED
    BY <1>4, <1>9, <1>10, <2>1, HeldKept
<1>13. Line' = Append(Line, gen)
  BY <1>3, <1>7, <1>8, <1>12, LineStaged
<1>14. gen \in Gens
  BY <1>4, <1>5, GenIsGeneration
<1>15. Line \in Seq(Gens)
  BY <1>12, LineParts DEF LineShape
<1>16. /\ retired \subseteq retired'
       /\ Line # <<>> =>
            /\ Scope(Line[Len(Line)]) = Scope(gen) => Line[Len(Line)].revision < gen.revision
            /\ Line[Len(Line)].runtime # gen.runtime => Line[Len(Line)].runtime \in retired'
  <2>1. Line # <<>> => staged_generation # None /\ staged_generation = Line[Len(Line)]
    BY <1>12, LineEnds
  <2>2. retired' = IF staged_generation # None /\ staged_generation.runtime # gen.runtime
                   THEN retired \cup {staged_generation.runtime} ELSE retired
    BY <1>2 DEF retired_after, RuntimeChanged
  <2> HIDE DEF StoreInv
  <2> QED
    BY <1>5, <2>1, <2>2
<1>17. Forward(Line) /\ Retires(Line, retired)
  BY DEF StoreInv
<1>18. Forward(Append(Line, gen)) /\ Retires(Append(Line, gen), retired')
  BY <1>6, <1>14, <1>15, <1>16, <1>17, ForwardAppend
<1> QED
  BY <1>9, <1>10, <1>11, <1>13, <1>18 DEF StoreInv

LEMMA StorePublishes ==
    ASSUME StoreInv, NEW t \in Threads, PublishNext(t)
    PROVE  StoreInv'
<1>1. /\ pending # <<>> /\ pending' = Tail(pending)
      /\ current' = Head(pending).generation /\ previous' = current
      /\ UNCHANGED <<versions, queue, retired, thread>>
  BY DEF PublishNext, source
<1>2. SourceInv /\ HeldInv /\ UpdatesInv
  BY DEF StoreInv
<1>3. SourceInv' /\ UpdatesInv'
  BY <1>1, <1>2 DEF SourceInv, UpdatesInv, UpdateOk
<1>4. /\ IsSeq(pending') /\ Len(pending) \in Nat \ {0} /\ DOMAIN pending = 1..Len(pending)
      /\ DOMAIN pending' = 1..(Len(pending) - 1)
      /\ \A i \in 1..(Len(pending) - 1) : pending'[i] = pending[i + 1]
      /\ Head(pending) = pending[1]
  BY <1>1, <1>2, TailIsSeq DEF HeldInv
<1>5. \A g : GenOk(g)' <=> GenOk(g)
  BY <1>1 DEF GenOk, Generation
<1>6. ASSUME NEW i \in DOMAIN pending' PROVE GenOk(pending'[i].generation)
  <2>1. i + 1 \in DOMAIN pending /\ pending'[i] = pending[i + 1]
    BY <1>4
  <2> QED
    BY <1>2, <2>1 DEF HeldInv
<1>7. GenOk(current')
  <2>1. 1 \in DOMAIN pending
    BY <1>4
  <2> QED
    BY <1>1, <1>2, <1>4, <2>1 DEF HeldInv
<1>8. current' # None
  BY <1>2, <1>7, GenIsGeneration
<1>9. previous' # None => GenOk(previous')
  BY <1>1, <1>2 DEF HeldInv
<1>10. HeldInv'
  BY <1>1, <1>4, <1>6, <1>7, <1>8, <1>9 DEF HeldInv, GenOk, Generation
<1>11. Kept /\ Kept'
  <2>1. (SourceInv /\ HeldInv => Kept)'
    BY HeldKept, PTL
  <2> QED
    BY <1>2, <1>3, <1>10, <2>1, HeldKept
<1>12. Line = One(previous) \o Line'
  BY <1>1, <1>11, LinePublished
<1>13. One(previous) \in Seq(Gens) /\ Line' \in Seq(Gens)
  <2>1. (Kept => LineShape)'
    BY LineParts, PTL
  <2> QED
    BY <1>11, <2>1, LineParts DEF LineShape
<1>14. Forward(Line) /\ Retires(Line, retired)
  BY DEF StoreInv
<1>15. Forward(Line') /\ Retires(Line', retired)
  BY <1>12, <1>13, <1>14, ForwardSuffix
<1> QED
  BY <1>1, <1>3, <1>10, <1>15 DEF StoreInv

LEMMA StoreInit == Init => StoreInv
<1> SUFFICES ASSUME Init PROVE StoreInv
  OBVIOUS
<1>1. PICK tree \in Catalogue : versions = <<Version(1, 1, 1, tree)>>
  BY DEF Init
<1> DEFINE v == Version(1, 1, 1, tree)
<1>2. /\ v.runtime = 1 /\ v.epoch = 1 /\ v.revision = 1 /\ v.graph \in Graphs
  BY DEF Version, Graphs
<1>3. /\ versions \in Seq({v}) /\ Len(versions) = 1 /\ DOMAIN versions = 1..1
      /\ versions[1] = v
  <2> HIDE DEF v
  <2>1. versions = <<v>>
    BY <1>1 DEF v
  <2> QED
    BY <2>1
<1> HIDE DEF v
<1>4. SourceInv
  BY <1>2, <1>3, SeqIs, BoundsAssumption DEF SourceInv
<1>5. IsSeq(queue) /\ \A i \in DOMAIN queue : UpdateOk(queue[i])
  <2> DEFINE u == Update("snapshot", 1, 1, TRUE)
  <2>1. u.kind = "snapshot" /\ u.version = 1
    BY DEF Update
  <2>3. queue \in {<<>>, <<u>>}
    BY DEF Init
  <2> HIDE DEF u
  <2>2. UpdateOk(u)
    BY <1>3, <2>1 DEF UpdateOk
  <2>4. CASE queue = <<>>
    BY <2>4 DEF IsSeq
  <2>5. CASE queue = <<u>>
    <3>1. queue \in Seq({u}) /\ DOMAIN queue = 1..1 /\ queue[1] = u
      BY <2>5
    <3> QED
      BY <2>2, <3>1, SeqIs
  <2> QED
    BY <2>3, <2>4, <2>5
<1>6. \A t \in Threads : thread[t].pc # "apply"
  BY DEF Init
<1>7. UpdatesInv
  BY <1>5, <1>6 DEF UpdatesInv
<1>8. HeldInv
  BY DEF Init, HeldInv, IsSeq
<1>9. Line = <<>>
  <2>1. Kept
    BY <1>4, <1>8, HeldKept
  <2>2. staged_generation = None
    BY DEF Init, staged_generation
  <2> QED
    BY <2>1, <2>2, LineEnds
<1>10. Forward(Line) /\ Retires(Line, retired)
  BY <1>9 DEF Forward, Retires
<1> QED
  BY <1>4, <1>7, <1>8, <1>10 DEF StoreInv

LEMMA StoreNext == ThreadsOk /\ StoreInv /\ [Next]_vars => StoreInv'
<1> SUFFICES ASSUME ThreadsOk, StoreInv, [Next]_vars PROVE StoreInv'
  OBVIOUS
<1>1. CASE UNCHANGED <<versions, queue, current, previous, pending, retired, thread>>
  <2>1. IsSeq(queue') /\ \A i \in DOMAIN queue' : UpdateOk(queue'[i])
    BY <1>1 DEF StoreInv, UpdatesInv
  <2>2. \A o \in Threads : thread'[o].pc = "apply" => UpdateOk(thread'[o].held)
    BY <1>1 DEF StoreInv, UpdatesInv
  <2> QED
    BY <1>1, <2>1, <2>2, StoreKeeps
<1>2. CASE SourceChange
  <2>1. SourceInv' /\ UpdatesInv' /\ Grows
    BY <1>2, SourceChanges DEF StoreInv
  <2>2. UNCHANGED <<current, previous, pending, retired>>
    BY <1>2 DEF SourceChange, store
  <2>3. HeldInv'
    <3>1. \A g : GenOk(g) => GenOk(g)'
      BY <2>1, GenStays
    <3>2. \A i \in DOMAIN pending' : GenOk(pending[i].generation)'
      <4> SUFFICES ASSUME NEW i \in DOMAIN pending PROVE GenOk(pending[i].generation)'
        BY <2>2
      <4>1. PICK g : g = pending[i].generation
        OBVIOUS
      <4>2. GenOk(g)'
        BY <3>1, <4>1 DEF StoreInv, HeldInv
      <4>3. g = pending'[i].generation
        BY <2>2, <4>1
      <4> QED
        BY <4>2, <4>3 DEF GenOk
    <3>3. current' # None => GenOk(current)'
      <4>1. PICK g : g = current
        OBVIOUS
      <4>2. current # None => GenOk(g)'
        BY <3>1, <4>1 DEF StoreInv, HeldInv
      <4> QED
        BY <2>2, <4>1, <4>2 DEF GenOk
    <3>4. previous' # None => GenOk(previous)' /\ current' # None
      <4>1. PICK g : g = previous
        OBVIOUS
      <4>2. previous # None => GenOk(g)' /\ current # None
        BY <3>1, <4>1 DEF StoreInv, HeldInv
      <4> QED
        BY <2>2, <4>1, <4>2 DEF GenOk
    <3>5. IsSeq(pending')
      BY <2>2 DEF StoreInv, HeldInv
    <3> QED
      BY <3>2, <3>3, <3>4, <3>5 DEF HeldInv
  <2>4. Line' = Line
    BY <2>2 DEF Line
  <2> QED
    BY <2>1, <2>2, <2>3, <2>4 DEF StoreInv
<1>3. CASE NothingQueued
  <2>1. PICK x : Moved(Starter, x) /\ x.pc # "apply"
    BY <1>3, StarterMoves
  <2>2. UNCHANGED <<versions, queue, current, previous, pending, retired>>
    BY <1>3 DEF NothingQueued, source, store
  <2>3. Starter \in Threads
    BY DEF Threads
  <2> QED
    BY <2>1, <2>2, <2>3, ThreadKeeps
<1>4. CASE Prime
  BY <1>4, StoreTakes DEF Prime, Threads
<1>5. ASSUME NEW t \in Resyncers, resync(t) PROVE StoreInv'
  BY <1>5, StoreTakes DEF resync, Threads
<1>6. ASSUME NEW t \in Threads, NextUpdate(t) PROVE StoreInv'
  BY <1>6, StoreNextUpdate
<1>7. ASSUME NEW t \in Threads, ApplyRefused(t) \/ ApplyGap(t) PROVE StoreInv'
  <2>1. UNCHANGED <<versions, queue, current, previous, pending, retired>>
    BY <1>7 DEF ApplyRefused, ApplyGap, source, store
  <2>2. Moved(t, Answered(t, FALSE)) /\ Answered(t, FALSE).pc # "apply"
    BY <1>7, RefusedMoves
  <2> QED
    BY <2>1, <2>2, ThreadKeeps
<1>8. ASSUME NEW t \in Threads, ApplyStaged(t) PROVE StoreInv'
  BY <1>8, StoreStages
<1>9. ASSUME NEW t \in Threads, PublishNext(t) PROVE StoreInv'
  BY <1>9, StorePublishes
<1>10. ASSUME NEW t \in Threads, PublishDone(t) PROVE StoreInv'
  <2>1. UNCHANGED <<versions, queue, current, previous, pending, retired>>
    BY <1>10 DEF PublishDone, source
  <2>2. Moved(t, Answered(t, TRUE)) /\ Answered(t, TRUE).pc # "apply"
    BY <1>10, DoneMoves
  <2> QED
    BY <2>1, <2>2, ThreadKeeps
<1>11. ASSUME NEW t \in Threads, Deliver(t) PROVE StoreInv'
  BY <1>1, <1>11 DEF Deliver, source, store
<1>12. CASE UNCHANGED vars
  BY <1>1, <1>12 DEF vars, source, store
<1> QED
  BY <1>2, <1>3, <1>4, <1>5, <1>6, <1>7, <1>8, <1>9, <1>10, <1>11, <1>12
  DEF Next, ThreadStep

LEMMA StoreInvariance == Spec => []StoreInv
<1>1. PublisherInv => ThreadsOk
  BY DEF PublisherInv
<1> QED
  BY <1>1, PublisherInvariance, StoreInit, StoreNext, PTL DEF Spec

\* What readers of the store may see is a tree the source had, a forest, and never an
\* older one than before: for any trees the source may show, any number of threads that
\* feed the store, and any updates lost, late or repeated (TreeStore::apply()).
THEOREM StoreNeverMixes == Spec => []StoreSound
<1>1. StoreInv => StoreSound
  <2> SUFFICES ASSUME StoreInv PROVE StoreSound
    OBVIOUS
  <2>1. SourceInv /\ HeldInv
    BY DEF StoreInv
  <2>2. \A g \in Generations : GenOk(g)
    BY <2>1 DEF Generations, HeldInv, ToSet
  <2>3. ASSUME NEW g \in Generations
        PROVE  /\ \E v \in ToSet(versions) :
                    v.runtime = g.runtime /\ v.epoch = g.epoch /\ v.revision = g.revision
                    /\ v.graph = g.graph
               /\ \A S \in (SUBSET Nodes(g.graph)) \ {{}} :
                    \E n \in S : Parents(g.graph, n) \cap S = {}
    <3>1. PICK w \in DOMAIN versions : g = Generation(w, versions[w].graph)
      BY <2>2 DEF GenOk
    <3>2. /\ g.runtime = versions[w].runtime /\ g.epoch = versions[w].epoch
          /\ g.revision = versions[w].revision /\ g.graph = versions[w].graph
      BY <2>1, <3>1, GenShape
    <3>3. versions[w] \in ToSet(versions)
      BY <3>1 DEF ToSet
    <3>4. Forest(g.graph)
      BY <2>2 DEF GenOk
    <3> QED
      BY <3>2, <3>3, <3>4 DEF Forest
  <2>4. StoreIsReplica
    BY <2>3 DEF StoreIsReplica
  <2>5. ForwardOnly
    BY DEF StoreInv, Forward, ForwardOnly
  <2> QED
    BY <2>4, <2>5 DEF StoreSound
<1> QED
  BY <1>1, StoreInvariance, PTL
=============================================================================
