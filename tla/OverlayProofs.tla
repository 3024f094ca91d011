--------------------------- MODULE OverlayProofs ---------------------------
(***************************************************************************)
(* What the overlay promises, for every scene, every sequence of verbs,    *)
(* every screen and server: the delegate is the scene's replica, the       *)
(* screen follows it, and an edit session leaves nothing behind.           *)
(*                                                                         *)
(* A handler is a function of the world (OverlayDelegate), put together    *)
(* from smaller ones, so the proof is about what such a function keeps,    *)
(* and what it keeps is closed under composition:                          *)
(*   Serves    the delegate alone: in step it stays, or is known not to be;*)
(*             its window shows the records or a frame is due; it takes no *)
(*             grab and no region                                          *)
(*   Tracks    the same for its event loop, which leaves the scene alone   *)
(*   Minds     requests for input: what is on the server has an owner      *)
(*   Tends     handlers in which a drag may begin or end                   *)
(*   Answers   the same, and no report is left untold                      *)
(* The loops are folds; FoldProofs carries the relation through them.      *)
(*                                                                         *)
(* OverlayInv is what holds between two handlers.  It adds to the three    *)
(* properties: a delegate that the service trusts holds the records even   *)
(* when it is not in step (InStep); the frame on the screen was one of the *)
(* present records at some earlier time (Shown); a deadline still ahead    *)
(* when the last wakeup was looked for has one (Woken); only a window with *)
(* nothing on it may still have the shape X gave it, and one the server    *)
(* has no id for has none (NoWindow); the delegate knows of every grab,    *)
(* and the session of its region before it is set (Claims); a drag belongs *)
(* to a live session (SessOk).  One refused request is made up for by the  *)
(* second stop(), except on a bogus window, whose session is kept (Tries). *)
(***************************************************************************)
EXTENDS OverlayService, SequenceTheorems, FiniteSetTheorems, WellFoundedInduction, TLAPS

-----------------------------------------------------------------------------
(* Expired shapes in the order of their deadlines.                         *)

IsSeq(q) == \E S : q \in Seq(S)

\* A sequence is the function of its items.
LEMMA IsSeqFacts ==
    ASSUME NEW q, IsSeq(q)
    PROVE  Len(q) \in Nat /\ DOMAIN q = 1 .. Len(q) /\ q = [i \in 1 .. Len(q) |-> q[i]]
BY DEF IsSeq

\* Append() keeps the items and adds one behind them.
LEMMA IsSeqAppend ==
    ASSUME NEW q, IsSeq(q), NEW e
    PROVE  /\ IsSeq(Append(q, e))
           /\ Len(Append(q, e)) = Len(q) + 1
           /\ \A i \in 1 .. Len(q) : Append(q, e)[i] = q[i]
           /\ Append(q, e)[Len(q) + 1] = e
<1>1. PICK S : q \in Seq(S)
  BY DEF IsSeq
<1>2. q \in Seq(S \cup {e}) /\ e \in S \cup {e}
  BY <1>1
<1>3. Append(q, e) \in Seq(S \cup {e})
  BY <1>2
<1> QED
  BY <1>2, <1>3 DEF IsSeq

\* A set of naturals has a least member.
LEMMA LeastNatural ==
    ASSUME NEW T \in SUBSET Nat, T # {}
    PROVE  \E k \in T : \A y \in T : k <= y
<1> DEFINE Less == {ss \in Nat \X Nat : ss[1] < ss[2]}
<1>1. OpToRel(<, Nat) = Less
  BY Zenon DEF OpToRel
<1>2. IsWellFoundedOn(Less, Nat)
  BY <1>1, NatLessThanWellFounded, Zenon
<1> HIDE DEF Less
<1>3. PICK k \in T : \A y \in T : ~(<<y, k>> \in Less)
  BY <1>2, WFMin
<1>4. ASSUME NEW y \in T PROVE k <= y
  <2>1. k \in Nat /\ y \in Nat /\ ~(<<y, k>> \in Less)
    BY <1>3
  <2>2. ~(y < k)
    BY <2>1 DEF Less
  <2> QED
    BY <2>1, <2>2
<1> QED
  BY <1>4

\* A bounded set of naturals has a greatest member.
LEMMA GreatestNatural ==
    ASSUME NEW T \in SUBSET Nat, T # {}, NEW b \in Nat, \A y \in T : y <= b
    PROVE  \E k \in T : \A y \in T : y <= k
<1> DEFINE Gaps == {b - y : y \in T}
<1>1. Gaps \in SUBSET Nat /\ Gaps # {}
  <2>1. \A y \in T : b - y \in Nat
    OBVIOUS
  <2> QED
    BY <2>1
<1>2. PICK g \in Gaps : \A y \in Gaps : g <= y
  BY <1>1, LeastNatural
<1>3. PICK k \in T : g = b - k
  BY <1>2
<1>4. ASSUME NEW y \in T PROVE y <= k
  <2>1. b - y \in Gaps
    OBVIOUS
  <2>2. b - k <= b - y
    BY <2>1, <1>2, <1>3
  <2>3. b \in Int /\ k \in Int /\ y \in Int
    BY <1>3
  <2> HIDE DEF Gaps
  <2> QED
    BY <2>2, <2>3
<1> QED
  BY <1>4

\* Ids whose deadlines and slots are bounded numbers, no two of one slot.
Bounded(live, T, b) ==
    /\ \A id \in T : /\ Deadline(live[id]) \in Nat /\ Deadline(live[id]) <= b
                     /\ id[2] \in Nat /\ id[2] <= b
    /\ \A i, k \in T : i[2] = k[2] => i = k

Sorted(live, q) == \A i, j \in DOMAIN q : i < j => Before(live, q[i], q[j])

\* Among shapes whose deadlines are bounded one comes last in deadline_less.
LEMMA LastOf ==
    ASSUME NEW live, NEW T, NEW b \in Nat, Bounded(live, T, b), T # {}
    PROVE  \E m \in T : \A a \in T \ {m} : Before(live, a, m)
<1> DEFINE dl(id) == Deadline(live[id])
           Dls == {dl(id) : id \in T}
<1>1. Dls \in SUBSET Nat /\ Dls # {} /\ \A y \in Dls : y <= b
  BY DEF Bounded
<1>2. PICK d \in Dls : \A y \in Dls : y <= d
  <2> HIDE DEF Dls
  <2> QED
    BY <1>1, GreatestNatural
<1> DEFINE Latest == {id \in T : dl(id) = d}
           Slots  == {id[2] : id \in Latest}
<1>3. Slots \in SUBSET Nat /\ Slots # {} /\ \A y \in Slots : y <= b
  BY <1>2 DEF Bounded
<1>4. PICK s \in Slots : \A y \in Slots : y <= s
  <2> HIDE DEF Slots
  <2> QED
    BY <1>3, GreatestNatural
<1>5. PICK m \in T : dl(m) = d /\ m[2] = s
  BY <1>4
<1>6. ASSUME NEW a \in T \ {m} PROVE Before(live, a, m)
  <2>1. dl(a) \in Nat /\ d \in Nat /\ a[2] \in Nat /\ s \in Nat /\ a[2] # s
    BY <1>5, <1>1, <1>2, <1>3, <1>4 DEF Bounded
  <2>2. dl(a) <= d
    BY <1>2
  <2>3. dl(a) = d => a[2] <= s
    BY <1>4
  <2> QED
    BY <2>1, <2>2, <2>3, <1>5 DEF Before
<1> QED
  BY <1>6

\* So the deadlines can be sorted, which is what Expired chooses.
LEMMA SortedExists ==
    ASSUME NEW live, NEW b \in Nat
    PROVE  \A n \in Nat : \A T :
               IsFiniteSet(T) /\ Cardinality(T) = n /\ Bounded(live, T, b)
                   => \E q \in SetToSeqs(T) : Sorted(live, q)
<1> DEFINE Good(T) == \E q \in SetToSeqs(T) : Sorted(live, q)
           Fit(n, T) == IsFiniteSet(T) /\ Cardinality(T) = n /\ Bounded(live, T, b)
           Bad == {n \in Nat : \E T : Fit(n, T) /\ ~Good(T)}
<1> SUFFICES ASSUME Bad # {} PROVE FALSE
  OBVIOUS
<1>1. PICK n \in Bad : \A m \in Bad : n <= m
  <2>1. Bad \in SUBSET Nat
    OBVIOUS
  <2> HIDE DEF Bad
  <2> QED
    BY <2>1, LeastNatural
<1>2. PICK T : Fit(n, T) /\ ~Good(T)
  BY <1>1
<1>3. CASE T = {}
  <2> DEFINE q == [i \in 1 .. 0 |-> i]
  <2>1. Cardinality(T) = 0 /\ T = {}
    BY <1>3, FS_EmptySet
  <2>2. q \in [1 .. 0 -> T] /\ \A i \in 1 .. 0 : FALSE
    OBVIOUS
  <2>3. q \in SetToSeqs(T)
    BY <2>1, <2>2 DEF SetToSeqs
  <2>4. Sorted(live, q)
    BY <2>2 DEF Sorted
  <2> QED
    BY <2>3, <2>4, <1>2
<1>4. CASE T # {}
  <2>1. PICK m \in T : \A a \in T \ {m} : Before(live, a, m)
    BY <1>4, <1>2, LastOf
  <2> DEFINE U == T \ {m}
  <2>2. IsFiniteSet(U) /\ Cardinality(U) = n - 1 /\ n - 1 \in Nat
    <3>1. IsFiniteSet(U) /\ Cardinality(U) = Cardinality(T) - 1
      BY <1>2, <2>1, FS_RemoveElement
    <3>2. Cardinality(U) \in Nat
      BY <3>1, FS_CardinalityType
    <3> QED
      BY <3>1, <3>2, <1>2
  <2>3. Bounded(live, U, b)
    BY <1>2 DEF Bounded
  <2>4. n - 1 \notin Bad
    BY <1>1, <2>2
  <2>5. PICK q \in SetToSeqs(U) : Sorted(live, q)
    BY <2>2, <2>3, <2>4
  <2>6. /\ q \in [1 .. (n - 1) -> U]
        /\ \A i, j \in 1 .. (n - 1) : i # j => q[i] # q[j]
    BY <2>2, <2>5 DEF SetToSeqs
  <2> DEFINE r == [i \in 1 .. n |-> IF i = n THEN m ELSE q[i]]
  <2> HIDE DEF Bad, U
  <2>7. n \in Nat /\ \A i \in 1 .. n : i # n => i \in 1 .. (n - 1) /\ r[i] = q[i] /\ q[i] \in U
    BY <1>1, <2>2, <2>6 DEF Bad
  <2>8. n \in 1 .. n => r[n] = m
    OBVIOUS
  <2>9. DOMAIN r = 1 .. n /\ DOMAIN q = 1 .. (n - 1)
    BY <2>6
  <2>10. \A i \in 1 .. n : r[i] \in T
    BY <2>1, <2>7, <2>8 DEF U
  <2>11. \A i, j \in 1 .. n : i # j => r[i] # r[j]
    BY <2>6, <2>7, <2>8 DEF U
  <2>12. r \in SetToSeqs(T)
    <3>1. r \in [1 .. n -> T]
      BY <2>9, <2>10
    <3> HIDE DEF r
    <3> QED
      BY <3>1, <2>11, <1>2 DEF SetToSeqs
  <2>13. Sorted(live, r)
    <3> SUFFICES ASSUME NEW i \in 1 .. n, NEW j \in 1 .. n, i < j
                 PROVE  Before(live, r[i], r[j])
      BY <2>9 DEF Sorted
    <3>1. i # n /\ i \in 1 .. (n - 1) /\ r[i] = q[i] /\ r[i] \in U
      BY <2>7
    <3>2. CASE j = n
      BY <3>1, <3>2, <2>8, <2>1 DEF U
    <3>3. CASE j # n
      <4>1. j \in 1 .. (n - 1) /\ r[j] = q[j]
        BY <2>7, <3>3
      <4> HIDE DEF r
      <4> QED
        BY <3>1, <4>1, <2>5, <2>9 DEF Sorted
    <3> QED
      BY <3>2, <3>3
  <2> QED
    BY <2>12, <2>13, <1>2
<1> QED
  BY <1>3, <1>4

-----------------------------------------------------------------------------
(* The scene and the stream of its deltas.                                 *)

SceneFields == {"epoch", "revision", "next", "live", "pending"}

IsDelta(d, t) ==
    /\ d.op \in {"upsert", "remove", "clear"} /\ d.epoch \in Nat /\ d.revision \in Nat
    /\ d.op = "upsert" => d.rec.start \in Nat /\ d.rec.start <= t

\* A scene at time t: an id is an epoch and a slot, the present epoch and a slot given out.
IsScene(s, t) ==
    /\ DOMAIN s = SceneFields
    /\ s.epoch \in Nat /\ s.revision \in Nat /\ s.next \in Nat
    /\ IsSeq(s.pending)
    /\ \A i \in 1 .. Len(s.pending) : IsDelta(s.pending[i], t)
    /\ s.live = [id \in DOMAIN s.live |-> s.live[id]]
    /\ IsFiniteSet(DOMAIN s.live)
    /\ \A id \in DOMAIN s.live :
          /\ id \in Nat \X Nat /\ id[1] = s.epoch /\ id[2] < s.next
          /\ s.live[id].start \in Nat /\ s.live[id].start <= t

View(s) == [epoch |-> s.epoch, revision |-> s.revision, live |-> s.live]

\* Delta d leads from view a to view b.
Follows(a, b, d) ==
    /\ d.epoch = b.epoch /\ d.revision = b.revision
    /\ \/ d.op = "clear" /\ b.live = <<>> /\ b.revision = 1 /\ b.epoch # a.epoch
       \/ d.op = "upsert" /\ b.live = Put(a.live, d.id, d.rec)
              /\ b.epoch = a.epoch /\ b.revision = a.revision + 1
       \/ d.op = "remove" /\ b.live = Drop(a.live, d.id)
              /\ b.epoch = a.epoch /\ b.revision = a.revision + 1

\* The pending deltas of s lead, one after the other, from view a to that of s.
Path(a, s, h) ==
    /\ h[0] = a /\ h[Len(s.pending)] = View(s)
    /\ \A i \in 1 .. Len(s.pending) : Follows(h[i - 1], h[i], s.pending[i])

Leads(a, s) == \E h : Path(a, s, h)

\* One more delta leads one view further.
LEMMA LeadsOn ==
    ASSUME NEW a, NEW s, NEW r, NEW d, Leads(a, s), IsSeq(s.pending),
           r.pending = Append(s.pending, d), Follows(View(s), View(r), d)
    PROVE  Leads(a, r)
<1>1. PICK h : Path(a, s, h)
  BY DEF Leads
<1> DEFINE n == Len(s.pending)
           g == [i \in 0 .. (n + 1) |-> IF i = n + 1 THEN View(r) ELSE h[i]]
<1>2. /\ n \in Nat /\ Len(r.pending) = n + 1
      /\ \A i \in 1 .. n : r.pending[i] = s.pending[i]
      /\ r.pending[n + 1] = d
  BY IsSeqAppend, IsSeqFacts
<1>3. h[0] = a /\ h[n] = View(s) /\ \A i \in 1 .. n : Follows(h[i - 1], h[i], s.pending[i])
  BY <1>1 DEF Path
<1> HIDE DEF n
<1>4. g[n + 1] = View(r) /\ \A i \in 0 .. n : g[i] = h[i]
  BY <1>2
<1>5. g[0] = a
  BY <1>2, <1>3, <1>4
<1> HIDE DEF g
<1>6. ASSUME NEW i \in 1 .. (n + 1) PROVE Follows(g[i - 1], g[i], r.pending[i])
  <2>1. CASE i = n + 1
    <3>1. g[i - 1] = View(s) /\ g[i] = View(r) /\ r.pending[i] = d
      BY <2>1, <1>2, <1>3, <1>4
    <3> QED
      BY <3>1
  <2>2. CASE i # n + 1
    <3>1. i \in 1 .. n /\ i \in 0 .. n /\ i - 1 \in 0 .. n
      BY <2>2, <1>2
    <3>2. g[i - 1] = h[i - 1] /\ g[i] = h[i] /\ r.pending[i] = s.pending[i]
      BY <3>1, <1>2, <1>4
    <3> QED
      BY <3>1, <3>2, <1>3
  <2> QED
    BY <2>1, <2>2
<1> QED
  BY <1>2, <1>4, <1>5, <1>6 DEF Leads, Path

\* Appending a delta to deltas gives deltas.
LEMMA DeltaQueued ==
    ASSUME NEW q, NEW d, NEW t, IsSeq(q), \A i \in 1 .. Len(q) : IsDelta(q[i], t),
           IsDelta(d, t)
    PROVE  /\ IsSeq(Append(q, d))
           /\ \A i \in 1 .. Len(Append(q, d)) : IsDelta(Append(q, d)[i], t)
<1>1. /\ IsSeq(Append(q, d)) /\ Len(Append(q, d)) = Len(q) + 1 /\ Len(q) \in Nat
      /\ \A i \in 1 .. Len(q) : Append(q, d)[i] = q[i]
      /\ Append(q, d)[Len(q) + 1] = d
  BY IsSeqAppend, IsSeqFacts
<1>2. ASSUME NEW i \in 1 .. (Len(q) + 1) PROVE IsDelta(Append(q, d)[i], t)
  <2>1. i = Len(q) + 1 \/ i \in 1 .. Len(q)
    BY <1>1
  <2> QED
    BY <2>1, <1>1
<1> QED
  BY <1>1, <1>2

\* A scene without pending deltas leads from its view to itself.
LEMMA LeadsStart ==
    ASSUME NEW s, s.pending = <<>>
    PROVE  Leads(View(s), s)
<1> DEFINE h == [i \in 0 .. 0 |-> View(s)]
<1>1. Len(s.pending) = 0 /\ h[0] = View(s)
  OBVIOUS
<1>2. Path(View(s), s, h)
  BY <1>1 DEF Path
<1> QED
  BY <1>2 DEF Leads

\* The id of a shape is put or removed, and the change is queued.
LEMMA QueueUpsertOk ==
    ASSUME NEW s, NEW t \in Nat, NEW id, NEW rec, NEW a, IsScene(s, t), Leads(a, s),
           id \in Nat \X Nat, id[1] = s.epoch, id[2] < s.next,
           rec.start \in Nat, rec.start <= t
    PROVE  /\ IsScene(QueueUpsert(s, id, rec), t)
           /\ Leads(a, QueueUpsert(s, id, rec))
           /\ QueueUpsert(s, id, rec).live = Put(s.live, id, rec)
           /\ QueueUpsert(s, id, rec).next = s.next
           /\ QueueUpsert(s, id, rec).epoch = s.epoch
<1> DEFINE r == QueueUpsert(s, id, rec)
           d == Delta(s.epoch, s.revision + 1, "upsert", id, rec)
           f == Put(s.live, id, rec)
<1>1. /\ DOMAIN r = SceneFields /\ r.pending = Append(s.pending, d)
      /\ r.live = f /\ r.next = s.next /\ r.epoch = s.epoch
      /\ r.revision = s.revision + 1
  BY DEF QueueUpsert, QueueChange, IsScene, SceneFields
<1>2. /\ DOMAIN f = DOMAIN s.live \cup {id}
      /\ \A k \in DOMAIN f : f[k] = IF k = id THEN rec ELSE s.live[k]
  BY DEF Put
<1>3. f = [k \in DOMAIN f |-> f[k]]
  BY DEF Put
<1>4. IsFiniteSet(DOMAIN f)
  BY <1>2, FS_AddElement DEF IsScene
<1>5. IsSeq(r.pending) /\ \A i \in 1 .. Len(r.pending) : IsDelta(r.pending[i], t)
  <2>1. IsDelta(d, t)
    BY DEF IsDelta, Delta, IsScene
  <2> HIDE DEF d
  <2> QED
    BY <1>1, <2>1, DeltaQueued, SMTT(20) DEF IsScene
<1> HIDE DEF r, f
<1>6. IsScene(r, t)
  BY <1>1, <1>2, <1>3, <1>4, <1>5, SMTT(20) DEF IsScene
<1>7. Follows(View(s), View(r), d)
  BY <1>1 DEF Follows, View, Delta, f
<1> HIDE DEF d
<1>8. Leads(a, r)
  BY <1>1, <1>7, LeadsOn DEF IsScene
<1> QED
  BY <1>1, <1>6, <1>8 DEF r, f

\* queue_change(Remove) takes one shape away and queues the delta that says so.
LEMMA QueueRemoveOk ==
    ASSUME NEW s, NEW t \in Nat, NEW id, NEW a, IsScene(s, t), Leads(a, s)
    PROVE  /\ IsScene(QueueRemove(s, id), t)
           /\ Leads(a, QueueRemove(s, id))
           /\ QueueRemove(s, id).live = Drop(s.live, id)
           /\ QueueRemove(s, id).next = s.next
           /\ QueueRemove(s, id).epoch = s.epoch
<1> DEFINE r == QueueRemove(s, id)
           d == Delta(s.epoch, s.revision + 1, "remove", id, None)
           f == Drop(s.live, id)
<1>1. /\ DOMAIN r = SceneFields /\ r.pending = Append(s.pending, d)
      /\ r.live = f /\ r.next = s.next /\ r.epoch = s.epoch
      /\ r.revision = s.revision + 1
  BY DEF QueueRemove, QueueChange, IsScene, SceneFields
<1>2. /\ DOMAIN f = DOMAIN s.live \ {id}
      /\ \A k \in DOMAIN f : f[k] = s.live[k]
  BY DEF Drop, Restrict
<1>3. f = [k \in DOMAIN f |-> f[k]]
  BY DEF Drop, Restrict
<1>4. IsFiniteSet(DOMAIN f)
  BY <1>2, FS_Subset DEF IsScene
<1>5. IsSeq(r.pending) /\ \A i \in 1 .. Len(r.pending) : IsDelta(r.pending[i], t)
  <2>1. IsDelta(d, t)
    BY DEF IsDelta, Delta, IsScene
  <2> HIDE DEF d
  <2> QED
    BY <1>1, <2>1, DeltaQueued DEF IsScene
<1> HIDE DEF r, f
<1>6. IsScene(r, t)
  BY <1>1, <1>2, <1>3, <1>4, <1>5 DEF IsScene
<1>7. Follows(View(s), View(r), d)
  BY <1>1 DEF Follows, View, Delta, f
<1> HIDE DEF d
<1>8. Leads(a, r)
  BY <1>1, <1>7, LeadsOn DEF IsScene
<1> QED
  BY <1>1, <1>6, <1>8 DEF r, f

\* What drain_expired() has done after i removals; c is the scene it began with, the view
\* whose followers it tells, and the time.
Removing(c, i, v) ==
    /\ IsScene(v, c.at) /\ Leads(c.seen, v)
    /\ v.next = c.from.next /\ v.epoch = c.from.epoch
    /\ v.live = Restrict(c.from.live,
                    DOMAIN c.from.live \ {Expired(c.from, c.at)[j] : j \in 1 .. i})

RemoveFold == INSTANCE FoldProofs WITH Op <- QueueRemove, Kept <- Removing

\* The fold of drain_expired is the one FoldProofs is about.
LEMMA RemoveFoldIs ==
    ASSUME NEW b, NEW q
    PROVE  FoldLeft(QueueRemove, b, q) = RemoveFold!FoldLeft(QueueRemove, b, q)
BY Zenon DEF FoldLeft, RemoveFold!FoldLeft, MapThenFoldSet, RemoveFold!MapThenFoldSet,
             Max, RemoveFold!Max

Due(s, t) == {id \in DOMAIN s.live : Deadline(s.live[id]) <= t}

\* Expired lists what is due, each shape once.
LEMMA ExpiredOk ==
    ASSUME NEW s, NEW t \in Nat, IsScene(s, t)
    PROVE  /\ Len(Expired(s, t)) \in Nat
           /\ Expired(s, t) = [i \in 1 .. Len(Expired(s, t)) |-> Expired(s, t)[i]]
           /\ {Expired(s, t)[i] : i \in 1 .. Len(Expired(s, t))} = Due(s, t)
<1> DEFINE T == Due(s, t)
           b == t + s.next
           q == Expired(s, t)
<1>1. IsFiniteSet(T) /\ Cardinality(T) \in Nat
  BY FS_Subset, FS_CardinalityType DEF IsScene, Due
<1>2. Bounded(s.live, T, b) /\ b \in Nat
  <2>1. b \in Nat /\ s.next \in Nat
    BY DEF IsScene
  <2>2. ASSUME NEW id \in T
        PROVE  /\ Deadline(s.live[id]) \in Nat /\ Deadline(s.live[id]) <= b
               /\ id[2] \in Nat /\ id[2] <= b /\ id = <<s.epoch, id[2]>>
    <3>1. Deadline(s.live[id]) \in Nat
      BY OverlayAssumption, SMTT(20) DEF Deadline, IsScene, Due, Never
    <3>2. id \in Nat \X Nat /\ id[1] = s.epoch /\ id[2] < s.next
          /\ Deadline(s.live[id]) <= t
      BY DEF IsScene, Due
    <3> QED
      BY <3>1, <3>2, <2>1
  <2> QED
    BY <2>1, <2>2 DEF Bounded
<1> HIDE DEF T, b
<1>3. \E p \in SetToSeqs(T) : Sorted(s.live, p)
  BY <1>1, <1>2, SortedExists
<1>4. q = CHOOSE p \in SetToSeqs(T) : Sorted(s.live, p)
  BY Zenon DEF Expired, Sorted, T, Due
<1> HIDE DEF q
<1>5. q \in SetToSeqs(T)
  BY <1>3, <1>4, Zenon
<1> DEFINE n == Cardinality(T)
<1>6. q \in [1 .. n -> T] /\ \A i, j \in 1 .. n : i # j => q[i] # q[j]
  BY <1>5 DEF SetToSeqs
<1>7. Len(q) = n /\ q = [i \in 1 .. n |-> q[i]]
  <2>1. q \in Seq(T)
    BY <1>1, <1>6
  <2> QED
    BY <2>1, <1>6, <1>1, LenProperties
<1>8. {q[i] : i \in 1 .. n} = T
  <2> DEFINE R == {q[i] : i \in 1 .. n}
  <2>1. R \in SUBSET T
    BY <1>6
  <2>2. q \in Bijection(1 .. n, R)
    BY <1>6 DEF Bijection, Injection, Surjection, IsInjective
  <2>3. IsFiniteSet(R)
    BY <2>1, <1>1, FS_Subset
  <2> HIDE DEF R, n
  <2>4. Cardinality(R) = n
    BY <2>2, <1>1, FS_CountingElements DEF ExistsBijection, n
  <2>5. R = T
    BY <2>1, <2>3, <2>4, <1>1, FS_Subset DEF n
  <2> QED
    BY <2>5 DEF R
<1> QED
  BY <1>1, <1>7, <1>8 DEF q, T

\* drain_expired() takes away exactly what is due, and its deltas tell all of it.
LEMMA DrainExpiredOk ==
    ASSUME NEW s, NEW t \in Nat, NEW a, IsScene(s, t), Leads(a, s)
    PROVE  /\ IsScene(DrainExpired(s, t), t)
           /\ Leads(a, DrainExpired(s, t))
           /\ DrainExpired(s, t).next = s.next /\ DrainExpired(s, t).epoch = s.epoch
           /\ DrainExpired(s, t).live = Restrict(s.live, DOMAIN s.live \ Due(s, t))
<1> DEFINE q == Expired(s, t)
           c == [from |-> s, seen |-> a, at |-> t]
<1>1. Len(q) \in Nat /\ q = [i \in 1 .. Len(q) |-> q[i]]
      /\ {q[i] : i \in 1 .. Len(q)} = Due(s, t)
  BY ExpiredOk
<1>2. Removing(c, 0, s)
  <2>1. DOMAIN s.live \ {Expired(s, t)[j] : j \in 1 .. 0} = DOMAIN s.live
    OBVIOUS
  <2>2. s.live = Restrict(s.live, DOMAIN s.live)
    BY DEF IsScene, Restrict
  <2> QED
    BY <2>1, <2>2 DEF Removing
<1> HIDE DEF q
<1>3. ASSUME NEW i \in 1 .. Len(q), NEW v, Removing(c, i - 1, v)
      PROVE  Removing(c, i, QueueRemove(v, q[i]))
  <2> DEFINE r == QueueRemove(v, q[i])
             G(k) == {q[j] : j \in 1 .. k}
  <2>1. /\ IsScene(v, t) /\ Leads(a, v) /\ v.next = s.next /\ v.epoch = s.epoch
        /\ v.live = Restrict(s.live, DOMAIN s.live \ G(i - 1))
    BY <1>3 DEF Removing, q
  <2>2. IsScene(r, t) /\ Leads(a, r) /\ r.live = Drop(v.live, q[i])
        /\ r.next = s.next /\ r.epoch = s.epoch
    BY <2>1, QueueRemoveOk
  <2> HIDE DEF r
  <2>3. G(i) = G(i - 1) \cup {q[i]}
    <3>1. i \in Int /\ 1 .. i = (1 .. (i - 1)) \cup {i}
      BY <1>1
    <3> QED
      BY <3>1
  <2> HIDE DEF G
  <2>4. Drop(v.live, q[i]) = Restrict(s.live, DOMAIN s.live \ G(i))
    BY <2>1, <2>3 DEF Drop, Restrict
  <2> QED
    BY <2>2, <2>4 DEF Removing, r, G, q
<1>4. Removing(c, Len(q), RemoveFold!FoldLeft(QueueRemove, s, q))
  <2> HIDE DEF c
  <2> QED
    BY <1>1, <1>2, <1>3, RemoveFold!FoldKeeps
<1>5. DrainExpired(s, t) = RemoveFold!FoldLeft(QueueRemove, s, q)
  BY RemoveFoldIs DEF DrainExpired, q
<1>6. Removing(c, Len(q), DrainExpired(s, t))
  BY <1>4, <1>5
<1> QED
  BY <1>1, <1>6 DEF Removing, q

\* After drain_expired() nothing that is due is left.
LEMMA DrainedLives ==
    ASSUME NEW s, NEW t \in Nat, IsScene(s, t), Leads(View(s), s)
    PROVE  \A id \in DOMAIN DrainExpired(s, t).live :
               ~(Deadline(DrainExpired(s, t).live[id]) <= t)
<1>1. DrainExpired(s, t).live = Restrict(s.live, DOMAIN s.live \ Due(s, t))
  BY DrainExpiredOk
<1> QED
  BY <1>1 DEF Restrict, Due

\* Each verb of a scene whose deltas have all been taken leaves a scene whose pending
\* deltas lead to it from where it was.
Led(s, r, t) == IsScene(r, t) /\ Leads(View(s), r)

AtRest(s, t) == IsScene(s, t) /\ s.pending = <<>>

\* drain_expired() after other changes of the same call.
LEMMA DrainLed ==
    ASSUME NEW s, NEW r, NEW t \in Nat, Led(s, r, t)
    PROVE  Led(s, DrainExpired(r, t), t)
BY DrainExpiredOk DEF Led

\* A call that changes nothing.
LEMMA RestLed ==
    ASSUME NEW s, NEW t \in Nat, AtRest(s, t)
    PROVE  Led(s, s, t)
BY LeadsStart DEF Led, AtRest

\* add(): its deltas lead a follower from the scene before to the scene after.
LEMMA AddLed ==
    ASSUME NEW s, NEW t \in Nat, NEW shape, AtRest(s, t)
    PROVE  Led(s, SceneAdd(s, shape, t), t)
<1> DEFINE d == DrainExpired(s, t)
           rec == [shape |-> shape, start |-> t]
           id == <<d.epoch, d.next>>
           n == [d EXCEPT !.next = @ + 1]
           u == QueueUpsert(d, id, rec)
           p == [u EXCEPT !.next = @ + 1]
<1>1. Led(s, d, t)
  BY RestLed, DrainLed
<1>2. SceneAdd(s, shape, t) = IF shape.kind = "invalid" THEN d ELSE DrainExpired(p, t)
  BY DEF SceneAdd
<1> HIDE DEF d
<1>3. IsScene(n, t) /\ Leads(View(s), n) /\ n.next = d.next + 1 /\ n.epoch = d.epoch
  <2>1. /\ DOMAIN n = SceneFields /\ n.next = d.next + 1 /\ n.epoch = d.epoch
        /\ n.revision = d.revision /\ n.live = d.live /\ n.pending = d.pending
    BY <1>1 DEF Led, IsScene, SceneFields
  <2> HIDE DEF n
  <2>2. IsScene(n, t)
    BY <2>1, <1>1 DEF Led, IsScene
  <2>3. View(n) = View(d)
    BY <2>1 DEF View
  <2>4. PICK h : Path(View(s), d, h)
    BY <1>1 DEF Led, Leads
  <2>5. Path(View(s), n, h)
    BY <2>4, <2>3, <2>1 DEF Path
  <2> QED
    BY <2>1, <2>2, <2>5 DEF Leads
<1>4. p = QueueUpsert(n, id, rec)
  <2>1. DOMAIN d = SceneFields
    BY <1>1 DEF Led, IsScene
  <2> QED
    BY <2>1, ZenonT(30) DEF QueueUpsert, QueueChange, SceneFields, Put, Delta
<1>5. id \in Nat \X Nat /\ id[1] = n.epoch /\ id[2] < n.next
      /\ rec.start \in Nat /\ rec.start <= t
  BY <1>1, <1>3 DEF Led, IsScene
<1> HIDE DEF n, id, rec, p
<1>6. Led(s, p, t)
  BY <1>3, <1>4, <1>5, QueueUpsertOk DEF Led
<1> QED
  BY <1>1, <1>2, <1>6, DrainLed

\* update(), likewise.
LEMMA UpdateLed ==
    ASSUME NEW s, NEW t \in Nat, NEW id, NEW shape, AtRest(s, t)
    PROVE  Led(s, SceneUpdate(s, id, shape, t), t)
<1> DEFINE d == DrainExpired(s, t)
           rec == [shape |-> shape, start |-> StartOf(d.live[id], shape, t)]
           u == QueueUpsert(d, id, rec)
<1>1. Led(s, d, t)
  BY RestLed, DrainLed
<1>2. SceneUpdate(s, id, shape, t) =
          IF id \notin DOMAIN d.live \/ shape.kind = "invalid" THEN d ELSE DrainExpired(u, t)
  BY DEF SceneUpdate
<1> HIDE DEF d
<1>3. ASSUME id \in DOMAIN d.live PROVE Led(s, u, t)
  <2>1. id \in Nat \X Nat /\ id[1] = d.epoch /\ id[2] < d.next
        /\ rec.start \in Nat /\ rec.start <= t
    BY <1>1, <1>3 DEF Led, IsScene, StartOf
  <2> HIDE DEF rec
  <2> QED
    BY <1>1, <2>1, QueueUpsertOk DEF Led
<1> HIDE DEF u
<1> QED
  BY <1>1, <1>2, <1>3, DrainLed

\* remove(), likewise.
LEMMA RemoveLed ==
    ASSUME NEW s, NEW t \in Nat, NEW id, AtRest(s, t)
    PROVE  Led(s, SceneRemove(s, id, t), t)
<1> DEFINE d == DrainExpired(s, t)
<1>1. Led(s, d, t)
  BY RestLed, DrainLed
<1>2. SceneRemove(s, id, t) = IF id \in DOMAIN d.live THEN QueueRemove(d, id) ELSE d
  BY DEF SceneRemove
<1> HIDE DEF d
<1> QED
  BY <1>1, <1>2, QueueRemoveOk DEF Led

\* clear(), likewise, into a new epoch.
LEMMA ClearLed ==
    ASSUME NEW s, NEW t \in Nat, AtRest(s, t)
    PROVE  Led(s, SceneClear(s, t), t)
<1> DEFINE d == DrainExpired(s, t)
           r == SceneClear(s, t)
           e == Delta(d.epoch + 1, 1, "clear", None, None)
<1>1. Led(s, d, t)
  BY RestLed, DrainLed
<1>2. r = QueueChange([d EXCEPT !.live = <<>>, !.epoch = @ + 1, !.revision = 0, !.next = 1],
                      "clear", None, None)
  BY DEF SceneClear
<1> HIDE DEF d, r
<1>3. /\ DOMAIN r = SceneFields /\ r.pending = Append(d.pending, e)
      /\ r.live = <<>> /\ r.next = 1 /\ r.epoch = d.epoch + 1 /\ r.revision = 1
      /\ d.epoch \in Nat
  BY <1>1, <1>2 DEF QueueChange, Led, IsScene, SceneFields
<1>4. IsSeq(r.pending) /\ \A i \in 1 .. Len(r.pending) : IsDelta(r.pending[i], t)
  <2>1. IsDelta(e, t)
    BY <1>3 DEF IsDelta, Delta
  <2> HIDE DEF e
  <2> QED
    BY <1>1, <1>3, <2>1, DeltaQueued, SMTT(20) DEF Led, IsScene
<1>5. DOMAIN r.live = {} /\ r.live = [id \in DOMAIN r.live |-> r.live[id]]
  BY <1>3
<1>6. IsFiniteSet(DOMAIN r.live)
  BY <1>5, FS_EmptySet
<1>7. IsScene(r, t)
  BY <1>3, <1>4, <1>5, <1>6 DEF IsScene
<1>8. Follows(View(d), View(r), e)
  BY <1>3 DEF Follows, View, Delta
<1> HIDE DEF e
<1>9. Leads(View(s), r)
  BY <1>1, <1>3, <1>8, LeadsOn DEF Led, IsScene
<1> QED
  BY <1>7, <1>9 DEF Led, r

-----------------------------------------------------------------------------
(* The world of a handler.                                                 *)

WorldFields == {"now", "topo", "scene", "svc", "sess", "del", "posted", "x", "drags",
                "flushed", "told", "note", "halt", "bad", "calls", "ok"}
ServerFields == {"comp", "grab", "region", "queue"}

EditEvents == [kind : {"press", "motion", "release", "ungrab"}, id : Nat]
ServerEvents ==
    [kind : {"press", "motion", "release", "ungrab", "owner", "screen", "raised", "error"},
     window : Nat]

\* Resolved records, none from the future.
IsShapes(f, t) ==
    /\ f = [id \in DOMAIN f |-> f[id]]
    /\ \A id \in DOMAIN f : f[id].start \in Nat /\ f[id].start <= t

IsWorld(w) ==
    /\ DOMAIN w = WorldFields
    /\ DOMAIN w.svc = DOMAIN NoService
    /\ DOMAIN w.sess = DOMAIN NoSession
    /\ DOMAIN w.del = DOMAIN ClosedDelegate
    /\ DOMAIN w.x = ServerFields
    /\ w.now \in 0 .. MaxTime
    /\ AtRest(w.scene, w.now)
    /\ IsShapes(w.del.shapes, w.now)
    /\ w.calls \in Nat /\ w.ok \in BOOLEAN
    /\ \E b \in Nat : w.bad \subseteq {b}
    /\ w.told \in Seq(EditEvents) /\ w.posted \in Seq(EditEvents)
    /\ w.x.queue \in Seq(ServerEvents)
    /\ w.sess.id \in Nat /\ w.svc.sessions \in Nat
    /\ w.del.handler \in Nat /\ w.del.window \in Nat /\ w.del.wake \in Nat
    /\ w.del.revision \in Nat
    /\ w.del.looked \in Nat /\ w.del.looked <= w.now
    /\ w.del.region # "default"

USE DEF WorldFields, ServerFields, NoService, NoSession, ClosedDelegate

\* What no step of the delegate alone touches.
Beyond(w, v) ==
    /\ IsWorld(v) /\ v.now = w.now
    /\ v.sess = w.sess /\ v.drags = w.drags /\ v.note = w.note /\ v.bad = w.bad
    /\ v.flushed = w.flushed
    /\ v.svc.captured = w.svc.captured /\ v.svc.mixed = w.svc.mixed
    /\ v.svc.sessions = w.svc.sessions /\ v.svc.opened = w.svc.opened
    /\ v.svc.closed = w.svc.closed
    /\ w.svc.lapsed => v.svc.lapsed

\* Without a window there is no input region on the server; a window without its raster
\* shows nothing, and only such a one may still have the shape it was created with.
NoWindow(w) ==
    /\ w.del.surface \in {"none", "bogus"} => w.x.region = "none"
    /\ w.x.region = "default" => w.del.surface = "partial"
    /\ w.del.surface # "full" => w.del.screen = <<>>

\* It may give up a grab or a region on the server, but takes none.
Eases(w, v) ==
    /\ Beyond(w, v)
    /\ NoWindow(w) => NoWindow(v)
    /\ v.x.grab => w.x.grab
    /\ v.svc.lapsed \/ (v.x.grab /\ w.del.grabbed => v.del.grabbed)
    /\ v.x.region \in {"none", "default", w.x.region, w.del.region}
    /\ v.del.region \in {"none", w.del.region}
    /\ v.del.handler = w.del.handler

\* The copy of the scene, the frame and the window are as before.
SameFrame(w, v) ==
    /\ v.scene = w.scene /\ v.topo = w.topo /\ v.svc.desync = w.svc.desync
    /\ v.x.comp = w.x.comp
    /\ v.del.epoch = w.del.epoch
    /\ v.del.revision = w.del.revision /\ v.del.shapes = w.del.shapes
    /\ v.del.presentedRevision = w.del.presentedRevision
    /\ v.del.dirty = w.del.dirty /\ v.del.presented = w.del.presented
    /\ v.del.screen = w.del.screen /\ v.del.looked = w.del.looked
    /\ v.del.mapped = w.del.mapped
    /\ v.del.wake = w.del.wake /\ v.del.revived = w.del.revived

Idle(w, v) ==
    /\ SameFrame(w, v)
    /\ v.del.state = w.del.state /\ v.del.surface = w.del.surface /\ v.del.lost = w.del.lost

\* Eases is transitive,
LEMMA EasesTrans ==
    ASSUME NEW w, NEW v, NEW u, Eases(w, v), Eases(v, u)
    PROVE  Eases(w, u)
BY DEF Eases, NoWindow, Beyond

\* and reflexive.
LEMMA EasesSelf ==
    ASSUME NEW w, IsWorld(w)
    PROVE  Eases(w, w)
BY DEF Eases, NoWindow, Beyond

\* Idle is transitive.
LEMMA IdleTrans ==
    ASSUME NEW w, NEW v, NEW u, Idle(w, v), Idle(v, u)
    PROVE  Idle(w, u)
BY DEF Idle, SameFrame

\* No request that is still to come is refused.
Spent(w) == \A b \in w.bad : b <= w.calls

\* A checked request touches nothing but its outcome; at most one is refused.
LEMMA RequestOk ==
    ASSUME NEW w, IsWorld(w)
    PROVE  /\ Eases(w, Request(w)) /\ Idle(w, Request(w))
           /\ Request(w).del = w.del /\ Request(w).x = w.x /\ Request(w).svc = w.svc
           /\ Request(w).told = w.told /\ Request(w).posted = w.posted
           /\ Request(w).halt = w.halt
           /\ ~Request(w).ok => Spent(Request(w))
           /\ Spent(w) => Request(w).ok /\ Spent(Request(w))
<1> DEFINE v == Request(w)
<1>1. /\ v.calls = w.calls + 1 /\ v.ok = ((w.calls + 1) \notin w.bad) /\ v.bad = w.bad
      /\ DOMAIN v = DOMAIN w /\ \A f \in DOMAIN w \ {"calls", "ok"} : v[f] = w[f]
  BY DEF Request, IsWorld
<1>2. v.del = w.del /\ v.x = w.x /\ v.svc = w.svc /\ v.told = w.told
      /\ v.posted = w.posted /\ v.halt = w.halt /\ v.sess = w.sess /\ v.scene = w.scene
      /\ v.now = w.now /\ v.topo = w.topo /\ v.drags = w.drags /\ v.note = w.note
      /\ v.flushed = w.flushed
  BY <1>1 DEF IsWorld
<1>3. PICK b \in Nat : w.bad \subseteq {b}
  BY DEF IsWorld
<1> HIDE DEF v
<1>4. IsWorld(v)
  BY <1>1, <1>2, SMTT(20) DEF IsWorld
<1>5. Eases(w, v) /\ Idle(w, v)
  BY <1>1, <1>2, <1>4 DEF Eases, NoWindow, Beyond, Idle, SameFrame
<1>6. w.calls \in Nat
  BY DEF IsWorld
<1>7. /\ ~v.ok => Spent(v)
      /\ Spent(w) => v.ok /\ Spent(v)
  <2>1. \A e \in w.bad : e = b
    BY <1>3
  <2>2. ~v.ok => w.calls + 1 \in w.bad
    BY <1>1
  <2>3. ASSUME NEW e \in w.bad, e <= w.calls PROVE e <= w.calls + 1 /\ e # w.calls + 1
    BY <1>3, <1>6, <2>1, <2>3
  <2>4. ASSUME ~v.ok PROVE Spent(v)
    <3>1. w.calls + 1 = b
      BY <2>4, <2>1, <2>2
    <3> QED
      BY <3>1, <2>1, <1>1, <1>6 DEF Spent
  <2>5. ASSUME Spent(w) PROVE v.ok /\ Spent(v)
    <3>1. \A e \in w.bad : e <= w.calls + 1 /\ e # w.calls + 1
      BY <2>5, <2>3 DEF Spent
    <3>2. v.ok
      BY <3>1, <2>2
    <3> QED
      BY <3>1, <3>2, <1>1 DEF Spent
  <2> QED
    BY <2>4, <2>5
<1> QED
  BY <1>2, <1>5, <1>7 DEF v

\* Neither does a refusal without a request,
LEMMA FailOk ==
    ASSUME NEW w, IsWorld(w)
    PROVE  /\ Eases(w, Fail(w)) /\ Idle(w, Fail(w)) /\ ~Fail(w).ok
           /\ Fail(w).del = w.del /\ Fail(w).x = w.x /\ Fail(w).svc = w.svc
           /\ Fail(w).told = w.told /\ Fail(w).posted = w.posted
BY DEF Eases, NoWindow, Beyond, Idle, SameFrame, IsWorld, Fail

\* nor a success without one.
LEMMA DoneOk ==
    ASSUME NEW w, IsWorld(w)
    PROVE  /\ Eases(w, Done(w)) /\ Idle(w, Done(w)) /\ Done(w).ok
           /\ Done(w).calls = w.calls
           /\ Done(w).del = w.del /\ Done(w).x = w.x /\ Done(w).svc = w.svc
           /\ Done(w).told = w.told /\ Done(w).posted = w.posted
BY DEF Eases, NoWindow, Beyond, Idle, SameFrame, IsWorld, Done

\* A request about a window that does not exist is refused, and changes nothing.
LEMMA WindowRequestOk ==
    ASSUME NEW w, IsWorld(w)
    PROVE  LET v == WindowRequest(w)
           IN  /\ Eases(w, v) /\ Idle(w, v)
               /\ v.del = w.del /\ v.x = w.x /\ v.svc = w.svc
               /\ v.told = w.told /\ v.posted = w.posted
               /\ w.del.surface = "bogus" => ~v.ok
               /\ w.del.surface # "bogus" => v = Request(w)
<1> DEFINE r == Request(w)
           v == WindowRequest(w)
<1>1. v = IF w.del.surface = "bogus" THEN Fail(r) ELSE r
  BY DEF WindowRequest
<1>2. /\ Eases(w, r) /\ Idle(w, r) /\ r.del = w.del /\ r.x = w.x /\ r.svc = w.svc
      /\ r.told = w.told /\ r.posted = w.posted
  BY RequestOk
<1>3. IsWorld(r)
  BY <1>2 DEF Eases, Beyond
<1> HIDE DEF r, v
<1>4. /\ Eases(r, Fail(r)) /\ Idle(r, Fail(r)) /\ ~Fail(r).ok
      /\ Fail(r).del = r.del /\ Fail(r).x = r.x /\ Fail(r).svc = r.svc
      /\ Fail(r).told = r.told /\ Fail(r).posted = r.posted
  BY <1>3, FailOk
<1>5. Eases(w, Fail(r)) /\ Idle(w, Fail(r))
  BY <1>2, <1>4, EasesTrans, IdleTrans
<1> QED
  BY <1>1, <1>2, <1>4, <1>5 DEF v, r

\* mark_desynced() leaves the frame and the window.
LEMMA DesyncOk ==
    ASSUME NEW w, IsWorld(w)
    PROVE  /\ Eases(w, Desync(w)) /\ SameFrame(w, Desync(w)) /\ ~Desync(w).ok
           /\ Desync(w).del.state = "desynced"
           /\ Desync(w).del.lost = w.del.lost
           /\ Desync(w).told = w.told /\ Desync(w).posted = w.posted
BY DEF Eases, NoWindow, Beyond, SameFrame, IsWorld, Desync

-----------------------------------------------------------------------------
(* The delegate's copy and its frames.                                     *)

Resolved(live, tp) == [id \in DOMAIN live |-> Resolve(live[id], tp)]

\* The delegate's records are those of view a, whatever they were resolved for.
Mirrors(d, a) ==
    /\ DOMAIN d.shapes = DOMAIN a.live
    /\ \A id \in DOMAIN a.live : /\ d.shapes[id].shape = a.live[id].shape
                                 /\ d.shapes[id].start = a.live[id].start
    /\ d.revision = a.revision
    /\ \/ d.epoch = a.epoch
       \/ d.epoch = None /\ a.live = <<>> /\ a.revision = 0

\* Unless the service knows better, it holds them; and in step, as they are now resolved.
InStep(w, a) ==
    ~w.svc.desync =>
        /\ Mirrors(w.del, a)
        /\ w.del.state = "synced" => w.del.revived \/ w.del.shapes = Resolved(a.live, w.topo)

\* In step it has a mapped window, which shows the records as they were presented.
Shown(w) ==
    w.del.state = "synced" =>
        /\ w.del.mapped
        /\ w.del.presented \/ w.del.dirty
        /\ w.del.presented /\ ~w.del.dirty =>
              \E t \in 0 .. w.now : w.del.screen = Render(w.del.shapes, t)

\* In step it wakes for what is to be drawn and for what is to end.
Woken(w) ==
    w.del.state = "synced" =>
        /\ w.del.dirty => w.del.wake # Never
        /\ \A id \in DOMAIN w.del.shapes :
              w.now < Deadline(w.del.shapes[id]) /\ Deadline(w.del.shapes[id]) # Never
                  => w.del.wake # Never
        /\ \A id \in DOMAIN w.del.screen :
              w.del.looked < Deadline(w.del.screen[id]) /\ Deadline(w.del.screen[id]) # Never
                  => w.del.wake # Never

Keeps(w, v) ==
    /\ InStep(w, View(w.scene)) => InStep(v, View(v.scene))
    /\ Shown(w) => Shown(v)
    /\ Woken(w) => Woken(v)

Serves(w, v) == Eases(w, v) /\ Keeps(w, v)

\* Serves is transitive,
LEMMA ServesTrans ==
    ASSUME NEW w, NEW v, NEW u, Serves(w, v), Serves(v, u)
    PROVE  Serves(w, u)
BY EasesTrans DEF Serves, Keeps

\* and reflexive.
LEMMA ServesSelf ==
    ASSUME NEW w, IsWorld(w)
    PROVE  Serves(w, w)
BY EasesSelf DEF Serves, Keeps

\* What the frame does not notice keeps the delegate in step.
LEMMA IdleKeeps ==
    ASSUME NEW w, NEW v, v.now = w.now, Idle(w, v)
    PROVE  Keeps(w, v)
BY DEF Idle, SameFrame, Keeps, InStep, Shown, Woken, Mirrors

\* A delegate that falls out of step promises nothing that it breaks.
LEMMA DesyncServes ==
    ASSUME NEW w, IsWorld(w)
    PROVE  Serves(w, Desync(w))
BY DesyncOk DEF Serves, Keeps, SameFrame, InStep, Shown, Woken, Mirrors

\* Requests and their outcomes alone break nothing either.
LEMMA RequestServes ==
    ASSUME NEW w, IsWorld(w)
    PROVE  Serves(w, Request(w)) /\ Serves(w, Fail(w)) /\ Serves(w, Done(w))
BY RequestOk, FailOk, DoneOk, IdleKeeps DEF Serves, Eases, NoWindow, Beyond

\* Deadlines are naturals, none later than Never.
LEMMA DeadlineOk ==
    ASSUME NEW rec, rec.start \in 0 .. MaxTime
    PROVE  Deadline(rec) \in Nat /\ Deadline(rec) <= Never
BY OverlayAssumption DEF Deadline, Never

\* overlay_damage_plan() finds a frame if one is to be drawn or a lifetime is to end.
LEMMA NextFrameOk ==
    ASSUME NEW w, IsWorld(w)
    PROVE  /\ NextFrame(w.del, w.now) \in Nat /\ NextFrame(w.del, w.now) <= Never
           /\ w.del.dirty => NextFrame(w.del, w.now) # Never
           /\ \A id \in DOMAIN w.del.shapes :
                 w.now < Deadline(w.del.shapes[id]) /\ Deadline(w.del.shapes[id]) # Never
                     => NextFrame(w.del, w.now) # Never
<1> DEFINE dl(id) == Deadline(w.del.shapes[id])
           T == {t \in {dl(id) : id \in DOMAIN w.del.shapes} : t > w.now}
           S == {Never} \cup T
<1>1. w.now \in Nat /\ w.now <= MaxTime /\ MaxTime \in Nat /\ w.now < Never /\ Never \in Nat
  BY OverlayAssumption DEF IsWorld, Never
<1>2. \A id \in DOMAIN w.del.shapes : dl(id) \in Nat /\ dl(id) <= Never
  <2> SUFFICES ASSUME NEW id \in DOMAIN w.del.shapes PROVE dl(id) \in Nat /\ dl(id) <= Never
    OBVIOUS
  <2>1. w.del.shapes[id].start \in 0 .. MaxTime
    BY <1>1 DEF IsWorld, IsShapes
  <2> QED
    BY <2>1, DeadlineOk
<1> HIDE DEF dl
<1>3. S \in SUBSET Nat /\ S # {} /\ Never \in S
  BY <1>1, <1>2
<1> HIDE DEF S
<1>4. \E y \in S : \A z \in S : y <= z
  BY <1>3, LeastNatural
<1>5. Min(S) \in S /\ \A z \in S : Min(S) <= z
  BY <1>4 DEF Min
<1>6. NextFrame(w.del, w.now) = w.now \/ NextFrame(w.del, w.now) = Min(S)
  BY DEF NextFrame, S, dl
<1>7. w.del.dirty => NextFrame(w.del, w.now) = w.now
  BY DEF NextFrame
<1>8. ASSUME NEW id \in DOMAIN w.del.shapes, w.now < dl(id), dl(id) # Never
      PROVE  Min(S) # Never
  <2>1. dl(id) \in S
    BY <1>8 DEF S
  <2>2. Min(S) <= dl(id) /\ dl(id) < Never
    BY <2>1, <1>5, <1>2, <1>8, <1>1
  <2>3. Min(S) \in Nat /\ dl(id) \in Nat
    BY <1>2, <1>3, <1>5
  <2> QED
    BY <2>2, <2>3, <1>1
<1> DEFINE n == NextFrame(w.del, w.now)
           m == Min(S)
<1>9. m \in Nat /\ m <= Never
  BY <1>3, <1>5
<1>10. n = w.now \/ n = m
  BY <1>6
<1>11. w.del.dirty => n = w.now
  BY <1>7
<1>12. \A id \in DOMAIN w.del.shapes : w.now < dl(id) /\ dl(id) # Never => m # Never
  BY <1>8
<1> HIDE DEF n, m
<1>13. n \in Nat /\ n <= Never /\ (w.del.dirty => n # Never)
       /\ (m # Never => n # Never)
  BY <1>1, <1>9, <1>10, <1>11
<1>14. \A id \in DOMAIN w.del.shapes : w.now < dl(id) /\ dl(id) # Never => n # Never
  BY <1>12, <1>13
<1> QED
  BY <1>13, <1>14 DEF dl, n

\* Every field of the world but del, and every field of del but those named.
Outside(w, v) == \A f \in WorldFields \ {"del"} : v[f] = w[f]

\* schedule_wakeup() leaves a wakeup whenever there is a frame to come.
LEMMA ScheduleOk ==
    ASSUME NEW w, IsWorld(w)
    PROVE  /\ Outside(w, ScheduleWakeup(w)) /\ DOMAIN ScheduleWakeup(w) = WorldFields
           /\ DOMAIN ScheduleWakeup(w).del = DOMAIN w.del
           /\ \A f \in DOMAIN w.del \ {"wake"} : ScheduleWakeup(w).del[f] = w.del[f]
           /\ ScheduleWakeup(w).del.wake \in Nat
           /\ w.del.state # "closed" =>
                 /\ w.del.dirty => ScheduleWakeup(w).del.wake # Never
                 /\ \A id \in DOMAIN w.del.shapes :
                       w.now < Deadline(w.del.shapes[id])
                       /\ Deadline(w.del.shapes[id]) # Never
                           => ScheduleWakeup(w).del.wake # Never
<1> DEFINE n == NextFrame(w.del, w.now)
           v == ScheduleWakeup(w)
<1>1. n \in Nat /\ n <= Never /\ (w.del.dirty => n # Never)
      /\ \A id \in DOMAIN w.del.shapes :
            w.now < Deadline(w.del.shapes[id]) /\ Deadline(w.del.shapes[id]) # Never
                => n # Never
  BY NextFrameOk
<1>2. v = IF w.del.state = "closed" \/ (w.del.wake <= n /\ n # Never) THEN w
          ELSE [w EXCEPT !.del.wake = n]
  BY DEF ScheduleWakeup
<1> HIDE DEF n, v
<1>3. w.del.wake \in Nat /\ DOMAIN w = WorldFields /\ DOMAIN w.del = DOMAIN ClosedDelegate
  BY DEF IsWorld
<1>4. CASE w.del.state = "closed"
  BY <1>2, <1>3, <1>4 DEF v, Outside
<1>5. CASE w.del.state # "closed" /\ w.del.wake <= n /\ n # Never
  <2>1. v = w /\ w.del.wake # Never
    BY <1>1, <1>2, <1>3, <1>5 DEF Never
  <2> QED
    BY <2>1, <1>3 DEF v, Outside
<1>6. CASE w.del.state # "closed" /\ ~(w.del.wake <= n /\ n # Never)
  <2>1. /\ v.del.wake = n /\ DOMAIN v = DOMAIN w /\ DOMAIN v.del = DOMAIN w.del
        /\ \A f \in DOMAIN w.del \ {"wake"} : v.del[f] = w.del[f]
        /\ \A f \in WorldFields \ {"del"} : v[f] = w[f]
    BY <1>2, <1>3, <1>6
  <2> QED
    BY <2>1, <1>1, <1>3 DEF v, Outside
<1> QED
  BY <1>4, <1>5, <1>6

\* present_tick(): a frame that succeeded shows the records as they are now.
LEMMA PresentOk ==
    ASSUME NEW w, IsWorld(w)
    PROVE  /\ Serves(w, PresentTick(w))
           /\ PresentTick(w).scene = w.scene /\ PresentTick(w).topo = w.topo
           /\ PresentTick(w).svc = w.svc /\ PresentTick(w).x = w.x
           /\ PresentTick(w).told = w.told /\ PresentTick(w).posted = w.posted
           /\ \A f \in {"state", "epoch", "revision", "shapes", "surface", "window", "mapped",
                        "lost", "wake", "revived", "handler", "region", "grabbed"} :
                 PresentTick(w).del[f] = w.del[f]
           /\ PresentTick(w).ok =>
                 /\ PresentTick(w).del.presented /\ ~PresentTick(w).del.dirty
                 /\ PresentTick(w).del.screen = Render(w.del.shapes, w.now)
<1> DEFINE r == Request(w)
           u == [r EXCEPT !.del.screen = Render(w.del.shapes, w.now), !.del.looked = w.now,
                          !.del.dirty = FALSE, !.del.presented = TRUE,
                          !.del.presentedRevision = w.del.revision]
           v == PresentTick(w)
<1>1. IsWorld(r) /\ Serves(w, r) /\ r.del = w.del /\ r.x = w.x /\ r.svc = w.svc
      /\ r.scene = w.scene /\ r.topo = w.topo /\ r.told = w.told /\ r.posted = w.posted
  BY RequestOk, RequestServes DEF Idle, SameFrame, Eases, NoWindow, Beyond
<1>2. v = IF ~r.ok THEN r ELSE IF r.del.surface # "full" THEN Fail(r) ELSE u
  BY DEF PresentTick, Then
<1> HIDE DEF r, v
<1>3. CASE v = r /\ ~r.ok
  BY <1>3, <1>1 DEF v
<1>4. CASE v = Fail(r)
  <2>1. IsWorld(v) /\ Serves(r, v) /\ ~v.ok /\ v.scene = r.scene /\ v.topo = r.topo
        /\ v.del = r.del /\ v.x = r.x /\ v.svc = r.svc /\ v.told = r.told
        /\ v.posted = r.posted
    BY <1>4, <1>1, FailOk, RequestServes DEF Eases, NoWindow, Beyond, Idle, SameFrame
  <2> QED
    BY <2>1, <1>1, ServesTrans DEF v
<1>5. CASE v = u /\ r.del.surface = "full"
  <2>1. /\ DOMAIN v = DOMAIN r /\ Outside(r, v) /\ DOMAIN v.del = DOMAIN r.del
        /\ \A f \in DOMAIN r.del \ {"screen", "looked", "dirty", "presented",
                                    "presentedRevision"} :
              v.del[f] = r.del[f]
        /\ v.del.screen = Render(w.del.shapes, w.now) /\ v.del.looked = w.now
        /\ ~v.del.dirty /\ v.del.presented
    <3>1. DOMAIN r = WorldFields /\ DOMAIN r.del = DOMAIN ClosedDelegate
      BY <1>1 DEF IsWorld
    <3> QED
      BY <1>5, <3>1 DEF Outside
  <2>2. /\ v.sess = r.sess /\ v.svc = r.svc /\ v.x = r.x /\ v.scene = r.scene
        /\ v.now = r.now /\ v.topo = r.topo /\ v.posted = r.posted /\ v.told = r.told
        /\ v.drags = r.drags /\ v.note = r.note /\ v.bad = r.bad /\ v.calls = r.calls
        /\ v.ok = r.ok /\ v.flushed = r.flushed
    BY <2>1 DEF Outside
  <2>3. /\ v.del.shapes = r.del.shapes /\ v.del.state = r.del.state
        /\ v.del.epoch = r.del.epoch /\ v.del.revision = r.del.revision
        /\ v.del.wake = r.del.wake /\ v.del.mapped = r.del.mapped
        /\ v.del.revived = r.del.revived /\ v.del.handler = r.del.handler
        /\ v.del.window = r.del.window /\ v.del.grabbed = r.del.grabbed
        /\ v.del.region = r.del.region /\ v.del.surface = r.del.surface
        /\ v.del.lost = r.del.lost
    BY <2>1, <1>1 DEF IsWorld
  <2> HIDE DEF u
  <2>7. r.now \in 0 .. r.now /\ r.now = w.now /\ r.del = w.del
    BY <1>1 DEF IsWorld, Serves, Eases, NoWindow, Beyond
  <2>4. IsWorld(v)
    BY <2>1, <2>2, <2>3, <2>7, <1>1 DEF IsWorld
  <2>5. Eases(r, v)
    BY <1>5, <2>2, <2>3, <2>4 DEF Eases, NoWindow, Beyond
  <2>6. InStep(r, View(r.scene)) => InStep(v, View(v.scene))
    BY <2>2, <2>3 DEF InStep, Mirrors
  <2>8. Shown(r) => Shown(v)
    BY <2>1, <2>2, <2>3, <2>7 DEF Shown
  <2>9. \A id \in DOMAIN v.del.screen :
            /\ id \in DOMAIN v.del.shapes /\ v.del.screen[id] = v.del.shapes[id]
            /\ v.now < Deadline(v.del.shapes[id])
    <3>1. v.del.screen = Render(v.del.shapes, v.now)
      BY <2>1, <2>2, <2>3, <2>7
    <3>2. \A id \in DOMAIN v.del.screen :
              /\ id \in DOMAIN v.del.shapes /\ v.del.screen[id] = v.del.shapes[id]
              /\ Deadline(v.del.shapes[id]) > v.now
      BY <3>1 DEF Render, Restrict
    <3> QED
      BY <3>2
  <2>10. Woken(r) => Woken(v)
    BY <2>1, <2>2, <2>3, <2>9 DEF Woken
  <2>11. Serves(r, v)
    BY <2>5, <2>6, <2>8, <2>10 DEF Serves, Keeps
  <2> QED
    BY <2>1, <2>2, <2>3, <2>11, <1>1, ServesTrans DEF v
<1> QED
  BY <1>2, <1>3, <1>4, <1>5

-----------------------------------------------------------------------------
(* The delta stream.                                                       *)

\* apply() of the next delta changes the copy as the delta says and schedules a frame.
LEMMA AcceptOk ==
    ASSUME NEW w, IsWorld(w), w.del.state = "synced", NEW d, IsDelta(d, w.now)
    PROVE  /\ Eases(w, Accept(w, d)) /\ Accept(w, d).ok
           /\ Accept(w, d).scene = w.scene /\ Accept(w, d).topo = w.topo
           /\ Accept(w, d).svc = w.svc
           /\ Accept(w, d).del.shapes = ApplyChange(w.del.shapes, d, w.topo)
           /\ Accept(w, d).del.epoch = d.epoch /\ Accept(w, d).del.revision = d.revision
           /\ Accept(w, d).del.state = "synced"
           /\ Accept(w, d).del.revived = w.del.revived
           /\ Shown(w) => Shown(Accept(w, d))
           /\ Woken(Accept(w, d))
<1> DEFINE e == [w EXCEPT !.del.shapes = ApplyChange(@, d, w.topo),
                          !.del.epoch = d.epoch, !.del.revision = d.revision,
                          !.del.dirty = TRUE, !.ok = TRUE]
           v == Accept(w, d)
           g == ApplyChange(w.del.shapes, d, w.topo)
<1>1. v = ScheduleWakeup(e)
  BY DEF Accept
<1>2. DOMAIN w = WorldFields /\ DOMAIN w.del = DOMAIN ClosedDelegate
  BY DEF IsWorld
<1>3. /\ DOMAIN e = WorldFields /\ DOMAIN e.del = DOMAIN w.del
      /\ e.del.shapes = g /\ e.del.epoch = d.epoch /\ e.del.revision = d.revision
      /\ e.del.dirty /\ e.ok = TRUE
      /\ \A f \in DOMAIN w.del \ {"shapes", "epoch", "revision", "dirty"} : e.del[f] = w.del[f]
      /\ \A f \in WorldFields \ {"del", "ok"} : e[f] = w[f]
  <2> HIDE DEF g
  <2> QED
    BY <1>2 DEF g
<1>4. IsShapes(g, w.now)
  <2>1. /\ w.del.shapes = [id \in DOMAIN w.del.shapes |-> w.del.shapes[id]]
        /\ \A id \in DOMAIN w.del.shapes :
              w.del.shapes[id].start \in Nat /\ w.del.shapes[id].start <= w.now
    BY DEF IsWorld, IsShapes
  <2>2. CASE d.op = "upsert"
    <3>1. g = Put(w.del.shapes, d.id, Resolve(d.rec, w.topo))
      BY <2>2 DEF ApplyChange
    <3> QED
      BY <3>1, <2>1, <2>2 DEF Put, Resolve, IsShapes, IsDelta
  <2>3. CASE d.op = "remove"
    <3>1. g = Drop(w.del.shapes, d.id)
      BY <2>3 DEF ApplyChange
    <3> QED
      BY <3>1, <2>1 DEF Drop, Restrict, IsShapes
  <2>4. CASE d.op = "clear"
    <3>1. g = <<>>
      BY <2>4 DEF ApplyChange
    <3>2. DOMAIN g = {} /\ g = [id \in DOMAIN g |-> g[id]]
      BY <3>1
    <3> QED
      BY <3>2 DEF IsShapes
  <2> QED
    BY <2>2, <2>3, <2>4 DEF IsDelta
<1> HIDE DEF e, v, g
<1>5. /\ e.now = w.now /\ e.topo = w.topo /\ e.scene = w.scene /\ e.svc = w.svc
      /\ e.sess = w.sess /\ e.posted = w.posted /\ e.x = w.x /\ e.drags = w.drags
      /\ e.flushed = w.flushed /\ e.told = w.told /\ e.note = w.note /\ e.bad = w.bad
      /\ e.calls = w.calls
  BY <1>3
<1>6. /\ e.del.state = "synced" /\ e.del.mapped = w.del.mapped
      /\ e.del.grabbed = w.del.grabbed /\ e.del.region = w.del.region
      /\ e.del.handler = w.del.handler /\ e.del.window = w.del.window
      /\ e.del.wake = w.del.wake /\ e.del.revived = w.del.revived
      /\ e.del.surface = w.del.surface /\ e.del.looked = w.del.looked
      /\ e.del.screen = w.del.screen
  BY <1>2, <1>3
<1>7. IsWorld(e)
  BY <1>3, <1>4, <1>5, <1>6 DEF IsWorld, IsDelta
<1>8. /\ Outside(e, v) /\ DOMAIN v = WorldFields /\ DOMAIN v.del = DOMAIN e.del
      /\ \A f \in DOMAIN e.del \ {"wake"} : v.del[f] = e.del[f]
      /\ v.del.wake \in Nat /\ v.del.wake # Never
  BY <1>1, <1>3, <1>6, <1>7, ScheduleOk
<1>9. /\ v.now = w.now /\ v.topo = w.topo /\ v.scene = w.scene /\ v.svc = w.svc
      /\ v.sess = w.sess /\ v.posted = w.posted /\ v.x = w.x /\ v.drags = w.drags
      /\ v.flushed = w.flushed /\ v.told = w.told /\ v.note = w.note /\ v.bad = w.bad
      /\ v.calls = w.calls /\ v.ok = TRUE
  BY <1>3, <1>5, <1>8 DEF Outside
<1>10. /\ v.del.shapes = g /\ v.del.epoch = d.epoch /\ v.del.revision = d.revision
       /\ v.del.dirty /\ v.del.state = "synced" /\ v.del.mapped = w.del.mapped
       /\ v.del.grabbed = w.del.grabbed /\ v.del.region = w.del.region
       /\ v.del.handler = w.del.handler /\ v.del.window = w.del.window
       /\ v.del.revived = w.del.revived /\ v.del.surface = w.del.surface
       /\ v.del.looked = w.del.looked /\ v.del.screen = w.del.screen
  BY <1>2, <1>3, <1>6, <1>8
<1>11. IsWorld(v)
  BY <1>2, <1>3, <1>4, <1>8, <1>9, <1>10 DEF IsWorld, IsDelta
<1>12. Eases(w, v)
  BY <1>9, <1>10, <1>11 DEF Eases, NoWindow, Beyond
<1>13. (Shown(w) => Shown(v)) /\ Woken(v)
  BY <1>8, <1>10 DEF Shown, Woken
<1> QED
  BY <1>9, <1>10, <1>12, <1>13 DEF v, g

\* A delta that continues the view the delegate mirrors makes it mirror the next one.
LEMMA AcceptMirrors ==
    ASSUME NEW w, IsWorld(w), w.del.state = "synced", ~w.svc.desync,
           NEW d, IsDelta(d, w.now), NEW a, NEW b, Follows(a, b, d), InStep(w, a)
    PROVE  InStep(Accept(w, d), b)
<1> DEFINE v == Accept(w, d)
           f == w.del.shapes
           g == ApplyChange(f, d, w.topo)
<1>1. /\ v.del.shapes = g /\ v.del.epoch = d.epoch /\ v.del.revision = d.revision
      /\ v.del.revived = w.del.revived /\ v.topo = w.topo
  BY AcceptOk
<1>2. /\ DOMAIN f = DOMAIN a.live
      /\ \A id \in DOMAIN a.live : f[id].shape = a.live[id].shape
                                   /\ f[id].start = a.live[id].start
      /\ w.del.revived \/ f = Resolved(a.live, w.topo)
  BY DEF InStep, Mirrors
<1> HIDE DEF v, f
<1>3. /\ DOMAIN g = DOMAIN b.live
      /\ \A id \in DOMAIN b.live : g[id].shape = b.live[id].shape
                                   /\ g[id].start = b.live[id].start
      /\ w.del.revived \/ g = Resolved(b.live, w.topo)
  <2>1. CASE d.op = "upsert"
    <3>1. g = Put(f, d.id, Resolve(d.rec, w.topo)) /\ b.live = Put(a.live, d.id, d.rec)
      BY <2>1 DEF ApplyChange, Follows
    <3>2. /\ DOMAIN g = DOMAIN f \cup {d.id} /\ DOMAIN b.live = DOMAIN a.live \cup {d.id}
          /\ \A id \in DOMAIN g :
                /\ g[id] = IF id = d.id THEN Resolve(d.rec, w.topo) ELSE f[id]
                /\ id \in DOMAIN b.live => b.live[id] = IF id = d.id THEN d.rec ELSE a.live[id]
      BY <3>1 DEF Put
    <3>3. Resolve(d.rec, w.topo).shape = d.rec.shape
          /\ Resolve(d.rec, w.topo).start = d.rec.start
      BY DEF Resolve
    <3>4. ASSUME f = Resolved(a.live, w.topo) PROVE g = Resolved(b.live, w.topo)
      <4>1. \A id \in DOMAIN a.live : f[id] = Resolve(a.live[id], w.topo)
        BY <3>4 DEF Resolved
      <4>2. \A id \in DOMAIN b.live : g[id] = Resolve(b.live[id], w.topo)
        BY <4>1, <3>2, <1>2
      <4>3. g = [id \in DOMAIN g |-> g[id]] /\ DOMAIN g = DOMAIN b.live
        BY <3>1, <3>2, <1>2 DEF Put
      <4> HIDE DEF g
      <4> QED
        BY <4>2, <4>3 DEF Resolved
    <3> HIDE DEF g
    <3> QED
      BY <3>2, <3>3, <3>4, <1>2
  <2>2. CASE d.op = "remove"
    <3>1. g = Drop(f, d.id) /\ b.live = Drop(a.live, d.id)
      BY <2>2 DEF ApplyChange, Follows
    <3>2. /\ DOMAIN g = DOMAIN f \ {d.id} /\ DOMAIN b.live = DOMAIN a.live \ {d.id}
          /\ \A id \in DOMAIN f \ {d.id} : g[id] = f[id]
          /\ \A id \in DOMAIN a.live \ {d.id} : b.live[id] = a.live[id]
      BY <3>1 DEF Drop, Restrict
    <3>3. ASSUME f = Resolved(a.live, w.topo) PROVE g = Resolved(b.live, w.topo)
      <4>1. \A id \in DOMAIN a.live : f[id] = Resolve(a.live[id], w.topo)
        BY <3>3 DEF Resolved
      <4>2. \A id \in DOMAIN b.live : g[id] = Resolve(b.live[id], w.topo)
        BY <4>1, <3>2, <1>2
      <4>3. g = [id \in DOMAIN g |-> g[id]] /\ DOMAIN g = DOMAIN b.live
        BY <3>1, <3>2, <1>2 DEF Drop, Restrict
      <4> HIDE DEF g
      <4> QED
        BY <4>2, <4>3 DEF Resolved
    <3> HIDE DEF g
    <3> QED
      BY <3>2, <3>3, <1>2
  <2>3. CASE d.op = "clear"
    <3>1. g = <<>> /\ b.live = <<>>
      BY <2>3 DEF ApplyChange, Follows
    <3>2. DOMAIN g = {} /\ DOMAIN b.live = {}
      BY <3>1
    <3>3. g = Resolved(b.live, w.topo)
      BY <3>1, <3>2 DEF Resolved
    <3> QED
      BY <3>2, <3>3
  <2> QED
    BY <2>1, <2>2, <2>3 DEF IsDelta
<1> HIDE DEF g
<1> QED
  BY <1>1, <1>3 DEF InStep, Mirrors, Follows, v

\* The service's belief after it spoke to the delegate.
LEMMA NotedOk ==
    ASSUME NEW w, IsWorld(w)
    PROVE  /\ Eases(w, Noted(w)) /\ Noted(w).ok = w.ok
           /\ Noted(w).scene = w.scene /\ Noted(w).topo = w.topo /\ Noted(w).del = w.del
           /\ Noted(w).x = w.x /\ Noted(w).svc.desync = ~w.ok
           /\ Shown(w) => Shown(Noted(w))
           /\ Woken(w) => Woken(Noted(w))
<1> DEFINE v == Noted(w)
<1>1. /\ DOMAIN v = DOMAIN w /\ \A f \in DOMAIN w \ {"svc"} : v[f] = w[f]
      /\ DOMAIN v.svc = DOMAIN w.svc /\ v.svc.desync = ~w.ok
      /\ \A f \in DOMAIN w.svc \ {"desync"} : v.svc[f] = w.svc[f]
  BY DEF Noted, IsWorld
<1> HIDE DEF v
<1>2. /\ v.del = w.del /\ v.x = w.x /\ v.scene = w.scene /\ v.topo = w.topo
      /\ v.now = w.now /\ v.sess = w.sess /\ v.posted = w.posted /\ v.drags = w.drags
      /\ v.flushed = w.flushed /\ v.told = w.told /\ v.note = w.note /\ v.bad = w.bad
      /\ v.calls = w.calls /\ v.ok = w.ok
  BY <1>1 DEF IsWorld
<1>3. /\ v.svc.captured = w.svc.captured /\ v.svc.mixed = w.svc.mixed
      /\ v.svc.sessions = w.svc.sessions /\ v.svc.opened = w.svc.opened
      /\ v.svc.closed = w.svc.closed /\ v.svc.lapsed = w.svc.lapsed
  BY <1>1 DEF IsWorld
<1>4. IsWorld(v)
  BY <1>1, <1>2, <1>3 DEF IsWorld
<1> QED
  BY <1>1, <1>2, <1>3, <1>4 DEF Eases, NoWindow, Beyond, Shown, Woken, v

\* publish() of the delta that leads on keeps the delegate in step, or it is known not
\* to be.
LEMMA PublishOneOk ==
    ASSUME NEW w, IsWorld(w), NEW d, IsDelta(d, w.now), NEW a, NEW b, Follows(a, b, d),
           a.epoch \in Nat, a.revision \in Nat
    PROVE  /\ Eases(w, PublishOne(w, d))
           /\ PublishOne(w, d).scene = w.scene /\ PublishOne(w, d).topo = w.topo
           /\ InStep(w, a) => InStep(PublishOne(w, d), b)
           /\ Shown(w) => Shown(PublishOne(w, d))
           /\ Woken(w) => Woken(PublishOne(w, d))
<1> DEFINE u == Apply(w, d)
           v == PublishOne(w, d)
<1>1. v = IF w.svc.desync THEN w ELSE Noted(u)
  BY DEF PublishOne
<1>2. CASE w.svc.desync
  <2>1. v = w
    BY <1>1, <1>2
  <2>2. InStep(w, a) => InStep(w, b)
    BY <1>2 DEF InStep
  <2> HIDE DEF v
  <2> QED
    BY <2>1, <2>2, EasesSelf DEF v
<1>3. CASE ~w.svc.desync
  <2>1. u = IF w.del.state # "synced" THEN Fail(w)
            ELSE IF w.del.epoch = d.epoch /\ d.revision <= w.del.revision THEN Done(w)
            ELSE IF Continues(d, w.del.epoch, w.del.revision) THEN Accept(w, d)
            ELSE Desync(w)
    BY DEF Apply
  <2>2. v = Noted(u)
    BY <1>1, <1>3
  <2> HIDE DEF u, v
  <2>3. /\ Eases(w, u) /\ u.scene = w.scene /\ u.topo = w.topo
        /\ (Shown(w) => Shown(u)) /\ (Woken(w) => Woken(u))
    <3>1. CASE u = Fail(w)
      BY <3>1, FailOk, IdleKeeps DEF Idle, SameFrame, Eases, NoWindow, Beyond, Keeps
    <3>2. CASE u = Done(w)
      BY <3>2, DoneOk, IdleKeeps DEF Idle, SameFrame, Eases, NoWindow, Beyond, Keeps
    <3>3. CASE u = Accept(w, d) /\ w.del.state = "synced"
      BY <3>3, AcceptOk
    <3>4. CASE u = Desync(w)
      BY <3>4, DesyncOk, DesyncServes DEF SameFrame, Serves, Keeps
    <3> QED
      BY <2>1, <3>1, <3>2, <3>3, <3>4
  <2>4. IsWorld(u)
    BY <2>3 DEF Eases, NoWindow, Beyond
  <2>5. /\ Eases(u, v) /\ v.scene = u.scene /\ v.topo = u.topo /\ v.svc.desync = ~u.ok
        /\ v.del = u.del /\ (Shown(u) => Shown(v)) /\ (Woken(u) => Woken(v))
    BY <2>2, <2>4, NotedOk
  <2>6. ASSUME InStep(w, a) PROVE InStep(v, b)
    <3>1. CASE w.del.state # "synced"
      BY <3>1, <2>1, <2>5, FailOk DEF InStep
    <3>2. CASE w.del.state = "synced"
      <4>1. Mirrors(w.del, a)
        BY <2>6, <1>3 DEF InStep
      <4>2. /\ ~(w.del.epoch = d.epoch /\ d.revision <= w.del.revision)
            /\ Continues(d, w.del.epoch, w.del.revision)
        BY <4>1, OverlayAssumption DEF Mirrors, Follows, Continues, IsDelta
      <4>3. u = Accept(w, d)
        BY <4>2, <3>2, <2>1
      <4>4. InStep(u, b)
        BY <4>3, <3>2, <1>3, <2>6, AcceptMirrors
      <4>5. u.svc = w.svc
        BY <4>3, <3>2, AcceptOk
      <4> QED
        BY <4>4, <4>5, <2>5, <1>3 DEF InStep
    <3> QED
      BY <3>1, <3>2
  <2> QED
    BY <2>3, <2>5, <2>6, EasesTrans DEF v
<1> QED
  BY <1>2, <1>3

Taken(s) == [s EXCEPT !.pending = <<>>]

\* What drain_publications() has done after i deltas; c is the world it began with, the
\* scene it publishes and the views that scene went through.
Publishing(c, i, v) ==
    /\ Eases(c.from, v) /\ v.scene = Taken(c.scene) /\ v.topo = c.from.topo
    /\ c.path[i].epoch \in Nat /\ c.path[i].revision \in Nat
    /\ InStep(c.from, c.path[0]) => InStep(v, c.path[i])
    /\ Shown(c.from) => Shown(v)
    /\ Woken(c.from) => Woken(v)

PublishFold == INSTANCE FoldProofs WITH Op <- PublishOne, Kept <- Publishing

\* The fold of drain_publications is the one FoldProofs is about.
LEMMA PublishFoldIs ==
    ASSUME NEW b, NEW q
    PROVE  FoldLeft(PublishOne, b, q) = PublishFold!FoldLeft(PublishOne, b, q)
BY Zenon DEF FoldLeft, PublishFold!FoldLeft, MapThenFoldSet, PublishFold!MapThenFoldSet,
             Max, PublishFold!Max

\* A scene whose deltas were taken shows the same view.
LEMMA TakenOk ==
    ASSUME NEW s, NEW t, IsScene(s, t)
    PROVE  /\ AtRest(Taken(s), t) /\ View(Taken(s)) = View(s)
           /\ Taken(s).live = s.live /\ Taken(s).revision = s.revision
           /\ Taken(s).epoch = s.epoch
<1> DEFINE r == Taken(s)
<1>1. /\ DOMAIN r = SceneFields /\ r.pending = <<>> /\ r.live = s.live
      /\ r.epoch = s.epoch /\ r.revision = s.revision /\ r.next = s.next
  BY DEF Taken, IsScene, SceneFields
<1>2. IsSeq(r.pending) /\ Len(r.pending) = 0
  <2>1. <<>> \in Seq({})
    OBVIOUS
  <2> QED
    BY <1>1, <2>1 DEF IsSeq
<1> HIDE DEF r
<1>3. IsScene(r, t)
  BY <1>1, <1>2 DEF IsScene
<1> QED
  BY <1>1, <1>3 DEF AtRest, View, r

\* drain_publications(): after all deltas of a call the delegate is where the scene is.
LEMMA PublishOk ==
    ASSUME NEW w, IsWorld(w), NEW s, Led(w.scene, s, w.now)
    PROVE  /\ Serves(w, Publish(w, s))
           /\ Publish(w, s).scene = Taken(s) /\ Publish(w, s).topo = w.topo
<1>1. PICK h : Path(View(w.scene), s, h)
  BY DEF Led, Leads
<1> DEFINE q == s.pending
           b == [w EXCEPT !.scene = Taken(s)]
           c == [from |-> w, scene |-> s, path |-> h]
<1>2. IsScene(s, w.now) /\ IsSeq(q) /\ \A i \in 1 .. Len(q) : IsDelta(q[i], w.now)
  BY DEF Led, IsScene
<1>3. Len(q) \in Nat /\ q = [i \in 1 .. Len(q) |-> q[i]]
  BY <1>2, IsSeqFacts
<1>4. h[0] = View(w.scene) /\ h[Len(q)] = View(s)
      /\ \A i \in 1 .. Len(q) : Follows(h[i - 1], h[i], q[i])
  BY <1>1 DEF Path
<1>5. AtRest(Taken(s), w.now) /\ View(Taken(s)) = View(s)
  BY <1>2, TakenOk
<1>6. Publishing(c, 0, b)
  <2>1. /\ DOMAIN b = WorldFields /\ b.scene = Taken(s)
        /\ \A f \in WorldFields \ {"scene"} : b[f] = w[f]
    BY DEF IsWorld
  <2>2. /\ b.now = w.now /\ b.topo = w.topo /\ b.svc = w.svc /\ b.sess = w.sess
        /\ b.del = w.del /\ b.posted = w.posted /\ b.x = w.x /\ b.drags = w.drags
        /\ b.flushed = w.flushed /\ b.told = w.told /\ b.note = w.note /\ b.bad = w.bad
        /\ b.calls = w.calls /\ b.ok = w.ok
    BY <2>1
  <2> HIDE DEF b
  <2>3. IsWorld(b)
    BY <2>1, <2>2, <1>5 DEF IsWorld
  <2>4. Eases(w, b)
    BY <2>2, <2>3 DEF Eases, NoWindow, Beyond
  <2>5. w.scene.epoch \in Nat /\ w.scene.revision \in Nat
    BY DEF IsWorld, AtRest, IsScene
  <2>6. h[0].epoch \in Nat /\ h[0].revision \in Nat
    BY <2>5, <1>4 DEF View
  <2>7. /\ InStep(w, h[0]) => InStep(b, h[0])
        /\ Shown(w) => Shown(b)
        /\ Woken(w) => Woken(b)
    BY <2>2 DEF InStep, Mirrors, Shown, Woken
  <2> QED
    BY <2>1, <2>2, <2>4, <2>6, <2>7 DEF Publishing
<1> HIDE DEF q
<1>7. ASSUME NEW i \in 1 .. Len(q), NEW v, Publishing(c, i - 1, v)
      PROVE  Publishing(c, i, PublishOne(v, q[i]))
  <2>1. /\ Eases(w, v) /\ v.scene = Taken(s) /\ v.topo = w.topo
        /\ h[i - 1].epoch \in Nat /\ h[i - 1].revision \in Nat
        /\ InStep(w, h[0]) => InStep(v, h[i - 1])
        /\ Shown(w) => Shown(v)
        /\ Woken(w) => Woken(v)
    BY <1>7 DEF Publishing
  <2>2. IsWorld(v) /\ v.now = w.now
    BY <2>1 DEF Eases, NoWindow, Beyond
  <2>3. Follows(h[i - 1], h[i], q[i]) /\ IsDelta(q[i], v.now)
    BY <1>2, <1>4, <2>2
  <2> DEFINE u == PublishOne(v, q[i])
  <2>4. /\ Eases(v, u) /\ u.scene = v.scene /\ u.topo = v.topo
        /\ InStep(v, h[i - 1]) => InStep(u, h[i])
        /\ Shown(v) => Shown(u)
        /\ Woken(v) => Woken(u)
    BY <2>1, <2>2, <2>3, PublishOneOk
  <2> HIDE DEF u
  <2>5. Eases(w, u)
    BY <2>1, <2>4, EasesTrans
  <2>6. h[i].epoch \in Nat /\ h[i].revision \in Nat
    BY <2>3 DEF Follows, IsDelta
  <2> QED
    BY <2>1, <2>4, <2>5, <2>6 DEF Publishing, u
<1>8. Publishing(c, Len(q), PublishFold!FoldLeft(PublishOne, b, q))
  <2> HIDE DEF c, b
  <2> QED
    BY <1>3, <1>6, <1>7, PublishFold!FoldKeeps
<1>9. Publish(w, s) = PublishFold!FoldLeft(PublishOne, b, q)
  BY PublishFoldIs DEF Publish, q, Taken
<1> DEFINE p == Publish(w, s)
<1>10. Publishing(c, Len(q), p)
  BY <1>8, <1>9
<1> HIDE DEF p
<1>11. /\ Eases(w, p) /\ p.scene = Taken(s) /\ p.topo = w.topo
       /\ InStep(w, View(w.scene)) => InStep(p, View(s))
       /\ Shown(w) => Shown(p)
       /\ Woken(w) => Woken(p)
  BY <1>10, <1>4 DEF Publishing
<1> QED
  BY <1>11, <1>5 DEF Serves, Keeps, p

\* After a look at the clock no shape of the scene has expired.
Fresh(w) == \A id \in DOMAIN w.scene.live : ~(Deadline(w.scene.live[id]) <= w.now)

\* snapshot() leaves nothing in the scene that is due.
LEMMA SnapshotOk ==
    ASSUME NEW w, IsWorld(w)
    PROVE  Serves(w, Snapshot(w)) /\ Fresh(Snapshot(w)) /\ Snapshot(w).topo = w.topo
<1> DEFINE r == DrainExpired(w.scene, w.now)
           v == Snapshot(w)
<1>1. w.now \in Nat /\ AtRest(w.scene, w.now) /\ IsScene(w.scene, w.now)
  BY DEF IsWorld, AtRest
<1>2. Led(w.scene, r, w.now)
  BY <1>1, RestLed, DrainLed
<1>3. \A id \in DOMAIN r.live : ~(Deadline(r.live[id]) <= w.now)
  BY <1>1, RestLed, DrainedLives DEF Led
<1>4. v = Publish(w, r)
  BY DEF Snapshot
<1> HIDE DEF r, v
<1>5. Serves(w, v) /\ v.scene = Taken(r) /\ v.topo = w.topo
  BY <1>2, <1>4, PublishOk
<1>6. v.now = w.now /\ v.scene.live = r.live
  BY <1>2, <1>5, TakenOk DEF Led, Serves, Eases, NoWindow, Beyond
<1> QED
  BY <1>3, <1>5, <1>6 DEF Fresh, v

\* The outcome of an operation is replaced by another one.
LEMMA OutcomeServes ==
    ASSUME NEW w, IsWorld(w), NEW o \in BOOLEAN
    PROVE  /\ Serves(w, [w EXCEPT !.ok = o]) /\ [w EXCEPT !.ok = o].ok = o
           /\ Idle(w, [w EXCEPT !.ok = o])
<1> DEFINE v == [w EXCEPT !.ok = o]
<1>1. /\ DOMAIN v = WorldFields /\ v.ok = o
      /\ \A f \in WorldFields \ {"ok"} : v[f] = w[f]
  BY DEF IsWorld
<1> HIDE DEF v
<1>2. /\ v.now = w.now /\ v.topo = w.topo /\ v.svc = w.svc /\ v.sess = w.sess
      /\ v.del = w.del /\ v.posted = w.posted /\ v.x = w.x /\ v.drags = w.drags
      /\ v.flushed = w.flushed /\ v.told = w.told /\ v.note = w.note /\ v.bad = w.bad
      /\ v.calls = w.calls /\ v.scene = w.scene
  BY <1>1
<1>3. IsWorld(v)
  BY <1>1, <1>2 DEF IsWorld
<1>4. Eases(w, v) /\ Idle(w, v)
  BY <1>2, <1>3 DEF Eases, NoWindow, Beyond, Idle, SameFrame
<1> QED
  BY <1>1, <1>2, <1>4, IdleKeeps DEF Serves, v

\* update() of a shape, published.
LEMMA UpdateShapeOk ==
    ASSUME NEW w, IsWorld(w), NEW id, NEW shape
    PROVE  Serves(w, UpdateShape(w, id, shape))
<1> DEFINE r == SceneUpdate(w.scene, id, shape, w.now)
           p == Publish(w, r)
           o == id \in DOMAIN DrainExpired(w.scene, w.now).live /\ shape.kind # "invalid"
<1>1. Led(w.scene, r, w.now)
  BY UpdateLed DEF IsWorld
<1>2. Serves(w, p)
  BY <1>1, PublishOk
<1>3. IsWorld(p)
  BY <1>2 DEF Serves, Eases, NoWindow, Beyond
<1>4. UpdateShape(w, id, shape) = [p EXCEPT !.ok = o]
  BY DEF UpdateShape
<1>5. o \in BOOLEAN
  OBVIOUS
<1> HIDE DEF p, o
<1> QED
  BY <1>2, <1>3, <1>4, <1>5, OutcomeServes, ServesTrans

-----------------------------------------------------------------------------
(* The window.                                                             *)

\* The window may change, the copy of the scene does not.
Bare(w, v) ==
    /\ Eases(w, v)
    /\ v.scene = w.scene /\ v.svc.desync = w.svc.desync /\ v.x.comp = w.x.comp
    /\ v.del.state = w.del.state /\ v.del.epoch = w.del.epoch
    /\ v.del.revision = w.del.revision /\ v.del.shapes = w.del.shapes
    /\ v.del.dirty = w.del.dirty
    /\ v.del.wake = w.del.wake /\ v.del.revived = w.del.revived
    /\ v.del.looked = w.del.looked

\* Bare is transitive,
LEMMA BareTrans ==
    ASSUME NEW w, NEW v, NEW u, Bare(w, v), Bare(v, u)
    PROVE  Bare(w, u)
BY EasesTrans DEF Bare

\* it keeps the shape of the world,
LEMMA BareWorld ==
    ASSUME NEW w, NEW v, Bare(w, v)
    PROVE  IsWorld(v) /\ v.now = w.now
BY DEF Bare, Eases, NoWindow, Beyond

\* and what the frame does not notice is Bare.
LEMMA IdleBare ==
    ASSUME NEW w, NEW v, Eases(w, v), Idle(w, v)
    PROVE  Bare(w, v)
BY DEF Bare, Idle, SameFrame

\* Out of step, only the records count.
LEMMA BareDesync ==
    ASSUME NEW w, NEW v, Bare(w, v)
    PROVE  Serves(w, Desync(v))
<1> DEFINE u == Desync(v)
<1>1. IsWorld(v)
  BY BareWorld
<1>2. Eases(v, u) /\ SameFrame(v, u) /\ u.del.state = "desynced"
  BY <1>1, DesyncOk
<1> HIDE DEF u
<1>3. Eases(w, u)
  BY <1>2, EasesTrans DEF Bare
<1>4. Keeps(w, u)
  BY <1>2 DEF Keeps, InStep, Shown, Woken, Mirrors, SameFrame, Bare
<1> QED
  BY <1>3, <1>4 DEF Serves, u

\* destroy_surface() gives up the window, its grab and its region.
LEMMA DestroyOk ==
    ASSUME NEW w, IsWorld(w)
    PROVE  /\ Bare(w, DestroySurface(w)) /\ DestroySurface(w).topo = w.topo
           /\ DestroySurface(w).ok = w.ok /\ DestroySurface(w).del.screen = <<>>
           /\ ~DestroySurface(w).x.grab /\ ~DestroySurface(w).del.grabbed
           /\ DestroySurface(w).x.region = "none"
           /\ DestroySurface(w).told = w.told
           /\ DestroySurface(w).del.region = w.del.region
<1> DEFINE v == DestroySurface(w)
<1>1. DOMAIN w = WorldFields /\ DOMAIN w.del = DOMAIN ClosedDelegate /\ DOMAIN w.x = ServerFields
  BY DEF IsWorld
<1>2. /\ DOMAIN v = WorldFields /\ DOMAIN v.del = DOMAIN w.del /\ DOMAIN v.x = DOMAIN w.x
      /\ \A f \in WorldFields \ {"del", "x"} : v[f] = w[f]
      /\ \A f \in DOMAIN w.del \ {"grabbed", "surface", "mapped", "presented", "screen"} :
            v.del[f] = w.del[f]
      /\ v.del.grabbed = FALSE /\ v.del.screen = <<>>
      /\ v.x.comp = w.x.comp /\ v.x.queue = w.x.queue /\ v.x.grab = FALSE
      /\ v.x.region = "none"
  BY <1>1, ZenonT(30) DEF DestroySurface, EndGrab
<1> HIDE DEF v
<1>3. /\ v.now = w.now /\ v.topo = w.topo /\ v.svc = w.svc /\ v.sess = w.sess
      /\ v.posted = w.posted /\ v.drags = w.drags /\ v.scene = w.scene
      /\ v.flushed = w.flushed /\ v.told = w.told /\ v.note = w.note /\ v.bad = w.bad
      /\ v.calls = w.calls /\ v.ok = w.ok
  BY <1>2
<1>4. /\ v.del.state = w.del.state /\ v.del.epoch = w.del.epoch
      /\ v.del.revision = w.del.revision /\ v.del.shapes = w.del.shapes
      /\ v.del.dirty = w.del.dirty /\ v.del.lost = w.del.lost /\ v.del.wake = w.del.wake
      /\ v.del.revived = w.del.revived /\ v.del.handler = w.del.handler
      /\ v.del.window = w.del.window /\ v.del.region = w.del.region
      /\ v.del.looked = w.del.looked
  BY <1>1, <1>2
<1>5. IsWorld(v)
  BY <1>2, <1>3, <1>4 DEF IsWorld
<1>6. Eases(w, v)
  BY <1>2, <1>3, <1>4, <1>5 DEF Eases, NoWindow, Beyond
<1> QED
  BY <1>2, <1>3, <1>4, <1>6 DEF Bare, v

\* A step towards a window that shows nothing yet.
Made(w, v) ==
    /\ Bare(w, v) /\ v.topo = w.topo /\ v.told = w.told
    /\ v.del.screen = w.del.screen /\ v.del.mapped = w.del.mapped
    /\ v.del.presented = w.del.presented /\ v.del.region = w.del.region

\* Such steps can be put together.
LEMMA MadeTrans ==
    ASSUME NEW w, NEW v, NEW u, Made(w, v), Made(v, u)
    PROVE  Made(w, u)
BY BareTrans DEF Made

\* Nothing but the window, what it is, and its shape on the server.
Stage(w, v) ==
    /\ DOMAIN v = WorldFields /\ DOMAIN v.del = DOMAIN w.del /\ DOMAIN v.x = DOMAIN w.x
    /\ \A f \in WorldFields \ {"del", "x"} : v[f] = w[f]
    /\ \A f \in DOMAIN w.del \ {"window", "surface"} : v.del[f] = w.del[f]
    /\ v.x.comp = w.x.comp /\ v.x.queue = w.x.queue /\ v.x.grab = w.x.grab
    /\ v.del.window \in Nat

\* A new shape must be none, that of a new window or the one the delegate remembers.
LEMMA StageOk ==
    ASSUME NEW w, IsWorld(w), w.del.screen = <<>>, NEW v, Stage(w, v),
           v.x.region \in {"none", "default", w.x.region, w.del.region},
           v.del.surface \in {"none", "bogus"} => v.x.region = "none",
           v.x.region = "default" => v.del.surface = "partial"
    PROVE  Made(w, v) /\ v.ok = w.ok
<1>1. DOMAIN w = WorldFields /\ DOMAIN w.del = DOMAIN ClosedDelegate /\ DOMAIN w.x = ServerFields
  BY DEF IsWorld
<1>2. /\ DOMAIN v = WorldFields /\ DOMAIN v.del = DOMAIN w.del /\ DOMAIN v.x = DOMAIN w.x
      /\ v.x.comp = w.x.comp /\ v.x.queue = w.x.queue /\ v.x.grab = w.x.grab
      /\ v.del.window \in Nat
  BY DEF Stage
<1>3. /\ v.now = w.now /\ v.topo = w.topo /\ v.svc = w.svc /\ v.sess = w.sess
      /\ v.posted = w.posted /\ v.drags = w.drags /\ v.scene = w.scene
      /\ v.flushed = w.flushed /\ v.told = w.told /\ v.note = w.note /\ v.bad = w.bad
      /\ v.calls = w.calls /\ v.ok = w.ok
  BY DEF Stage
<1>4. /\ v.del.state = w.del.state /\ v.del.epoch = w.del.epoch
      /\ v.del.revision = w.del.revision /\ v.del.shapes = w.del.shapes
      /\ v.del.dirty = w.del.dirty /\ v.del.lost = w.del.lost /\ v.del.wake = w.del.wake
      /\ v.del.revived = w.del.revived /\ v.del.handler = w.del.handler
      /\ v.del.grabbed = w.del.grabbed /\ v.del.region = w.del.region
      /\ v.del.screen = w.del.screen /\ v.del.mapped = w.del.mapped
      /\ v.del.presented = w.del.presented /\ v.del.looked = w.del.looked
  BY <1>1 DEF Stage
<1>5. IsWorld(v)
  BY <1>2, <1>3, <1>4 DEF IsWorld
<1>6. Eases(w, v)
  BY <1>2, <1>3, <1>4, <1>5 DEF Eases, NoWindow, Beyond
<1> QED
  BY <1>2, <1>3, <1>4, <1>6 DEF Bare, Made

\* A request, as a step on the window.
LEMMA RequestBare ==
    ASSUME NEW w, IsWorld(w)
    PROVE  /\ Bare(w, Request(w)) /\ Request(w).topo = w.topo
           /\ Request(w).del = w.del /\ Request(w).told = w.told
BY RequestOk, IdleBare DEF Idle, SameFrame

\* A request in the middle of create_surface().
LEMMA RequestMade ==
    ASSUME NEW w, IsWorld(w)
    PROVE  /\ Made(w, Request(w)) /\ IsWorld(Request(w))
           /\ Request(w).del = w.del /\ Request(w).x = w.x
BY RequestBare, RequestOk, BareWorld DEF Made

\* A request about the window.
LEMMA WindowRequestBare ==
    ASSUME NEW w, IsWorld(w)
    PROVE  LET v == WindowRequest(w)
           IN  Bare(w, v) /\ v.topo = w.topo /\ v.del = w.del /\ v.told = w.told
BY WindowRequestOk, IdleBare DEF Idle, SameFrame

\* create_surface() puts back the region the delegate remembers, none other, and leaves
\* the shape of a new window to a window that shows nothing.
LEMMA CreateOk ==
    ASSUME NEW w, IsWorld(w), w.del.screen = <<>>, w.x.region = "none"
    PROVE  Made(w, CreateSurface(w))
<1> DEFINE a == Request(w)
           i == [a EXCEPT !.del.window = @ + 1, !.del.surface = "bogus"]
           b == NewWindow(a)
           j == [b EXCEPT !.del.surface = "partial", !.x.region = "default"]
           c == PassThrough(b)
           k == [c EXCEPT !.x.region = "none"]
           q == Request(k)
           l == [q EXCEPT !.x.region = c.del.region]
           r == RestoreRegion(c)
           g == Request(r)
           d == WithRaster(g)
           v == CreateSurface(w)
<1>1. v \in {a, b, c, r, g, d}
  <2> DEFINE B == IF a.ok THEN b ELSE a
             C == IF B.ok THEN PassThrough(B) ELSE B
             R == IF C.ok THEN RestoreRegion(C) ELSE C
             G == IF R.ok THEN Request(R) ELSE R
  <2>1. v = IF G.ok THEN WithRaster(G) ELSE G
    BY Zenon DEF CreateSurface, Then
  <2>2. c = PassThrough(b) /\ r = RestoreRegion(c) /\ g = Request(r) /\ d = WithRaster(g)
    OBVIOUS
  <2> HIDE DEF a, b, c, r, g, d, v
  <2>3. (a.ok => B = b) /\ (~a.ok => B = a)
    OBVIOUS
  <2> HIDE DEF B
  <2>4. (a.ok /\ b.ok => C = c) /\ (a.ok /\ ~b.ok => C = b) /\ (~a.ok => C = a)
    BY <2>2, <2>3
  <2> HIDE DEF C
  <2>5. /\ a.ok /\ b.ok /\ c.ok => R = r
        /\ ~(a.ok /\ b.ok /\ c.ok) => R \in {a, b, c} /\ ~R.ok
    BY <2>2, <2>4
  <2> HIDE DEF R
  <2>6. G = g \/ (G \in {a, b, c, r} /\ ~G.ok)
    BY <2>2, <2>5
  <2> HIDE DEF G
  <2> QED
    BY <2>1, <2>2, <2>6
<1>2. Made(w, a) /\ IsWorld(a) /\ a.del = w.del /\ a.x = w.x
  BY RequestMade
<1>a. b = Request(i) /\ c = Request(j)
  BY Zenon DEF NewWindow, PassThrough
<1>b. r = IF c.del.region = "none" THEN k ELSE IF q.ok THEN l ELSE q
  BY Zenon DEF RestoreRegion, Then
<1>c. g = Request(r) /\ d = [g EXCEPT !.del.surface = "full"]
  BY Zenon DEF WithRaster
<1> HIDE DEF v, a, b, c, r, g, d
<1>3. /\ Made(a, i) /\ IsWorld(i) /\ i.del.screen = <<>> /\ i.x.region = "none"
      /\ i.del.surface = "bogus" /\ i.del.region = w.del.region
  <2>1. DOMAIN a = WorldFields /\ DOMAIN a.del = DOMAIN ClosedDelegate
        /\ DOMAIN a.x = ServerFields /\ a.del.window \in Nat
    BY <1>2 DEF IsWorld
  <2>. HIDE DEF j, k, q, l
  <2>2. Stage(a, i) /\ i.del.surface = "bogus" /\ i.x = a.x
    <3>1. DOMAIN i = WorldFields /\ DOMAIN i.del = DOMAIN a.del /\ i.x = a.x
      BY <2>1
    <3>2. i.del.window = a.del.window + 1 /\ i.del.surface = "bogus"
      BY <2>1
    <3>3. \A f \in WorldFields \ {"del", "x"} : i[f] = a[f]
      BY <2>1
    <3>4. \A f \in DOMAIN a.del \ {"window", "surface"} : i.del[f] = a.del[f]
      BY <2>1
    <3> HIDE DEF i
    <3> QED
      BY <2>1, <3>1, <3>2, <3>3, <3>4 DEF Stage
  <2> HIDE DEF i
  <2>3. Made(a, i)
    BY <1>2, <2>2, StageOk
  <2> QED
    BY <1>2, <2>2, <2>3, BareWorld DEF Made
<1> HIDE DEF i
<1>4. Made(i, b) /\ IsWorld(b) /\ b.del = i.del /\ b.x = i.x
  BY <1>a, <1>3, RequestMade
<1>5. /\ Made(b, j) /\ IsWorld(j) /\ j.del.screen = <<>> /\ j.x.region = "default"
      /\ j.del.surface = "partial" /\ j.del.region = w.del.region
  <2>1. DOMAIN b = WorldFields /\ DOMAIN b.del = DOMAIN ClosedDelegate
        /\ DOMAIN b.x = ServerFields /\ b.del.window \in Nat
    BY <1>4 DEF IsWorld
  <2>2. Stage(b, j) /\ j.del.surface = "partial" /\ j.x.region = "default"
    BY <2>1 DEF Stage
  <2> HIDE DEF j
  <2>3. Made(b, j)
    BY <1>3, <1>4, <2>2, StageOk
  <2> QED
    BY <1>3, <1>4, <2>2, <2>3, BareWorld DEF Made
<1> HIDE DEF j
<1>6. Made(j, c) /\ IsWorld(c) /\ c.del = j.del /\ c.x = j.x
  BY <1>a, <1>5, RequestMade
<1>7. /\ Made(c, k) /\ IsWorld(k) /\ k.del.screen = <<>> /\ k.x.region = "none"
      /\ k.del.surface = "partial" /\ k.del.region = w.del.region
  <2>1. DOMAIN c = WorldFields /\ DOMAIN c.del = DOMAIN ClosedDelegate
        /\ DOMAIN c.x = ServerFields /\ c.del.window \in Nat
    BY <1>6 DEF IsWorld
  <2>2. Stage(c, k) /\ k.del = c.del /\ k.x.region = "none"
    BY <2>1 DEF Stage
  <2> HIDE DEF k
  <2>3. Made(c, k)
    BY <1>5, <1>6, <2>2, StageOk
  <2> QED
    BY <1>5, <1>6, <2>2, <2>3, BareWorld DEF Made
<1> HIDE DEF k
<1>8. Made(k, q) /\ IsWorld(q) /\ q.del = k.del /\ q.x = k.x
  BY <1>7, RequestMade
<1> HIDE DEF q
<1>9. ASSUME w.del.region # "none"
      PROVE  /\ Made(q, l) /\ IsWorld(l) /\ l.del.surface = "partial"
             /\ l.del.region = w.del.region /\ l.x.region = w.del.region
             /\ l.del.screen = <<>>
  <2>1. DOMAIN q = WorldFields /\ DOMAIN q.del = DOMAIN ClosedDelegate
        /\ DOMAIN q.x = ServerFields /\ q.del.window \in Nat
    BY <1>8 DEF IsWorld
  <2>2. Stage(q, l) /\ l.del = q.del /\ l.x.region = w.del.region
    BY <1>5, <1>6, <2>1 DEF Stage
  <2> HIDE DEF l
  <2>3. Made(q, l)
    BY <1>7, <1>8, <2>2, StageOk
  <2> QED
    BY <1>7, <1>8, <2>2, <2>3, BareWorld DEF Made
<1> HIDE DEF l
<1>10. /\ Made(w, a) /\ Made(w, b) /\ Made(w, c) /\ Made(w, k) /\ Made(w, q)
       /\ w.del.region # "none" => Made(w, l)
  <2>1. Made(w, i) /\ Made(w, b)
    BY <1>2, <1>3, <1>4, MadeTrans
  <2>2. Made(w, j) /\ Made(w, c)
    BY <2>1, <1>5, <1>6, MadeTrans
  <2>3. Made(w, k) /\ Made(w, q)
    BY <2>2, <1>7, <1>8, MadeTrans
  <2> QED
    BY <1>2, <1>9, <2>1, <2>2, <2>3, MadeTrans
<1>11. Made(w, r) /\ IsWorld(r) /\ r.del.screen = <<>> /\ r.x.region \in {"none", w.del.region}
       /\ r.del.region = w.del.region /\ w.del.region # "default"
  BY <1>b, <1>5, <1>6, <1>7, <1>8, <1>9, <1>10 DEF IsWorld
<1>12. Made(r, g) /\ IsWorld(g) /\ g.del = r.del /\ g.x = r.x
  BY <1>c, <1>11, RequestMade
<1>13. Made(g, d)
  <2>1. DOMAIN g = WorldFields /\ DOMAIN g.del = DOMAIN ClosedDelegate
        /\ DOMAIN g.x = ServerFields /\ g.del.window \in Nat
    BY <1>12 DEF IsWorld
  <2>2. Stage(g, d) /\ d.x = g.x /\ d.del.surface = "full"
    BY <1>c, <2>1 DEF Stage
  <2> QED
    BY <1>11, <1>12, <2>2, StageOk
<1> HIDE DEF d
<1>14. Made(w, g) /\ Made(w, d)
  BY <1>11, <1>12, <1>13, MadeTrans
<1> QED
  BY <1>1, <1>10, <1>11, <1>14 DEF v

\* map_surface() that succeeded leaves a mapped window.
LEMMA MapOk ==
    ASSUME NEW w, IsWorld(w)
    PROVE  /\ Bare(w, MapSurface(w)) /\ MapSurface(w).topo = w.topo
           /\ MapSurface(w).del.screen = w.del.screen
           /\ MapSurface(w).del.presented = w.del.presented
           /\ MapSurface(w).told = w.told
           /\ MapSurface(w).ok => MapSurface(w).del.mapped
<1> DEFINE r == WindowRequest(w)
           m == [r EXCEPT !.del.mapped = TRUE]
           v == MapSurface(w)
<1>1. v = IF ~r.ok THEN r ELSE IF r.del.surface = "none" THEN Fail(r) ELSE m
  BY DEF MapSurface, Then
<1>2. Bare(w, r) /\ r.topo = w.topo /\ r.del = w.del /\ r.told = w.told /\ IsWorld(r)
  BY WindowRequestBare, BareWorld
<1> HIDE DEF r, v
<1>3. /\ Bare(r, Fail(r)) /\ Fail(r).topo = r.topo /\ Fail(r).del = r.del
      /\ Fail(r).told = r.told /\ ~Fail(r).ok
  BY <1>2, FailOk, IdleBare DEF Idle, SameFrame
<1>4. /\ Bare(r, m) /\ m.topo = r.topo /\ m.del.screen = r.del.screen
      /\ m.del.presented = r.del.presented /\ m.told = r.told /\ m.del.mapped
  <2>1. DOMAIN r = WorldFields /\ DOMAIN r.del = DOMAIN ClosedDelegate
    BY <1>2 DEF IsWorld
  <2>2. /\ DOMAIN m = WorldFields /\ DOMAIN m.del = DOMAIN r.del /\ m.del.mapped
        /\ \A f \in WorldFields \ {"del"} : m[f] = r[f]
        /\ \A f \in DOMAIN r.del \ {"mapped"} : m.del[f] = r.del[f]
    BY <2>1
  <2> HIDE DEF m
  <2>3. /\ m.now = r.now /\ m.topo = r.topo /\ m.svc = r.svc /\ m.sess = r.sess
        /\ m.posted = r.posted /\ m.drags = r.drags /\ m.scene = r.scene /\ m.x = r.x
        /\ m.flushed = r.flushed /\ m.told = r.told /\ m.note = r.note /\ m.bad = r.bad
        /\ m.calls = r.calls /\ m.ok = r.ok
    BY <2>2
  <2>4. /\ m.del.state = r.del.state /\ m.del.epoch = r.del.epoch
        /\ m.del.revision = r.del.revision /\ m.del.shapes = r.del.shapes
        /\ m.del.dirty = r.del.dirty /\ m.del.wake = r.del.wake
        /\ m.del.revived = r.del.revived /\ m.del.handler = r.del.handler
        /\ m.del.grabbed = r.del.grabbed /\ m.del.region = r.del.region
        /\ m.del.screen = r.del.screen /\ m.del.surface = r.del.surface
        /\ m.del.presented = r.del.presented /\ m.del.window = r.del.window
        /\ m.del.looked = r.del.looked
    BY <2>1, <2>2
  <2>5. IsWorld(m)
    BY <2>2, <2>3, <2>4, <1>2 DEF IsWorld
  <2>6. Eases(r, m)
    BY <2>3, <2>4, <2>5 DEF Eases, NoWindow, Beyond
  <2> QED
    BY <2>2, <2>3, <2>4, <2>6 DEF Bare
<1> HIDE DEF m
<1>5. Bare(w, Fail(r)) /\ Bare(w, m)
  BY <1>2, <1>3, <1>4, BareTrans
<1> QED
  BY <1>1, <1>2, <1>3, <1>4, <1>5 DEF v

\* The window is given up for now: unmapped, without a grab, perhaps lost.
LEMMA LoseOk ==
    ASSUME NEW w, IsWorld(w)
    PROVE  LET v == [Unmap(ReleaseBestEffort(w)) EXCEPT !.del.lost = TRUE]
           IN  Bare(w, v) /\ v.topo = w.topo /\ v.told = w.told
<1> DEFINE a == ReleaseBestEffort(w)
           b == Unmap(a)
           v == [b EXCEPT !.del.lost = TRUE]
<1>1. DOMAIN w = WorldFields /\ DOMAIN w.del = DOMAIN ClosedDelegate /\ DOMAIN w.x = ServerFields
  BY DEF IsWorld
<1>2. /\ DOMAIN a = WorldFields /\ DOMAIN a.del = DOMAIN w.del /\ DOMAIN a.x = DOMAIN w.x
      /\ \A f \in WorldFields \ {"del", "x"} : a[f] = w[f]
      /\ \A f \in DOMAIN w.del \ {"grabbed"} : a.del[f] = w.del[f]
      /\ \A f \in DOMAIN w.x \ {"grab"} : a.x[f] = w.x[f]
      /\ a.x.grab => w.x.grab /\ a.del.grabbed = w.del.grabbed
  BY <1>1 DEF ReleaseBestEffort, EndGrab
<1> HIDE DEF a
<1>3. /\ DOMAIN b = WorldFields /\ DOMAIN b.del = DOMAIN a.del /\ DOMAIN b.x = DOMAIN a.x
      /\ \A f \in WorldFields \ {"del", "x"} : b[f] = a[f]
      /\ \A f \in DOMAIN a.del \ {"mapped"} : b.del[f] = a.del[f]
      /\ \A f \in DOMAIN a.x \ {"grab"} : b.x[f] = a.x[f]
      /\ b.x.grab => a.x.grab
  BY <1>1, <1>2 DEF Unmap, EndGrab
<1> HIDE DEF b
<1>4. /\ DOMAIN v = WorldFields /\ DOMAIN v.del = DOMAIN b.del
      /\ \A f \in WorldFields \ {"del"} : v[f] = b[f]
      /\ \A f \in DOMAIN b.del \ {"lost"} : v.del[f] = b.del[f]
  BY <1>1, <1>2, <1>3
<1> HIDE DEF v
<1>5. /\ v.now = w.now /\ v.topo = w.topo /\ v.svc = w.svc /\ v.sess = w.sess
      /\ v.posted = w.posted /\ v.drags = w.drags /\ v.scene = w.scene /\ v.x = b.x
      /\ v.flushed = w.flushed /\ v.told = w.told /\ v.note = w.note /\ v.bad = w.bad
      /\ v.calls = w.calls /\ v.ok = w.ok
  BY <1>2, <1>3, <1>4
<1>6. /\ DOMAIN v.x = ServerFields /\ v.x.comp = w.x.comp /\ v.x.region = w.x.region
      /\ v.x.queue = w.x.queue
  BY <1>1, <1>2, <1>3, <1>5
<1>7. \A f \in DOMAIN w.del \ {"grabbed", "mapped", "lost"} : v.del[f] = w.del[f]
  BY <1>1, <1>2, <1>3, <1>4
<1>8. v.del.grabbed = a.del.grabbed
  BY <1>1, <1>2, <1>3, <1>4
<1>9. /\ v.del.state = w.del.state /\ v.del.epoch = w.del.epoch
      /\ v.del.revision = w.del.revision /\ v.del.shapes = w.del.shapes
      /\ v.del.dirty = w.del.dirty /\ v.del.wake = w.del.wake
      /\ v.del.revived = w.del.revived /\ v.del.handler = w.del.handler
      /\ v.del.region = w.del.region /\ v.del.surface = w.del.surface
      /\ v.del.window = w.del.window /\ v.del.looked = w.del.looked
      /\ v.del.screen = w.del.screen
  BY <1>1, <1>7
<1>10. v.x.grab => w.x.grab /\ v.del.grabbed = w.del.grabbed
  BY <1>2, <1>3, <1>5, <1>8
<1>11. IsWorld(v)
  BY <1>1, <1>2, <1>3, <1>4, <1>5, <1>6, <1>9 DEF IsWorld
<1>12. Eases(w, v)
  BY <1>5, <1>6, <1>9, <1>10, <1>11 DEF Eases, NoWindow, Beyond
<1> QED
  BY <1>5, <1>6, <1>9, <1>12 DEF Bare, v, b, a

\* The delegate has something to say to its handler.
LEMMA DispatchOk ==
    ASSUME NEW w, IsWorld(w), NEW kind \in {"press", "motion", "release", "ungrab"}
    PROVE  LET v == Dispatch(w, kind)
           IN  /\ Eases(w, v) /\ Idle(w, v) /\ v.del = w.del /\ v.x = w.x /\ v.svc = w.svc
               /\ v.ok = w.ok
<1> DEFINE v == Dispatch(w, kind)
           e == [kind |-> kind, id |-> w.del.handler]
<1>1. CASE w.del.handler = 0
  <2>1. v = w
    BY <1>1 DEF Dispatch
  <2> QED
    BY <2>1, EasesSelf DEF Idle, SameFrame
<1>2. CASE w.del.handler # 0
  <2>1. v = [w EXCEPT !.told = Append(@, e)]
    BY <1>2 DEF Dispatch
  <2>2. DOMAIN w = WorldFields /\ w.told \in Seq(EditEvents) /\ w.del.handler \in Nat
    BY DEF IsWorld
  <2>3. Append(w.told, e) \in Seq(EditEvents)
    BY <2>2 DEF EditEvents
  <2> HIDE DEF v, e
  <2>4. /\ DOMAIN v = WorldFields /\ v.told = Append(w.told, e)
        /\ \A f \in WorldFields \ {"told"} : v[f] = w[f]
    BY <2>1, <2>2
  <2>5. /\ v.now = w.now /\ v.topo = w.topo /\ v.svc = w.svc /\ v.sess = w.sess
        /\ v.posted = w.posted /\ v.drags = w.drags /\ v.scene = w.scene /\ v.x = w.x
        /\ v.flushed = w.flushed /\ v.note = w.note /\ v.bad = w.bad
        /\ v.calls = w.calls /\ v.ok = w.ok /\ v.del = w.del
    BY <2>4
  <2>6. IsWorld(v)
    BY <2>3, <2>4, <2>5 DEF IsWorld
  <2> QED
    BY <2>5, <2>6 DEF Eases, NoWindow, Beyond, Idle, SameFrame, v
<1> QED
  BY <1>1, <1>2

-----------------------------------------------------------------------------
(* The event loop.                                                         *)

\* In step, the frame on the screen is that of the records, or both are empty.
OnFrame(w) ==
    w.del.state = "synced" /\ ~w.del.revived =>
        \/ w.del.presented /\ ~w.del.dirty
        \/ w.del.screen = <<>> /\ DOMAIN w.del.shapes = {}

\* What the delegate does about an event leaves the scene alone, and a frame that was
\* presented too, unless the delegate falls out of step or is revived.
Tracks(w, v) ==
    /\ Serves(w, v) /\ v.scene = w.scene /\ v.svc.desync = w.svc.desync
    /\ ~w.svc.desync /\ InStep(w, View(w.scene)) /\ OnFrame(w) => OnFrame(v)

\* Tracks is transitive,
LEMMA TracksTrans ==
    ASSUME NEW w, NEW v, NEW u, Tracks(w, v), Tracks(v, u)
    PROVE  Tracks(w, u)
<1>1. Serves(w, u)
  BY ServesTrans DEF Tracks
<1>2. InStep(w, View(w.scene)) => InStep(v, View(v.scene))
  BY DEF Tracks, Serves, Keeps
<1> QED
  BY <1>1, <1>2 DEF Tracks

\* it keeps the shape of the world,
LEMMA TracksWorld ==
    ASSUME NEW w, NEW v, Tracks(w, v)
    PROVE  IsWorld(v) /\ v.now = w.now
BY DEF Tracks, Serves, Eases, Beyond

\* and what the frame does not notice is Tracks.
LEMMA IdleTracks ==
    ASSUME NEW w, NEW v, Eases(w, v), Idle(w, v)
    PROVE  Tracks(w, v)
<1>1. Serves(w, v)
  BY IdleKeeps DEF Serves, Eases, Beyond
<1> QED
  BY <1>1 DEF Tracks, Idle, SameFrame, OnFrame

\* Whatever was done to the window, a delegate that says it is out of step is excused.
LEMMA DesyncTracks ==
    ASSUME NEW w, NEW v, Bare(w, v)
    PROVE  Tracks(w, Desync(v)) /\ ~Desync(v).ok
<1>1. IsWorld(v)
  BY BareWorld
<1>2. SameFrame(v, Desync(v)) /\ Desync(v).del.state = "desynced" /\ ~Desync(v).ok
  BY <1>1, DesyncOk
<1>3. Serves(w, Desync(v))
  BY BareDesync
<1> QED
  BY <1>2, <1>3 DEF Tracks, SameFrame, OnFrame, Bare

\* Bare is reflexive.
LEMMA SelfBare ==
    ASSUME NEW w, IsWorld(w)
    PROVE  Bare(w, w)
BY EasesSelf DEF Bare

\* notify_edit_surface_invalidated() only speaks.
LEMMA InvalidatedOk ==
    ASSUME NEW w, IsWorld(w), NEW yes
    PROVE  Tracks(w, Invalidated(w, yes)) /\ Idle(w, Invalidated(w, yes))
<1>1. Invalidated(w, yes) = w \/ Invalidated(w, yes) = Dispatch(w, "ungrab")
  BY DEF Invalidated
<1>2. Eases(w, Dispatch(w, "ungrab")) /\ Idle(w, Dispatch(w, "ungrab"))
  BY DispatchOk
<1>3. Eases(w, w) /\ Idle(w, w)
  BY EasesSelf DEF Idle, SameFrame
<1> QED
  BY <1>1, <1>2, <1>3, IdleTracks

\* handle_compositor_owner() of a compositor that left.
LEMMA LostOk ==
    ASSUME NEW w, IsWorld(w)
    PROVE  Tracks(w, CompositorLost(w))
<1> DEFINE a == [Unmap(ReleaseBestEffort(w)) EXCEPT !.del.lost = TRUE]
           b == Desync(a)
<1>1. Bare(w, a)
  BY LoseOk
<1>2. CompositorLost(w) = Invalidated(b, w.del.grabbed)
  BY DEF CompositorLost
<1> HIDE DEF a
<1>3. Tracks(w, b)
  BY <1>1, DesyncTracks
<1> HIDE DEF b
<1>4. Tracks(b, Invalidated(b, w.del.grabbed))
  BY <1>3, TracksWorld, InvalidatedOk
<1> QED
  BY <1>2, <1>3, <1>4, TracksTrans

\* A frame is due, and the wakeup for it is set.
LEMMA AwakeOk ==
    ASSUME NEW w, IsWorld(w), w.del.dirty, w.del.state # "closed"
    PROVE  LET v == ScheduleWakeup(w)
           IN  /\ Eases(w, v) /\ Woken(v)
               /\ v.scene = w.scene /\ v.topo = w.topo /\ v.svc = w.svc /\ v.x = w.x
               /\ v.told = w.told /\ v.posted = w.posted /\ v.ok = w.ok
               /\ \A f \in DOMAIN ClosedDelegate \ {"wake"} : v.del[f] = w.del[f]
               /\ Shown(w) => Shown(v)
               /\ \A a : InStep(w, a) => InStep(v, a)
<1> DEFINE v == ScheduleWakeup(w)
<1>1. /\ Outside(w, v) /\ DOMAIN v = WorldFields /\ DOMAIN v.del = DOMAIN w.del
      /\ \A f \in DOMAIN w.del \ {"wake"} : v.del[f] = w.del[f]
      /\ v.del.wake \in Nat /\ v.del.wake # Never
  BY ScheduleOk
<1> HIDE DEF v
<1>2. DOMAIN w.del = DOMAIN ClosedDelegate
  BY DEF IsWorld
<1>3. /\ v.now = w.now /\ v.topo = w.topo /\ v.svc = w.svc /\ v.sess = w.sess
      /\ v.posted = w.posted /\ v.drags = w.drags /\ v.scene = w.scene /\ v.x = w.x
      /\ v.flushed = w.flushed /\ v.told = w.told /\ v.note = w.note /\ v.bad = w.bad
      /\ v.calls = w.calls /\ v.ok = w.ok
  BY <1>1 DEF Outside
<1>4. /\ v.del.state = w.del.state /\ v.del.epoch = w.del.epoch
      /\ v.del.revision = w.del.revision /\ v.del.shapes = w.del.shapes
      /\ v.del.dirty = w.del.dirty /\ v.del.mapped = w.del.mapped
      /\ v.del.revived = w.del.revived /\ v.del.handler = w.del.handler
      /\ v.del.grabbed = w.del.grabbed /\ v.del.region = w.del.region
      /\ v.del.screen = w.del.screen /\ v.del.surface = w.del.surface
      /\ v.del.presented = w.del.presented /\ v.del.window = w.del.window
      /\ v.del.looked = w.del.looked
  BY <1>1, <1>2
<1>5. IsWorld(v)
  BY <1>1, <1>2, <1>3, <1>4 DEF IsWorld
<1>6. Eases(w, v)
  BY <1>3, <1>4, <1>5 DEF Eases, NoWindow, Beyond
<1>7. Woken(v) /\ (Shown(w) => Shown(v)) /\ \A a : InStep(w, a) => InStep(v, a)
  BY <1>1, <1>3, <1>4 DEF Woken, Shown, InStep, Mirrors
<1> QED
  BY <1>1, <1>2, <1>3, <1>6, <1>7 DEF v

\* The window of the world is mapped but shows nothing yet.
LEMMA SurfaceMade ==
    ASSUME NEW w, IsWorld(w)
    PROVE  LET v == Then(CreateSurface(DestroySurface(w)), MapSurface)
           IN  /\ Bare(w, v) /\ v.topo = w.topo /\ v.del.screen = <<>>
               /\ v.ok => v.del.mapped
<1> DEFINE a == DestroySurface(w)
           b == CreateSurface(a)
           c == MapSurface(b)
           v == Then(b, MapSurface)
<1>1. Bare(w, a) /\ a.topo = w.topo /\ a.del.screen = <<>> /\ a.x.region = "none"
  BY DestroyOk
<1> HIDE DEF a
<1>2. Bare(a, b) /\ b.topo = a.topo /\ b.del.screen = a.del.screen
  BY <1>1, BareWorld, CreateOk DEF Made
<1> HIDE DEF b
<1>3. Bare(b, c) /\ c.topo = b.topo /\ c.del.screen = b.del.screen /\ (c.ok => c.del.mapped)
  BY <1>2, BareWorld, MapOk
<1>4. v = IF b.ok THEN c ELSE b
  BY DEF Then
<1> HIDE DEF c
<1>5. Bare(w, b) /\ Bare(w, c)
  BY <1>1, <1>2, <1>3, BareTrans
<1> QED
  BY <1>1, <1>2, <1>3, <1>4, <1>5 DEF b, a

\* handle_compositor_owner() of one that came back.
LEMMA BackOk ==
    ASSUME NEW w, IsWorld(w)
    PROVE  Tracks(w, CompositorBack(w))
<1> DEFINE m == Then(CreateSurface(DestroySurface(w)), MapSurface)
           e == [m EXCEPT !.del.state = "synced", !.del.lost = FALSE,
                          !.del.dirty = TRUE, !.del.presented = FALSE,
                          !.del.presentedRevision = 0, !.del.revived = TRUE]
           v == ScheduleWakeup(e)
           u == Desync(DestroySurface(m))
           z == IF m.ok THEN v ELSE u
<1>1. Bare(w, m) /\ (m.ok => m.del.mapped)
  BY SurfaceMade
<1>2. CompositorBack(w) = Invalidated(z, w.del.grabbed)
  BY DEF CompositorBack, Either
<1> HIDE DEF m
<1>3. IsWorld(m)
  BY <1>1, BareWorld
<1>4. Tracks(w, u)
  BY <1>1, <1>3, DestroyOk, BareTrans, DesyncTracks
<1>5. ASSUME m.ok PROVE Tracks(w, v)
  <2>1. DOMAIN m = WorldFields /\ DOMAIN m.del = DOMAIN ClosedDelegate
    BY <1>3 DEF IsWorld
  <2>2. /\ DOMAIN e = WorldFields /\ DOMAIN e.del = DOMAIN m.del
        /\ \A f \in WorldFields \ {"del"} : e[f] = m[f]
        /\ \A f \in DOMAIN m.del \ {"state", "lost", "dirty", "presented",
                                    "presentedRevision", "revived"} : e.del[f] = m.del[f]
        /\ e.del.state = "synced" /\ e.del.dirty /\ e.del.revived
    BY <2>1
  <2> HIDE DEF e
  <2>3. /\ e.now = m.now /\ e.topo = m.topo /\ e.svc = m.svc /\ e.sess = m.sess
        /\ e.posted = m.posted /\ e.drags = m.drags /\ e.scene = m.scene /\ e.x = m.x
        /\ e.flushed = m.flushed /\ e.told = m.told /\ e.note = m.note /\ e.bad = m.bad
        /\ e.calls = m.calls /\ e.ok = m.ok
    BY <2>2
  <2>4. /\ e.del.epoch = m.del.epoch /\ e.del.mapped = m.del.mapped
        /\ e.del.revision = m.del.revision /\ e.del.shapes = m.del.shapes
        /\ e.del.wake = m.del.wake /\ e.del.handler = m.del.handler
        /\ e.del.grabbed = m.del.grabbed /\ e.del.region = m.del.region
        /\ e.del.surface = m.del.surface /\ e.del.window = m.del.window
        /\ e.del.looked = m.del.looked /\ e.del.screen = m.del.screen
    BY <2>1, <2>2
  <2>5. IsWorld(e)
    BY <2>2, <2>3, <2>4, <1>3 DEF IsWorld
  <2>6. Eases(m, e)
    BY <2>3, <2>4, <2>5 DEF Eases, NoWindow, Beyond
  <2>7. /\ Eases(e, v) /\ Woken(v) /\ v.scene = e.scene /\ v.svc = e.svc
        /\ \A f \in DOMAIN ClosedDelegate \ {"wake"} : v.del[f] = e.del[f]
        /\ Shown(e) => Shown(v)
        /\ \A a : InStep(e, a) => InStep(v, a)
    BY <2>2, <2>5, AwakeOk
  <2> HIDE DEF v
  <2>8. Shown(e)
    BY <2>2, <2>4, <1>1, <1>5 DEF Shown
  <2>9. InStep(w, View(w.scene)) => InStep(e, View(w.scene))
    BY <2>2, <2>3, <2>4, <1>1 DEF InStep, Mirrors, Bare
  <2>10. Eases(w, v)
    BY <1>1, <2>6, <2>7, EasesTrans DEF Bare
  <2>11. v.scene = w.scene /\ v.svc.desync = w.svc.desync /\ v.del.revived
    BY <1>1, <2>2, <2>3, <2>7 DEF Bare
  <2> QED
    BY <2>7, <2>8, <2>9, <2>10, <2>11 DEF Tracks, Serves, Keeps, OnFrame
<1> HIDE DEF u, v
<1>6. Tracks(w, z)
  BY <1>4, <1>5
<1> HIDE DEF z
<1>7. Tracks(z, Invalidated(z, w.del.grabbed))
  BY <1>6, TracksWorld, InvalidatedOk
<1> QED
  BY <1>2, <1>6, <1>7, TracksTrans

\* Only what waits to be said or to be read has changed.
Quiet(w, v) ==
    /\ DOMAIN v = WorldFields
    /\ \A f \in WorldFields \ {"told", "posted", "halt", "ok", "x", "note"} : v[f] = w[f]
    /\ v.note = w.note
    /\ v.told \in Seq(EditEvents) /\ v.posted \in Seq(EditEvents) /\ v.ok \in BOOLEAN
    /\ DOMAIN v.x = ServerFields /\ v.x.comp = w.x.comp /\ v.x.grab = w.x.grab
    /\ v.x.region = w.x.region /\ v.x.queue \in Seq(ServerEvents)

\* What is said or read leaves the delegate in step.
LEMMA QuietOk ==
    ASSUME NEW w, NEW v, IsWorld(w), Quiet(w, v)
    PROVE  Eases(w, v) /\ Idle(w, v) /\ v.del = w.del /\ Tracks(w, v)
<1>1. /\ v.now = w.now /\ v.topo = w.topo /\ v.svc = w.svc /\ v.sess = w.sess
      /\ v.drags = w.drags /\ v.scene = w.scene
      /\ v.flushed = w.flushed /\ v.bad = w.bad
      /\ v.calls = w.calls /\ v.del = w.del
  BY DEF Quiet
<1>2. IsWorld(v)
  BY <1>1 DEF IsWorld, Quiet
<1>3. Eases(w, v) /\ Idle(w, v)
  BY <1>1, <1>2 DEF Eases, NoWindow, Beyond, Idle, SameFrame, Quiet
<1> QED
  BY <1>1, <1>3, IdleTracks

\* Events of a session that go through the reactor.
LEMMA DeferredOk ==
    ASSUME NEW w, IsWorld(w)
    PROVE  Tracks(w, Deferred(w)) /\ Deferred(w).del = w.del /\ Deferred(w).ok = w.ok
           /\ Deferred(w).topo = w.topo /\ Deferred(w).svc = w.svc /\ Eases(w, Deferred(w))
<1> DEFINE v == Deferred(w)
<1>1. DOMAIN w = WorldFields
  BY DEF IsWorld
<1>2. /\ DOMAIN v = WorldFields /\ v.posted = w.posted \o w.told /\ v.told = <<>>
      /\ \A f \in WorldFields \ {"posted", "told"} : v[f] = w[f]
  BY <1>1 DEF Deferred
<1>3. v.posted \in Seq(EditEvents) /\ v.told \in Seq(EditEvents)
  <2>1. w.posted \in Seq(EditEvents) /\ w.told \in Seq(EditEvents)
    BY DEF IsWorld
  <2> QED
    BY <2>1, <1>2
<1> HIDE DEF v
<1>4. Quiet(w, v)
  BY <1>2, <1>3 DEF Quiet, IsWorld
<1> QED
  BY <1>2, <1>4, QuietOk DEF v

\* A compositor found missing in the middle of a handler.
LEMMA BareLost ==
    ASSUME NEW w, NEW o, Bare(w, o)
    PROVE  /\ Tracks(w, CompositorLost(o)) /\ ~CompositorLost(o).ok
           /\ CompositorLost(o).del.state = "desynced"
           /\ CompositorLost(o).topo = o.topo
<1> DEFINE a == [Unmap(ReleaseBestEffort(o)) EXCEPT !.del.lost = TRUE]
           b == Desync(a)
           v == CompositorLost(o)
<1>1. IsWorld(o)
  BY BareWorld
<1>2. Bare(o, a) /\ a.topo = o.topo
  BY <1>1, LoseOk
<1>3. v = Invalidated(b, o.del.grabbed)
  BY DEF CompositorLost
<1> HIDE DEF a, v
<1>4. Tracks(w, b) /\ ~b.ok /\ b.topo = a.topo /\ b.del.state = "desynced"
  BY <1>2, BareTrans, BareWorld, DesyncTracks, DesyncOk DEF SameFrame
<1> HIDE DEF b
<1>5. IsWorld(b)
  BY <1>4, TracksWorld
<1>6. Tracks(b, v) /\ Idle(b, v)
  BY <1>3, <1>5, InvalidatedOk
<1>7. v = b \/ v = Dispatch(b, "ungrab")
  BY <1>3 DEF Invalidated
<1>8. ~v.ok
  BY <1>4, <1>5, <1>7, DispatchOk
<1> QED
  BY <1>2, <1>4, <1>6, <1>8, TracksTrans DEF v, Idle, SameFrame

\* The screens have changed: another topology, no input region to put back.
LEMMA ReshapeOk ==
    ASSUME NEW w, IsWorld(w)
    PROVE  LET v == [w EXCEPT !.topo = @ + 1, !.del.region = "none"] IN Bare(w, v)
<1> DEFINE v == [w EXCEPT !.topo = @ + 1, !.del.region = "none"]
<1>1. DOMAIN w = WorldFields /\ DOMAIN w.del = DOMAIN ClosedDelegate
  BY DEF IsWorld
<1>2. /\ DOMAIN v = WorldFields /\ DOMAIN v.del = DOMAIN w.del
      /\ \A f \in WorldFields \ {"del", "topo"} : v[f] = w[f]
      /\ \A f \in DOMAIN w.del \ {"region"} : v.del[f] = w.del[f]
      /\ v.del.region = "none"
  BY <1>1
<1> HIDE DEF v
<1>3. /\ v.now = w.now /\ v.svc = w.svc /\ v.sess = w.sess
      /\ v.posted = w.posted /\ v.drags = w.drags /\ v.scene = w.scene /\ v.x = w.x
      /\ v.flushed = w.flushed /\ v.told = w.told /\ v.note = w.note /\ v.bad = w.bad
      /\ v.calls = w.calls /\ v.ok = w.ok
  BY <1>2
<1>4. /\ v.del.state = w.del.state /\ v.del.epoch = w.del.epoch
      /\ v.del.revision = w.del.revision /\ v.del.shapes = w.del.shapes
      /\ v.del.dirty = w.del.dirty /\ v.del.wake = w.del.wake
      /\ v.del.revived = w.del.revived /\ v.del.handler = w.del.handler
      /\ v.del.grabbed = w.del.grabbed /\ v.del.surface = w.del.surface
      /\ v.del.window = w.del.window /\ v.del.looked = w.del.looked
      /\ v.del.screen = w.del.screen
  BY <1>1, <1>2
<1>5. IsWorld(v)
  BY <1>1, <1>2, <1>3, <1>4 DEF IsWorld
<1>6. Eases(w, v)
  BY <1>2, <1>3, <1>4, <1>5 DEF Eases, NoWindow, Beyond
<1> QED
  BY <1>3, <1>4, <1>6 DEF Bare, v

\* The frame starts anew.
Afresh(m) == [m EXCEPT !.del.presented = FALSE, !.del.presentedRevision = 0]

\* A new surface has shown nothing yet.
LEMMA AfreshOk ==
    ASSUME NEW w, IsWorld(w)
    PROVE  LET v == Afresh(w)
               e == [v EXCEPT !.del.dirty = TRUE]
           IN  /\ Bare(w, v)
               /\ Eases(w, e) /\ e.scene = w.scene /\ e.svc = w.svc /\ e.topo = w.topo
               /\ \A f \in DOMAIN ClosedDelegate \ {"dirty", "presented", "presentedRevision"} :
                     e.del[f] = w.del[f]
               /\ e.del.dirty
<1> DEFINE v == Afresh(w)
           e == [v EXCEPT !.del.dirty = TRUE]
<1>1. DOMAIN w = WorldFields /\ DOMAIN w.del = DOMAIN ClosedDelegate
  BY DEF IsWorld
<1>2. /\ DOMAIN v = WorldFields /\ DOMAIN v.del = DOMAIN w.del
      /\ \A f \in WorldFields \ {"del"} : v[f] = w[f]
      /\ \A f \in DOMAIN w.del \ {"presented", "presentedRevision"} : v.del[f] = w.del[f]
  BY <1>1 DEF Afresh
<1> HIDE DEF v
<1>3. /\ DOMAIN e = WorldFields /\ DOMAIN e.del = DOMAIN w.del
      /\ \A f \in WorldFields \ {"del"} : e[f] = w[f]
      /\ \A f \in DOMAIN w.del \ {"dirty", "presented", "presentedRevision"} :
            e.del[f] = w.del[f]
      /\ e.del.dirty
  BY <1>1, <1>2
<1> HIDE DEF e
<1>4. ASSUME NEW u, DOMAIN u = WorldFields, DOMAIN u.del = DOMAIN w.del,
             \A f \in WorldFields \ {"del"} : u[f] = w[f],
             \A f \in DOMAIN w.del \ {"dirty", "presented", "presentedRevision"} :
                u.del[f] = w.del[f]
      PROVE  /\ Eases(w, u) /\ u.scene = w.scene /\ u.svc = w.svc /\ u.topo = w.topo
             /\ u.del.dirty = w.del.dirty => Bare(w, u)
  <2>3. /\ u.now = w.now /\ u.svc = w.svc /\ u.sess = w.sess /\ u.topo = w.topo
        /\ u.posted = w.posted /\ u.drags = w.drags /\ u.scene = w.scene /\ u.x = w.x
        /\ u.flushed = w.flushed /\ u.told = w.told /\ u.note = w.note /\ u.bad = w.bad
        /\ u.calls = w.calls /\ u.ok = w.ok
    BY <1>4
  <2>4. /\ u.del.state = w.del.state /\ u.del.epoch = w.del.epoch
        /\ u.del.revision = w.del.revision /\ u.del.shapes = w.del.shapes
        /\ u.del.wake = w.del.wake
        /\ u.del.revived = w.del.revived /\ u.del.handler = w.del.handler
        /\ u.del.grabbed = w.del.grabbed /\ u.del.surface = w.del.surface
        /\ u.del.window = w.del.window /\ u.del.region = w.del.region
        /\ u.del.looked = w.del.looked /\ u.del.screen = w.del.screen
    BY <1>1, <1>4
  <2>5. IsWorld(u)
    BY <1>1, <1>4, <2>3, <2>4 DEF IsWorld
  <2>6. Eases(w, u)
    BY <2>3, <2>4, <2>5 DEF Eases, NoWindow, Beyond
  <2> QED
    BY <2>3, <2>4, <2>6 DEF Bare
<1>5. v.del.dirty = w.del.dirty
  BY <1>1, <1>2
<1> QED
  BY <1>1, <1>2, <1>3, <1>4, <1>5 DEF e, v

\* A delegate that has had no delta shows nothing, on whatever screens.
LEMMA EmptyFrame ==
    ASSUME NEW w, NEW m, IsWorld(w), Bare(w, m), m.ok, m.del.mapped, m.del.screen = <<>>,
           m.del.epoch = None
    PROVE  Tracks(w, ScheduleWakeup([Afresh(m) EXCEPT !.del.dirty = TRUE]))
<1> DEFINE e == [Afresh(m) EXCEPT !.del.dirty = TRUE]
           v == ScheduleWakeup(e)
<1>1. IsWorld(m)
  BY BareWorld
<1>2. /\ Eases(m, e) /\ e.scene = m.scene /\ e.svc = m.svc /\ e.topo = m.topo
      /\ \A f \in DOMAIN ClosedDelegate \ {"dirty", "presented", "presentedRevision"} :
            e.del[f] = m.del[f]
      /\ e.del.dirty
  BY <1>1, AfreshOk
<1> HIDE DEF e
<1>3. /\ e.del.state = m.del.state /\ e.del.shapes = m.del.shapes
      /\ e.del.epoch = m.del.epoch /\ e.del.revision = m.del.revision
      /\ e.del.mapped = m.del.mapped /\ e.del.screen = m.del.screen
      /\ e.del.revived = m.del.revived
  BY <1>2
<1>4. IsWorld(e)
  BY <1>2 DEF Eases, Beyond
<1>5. /\ Eases(e, v) /\ Woken(v) /\ v.scene = e.scene /\ v.svc = e.svc /\ v.topo = e.topo
      /\ v.del.state = e.del.state /\ v.del.revived = e.del.revived
      /\ v.del.shapes = e.del.shapes /\ v.del.screen = e.del.screen
      /\ Shown(e) => Shown(v)
      /\ \A a : InStep(e, a) => InStep(v, a)
  <2>1. CASE e.del.state = "closed"
    <3>1. v = e
      BY <2>1 DEF ScheduleWakeup
    <3>2. Woken(e)
      BY <2>1 DEF Woken
    <3> HIDE DEF v
    <3> QED
      BY <3>1, <3>2, <1>4, EasesSelf
  <2>2. CASE e.del.state # "closed"
    BY <2>2, <1>2, <1>4, AwakeOk
  <2> QED
    BY <2>1, <2>2
<1> HIDE DEF v
<1>6. Shown(e)
  BY <1>2, <1>3 DEF Shown
<1>7. ASSUME InStep(w, View(w.scene)), ~w.svc.desync
      PROVE  InStep(e, View(w.scene)) /\ DOMAIN e.del.shapes = {}
  <2>1. Mirrors(w.del, View(w.scene)) /\ w.del.epoch = None
    BY <1>7 DEF InStep, Bare
  <2>2. w.scene.epoch \in Nat
    BY DEF IsWorld, AtRest, IsScene
  <2>3. w.scene.live = <<>> /\ DOMAIN w.del.shapes = {}
    BY <2>1, <2>2, OverlayAssumption DEF Mirrors, View
  <2>4. e.del.shapes = w.del.shapes /\ w.del.shapes = [id \in DOMAIN w.del.shapes |-> w.del.shapes[id]]
    BY <1>3 DEF Bare, IsWorld, IsShapes
  <2>5. View(w.scene).live = <<>> /\ DOMAIN View(w.scene).live = {}
    BY <2>3 DEF View
  <2>6. e.del.shapes = Resolved(View(w.scene).live, e.topo)
    BY <2>3, <2>4, <2>5 DEF Resolved
  <2>7. Mirrors(e.del, View(w.scene))
    BY <2>1, <1>3 DEF Mirrors, Bare
  <2> QED
    BY <2>3, <2>4, <2>6, <2>7 DEF InStep
<1>8. e.svc.desync = w.svc.desync /\ e.scene = w.scene
  BY <1>2 DEF Bare
<1>9. InStep(w, View(w.scene)) => InStep(v, View(v.scene))
  <2>1. w.svc.desync => InStep(e, View(w.scene))
    BY <1>8 DEF InStep
  <2> QED
    BY <2>1, <1>5, <1>7, <1>8
<1>10. Eases(w, v)
  BY <1>2, <1>5, EasesTrans DEF Bare
<1>11. Serves(w, v)
  BY <1>5, <1>6, <1>9, <1>10 DEF Serves, Keeps
<1>12. v.del.screen = <<>>
  BY <1>3, <1>5
<1> QED
  BY <1>5, <1>7, <1>8, <1>11, <1>12 DEF Tracks, OnFrame, v, e

\* handle_topology_change(), wherever it fails.
LEMMA TopologyOk ==
    ASSUME NEW w, IsWorld(w)
    PROVE  Tracks(w, TopologyChange(w))
<1> DEFINE r == Request(w)
           t == [r EXCEPT !.topo = @ + 1, !.del.region = "none"]
           d == DestroySurface(t)
           c == CreateSurface(d)
           o == Then(c, Request)
           m == MapSurface(o)
           f == Afresh(m)
           k == IF m.del.epoch # None THEN Desync(f)
                ELSE ScheduleWakeup([f EXCEPT !.del.dirty = TRUE])
           s == IF o.x.comp THEN (IF m.ok THEN k ELSE Desync(m)) ELSE CompositorLost(o)
           n == IF o.ok THEN s ELSE Desync(o)
<1>1. TopologyChange(w) = IF r.ok THEN Invalidated(n, TRUE) ELSE Desync(r)
  BY DEF TopologyChange, Either, Afresh
<1>2. Bare(w, r) /\ IsWorld(r)
  BY RequestBare, BareWorld
<1> HIDE DEF r
<1>3. Bare(w, t) /\ IsWorld(t)
  BY <1>2, ReshapeOk, BareTrans, BareWorld, Zenon
<1> HIDE DEF t
<1>4. Bare(w, d) /\ IsWorld(d) /\ d.del.screen = <<>> /\ d.x.region = "none"
  BY <1>3, DestroyOk, BareTrans, BareWorld
<1> HIDE DEF d
<1>5. Bare(w, c) /\ IsWorld(c) /\ c.del.screen = <<>>
  BY <1>4, CreateOk, BareTrans, BareWorld DEF Made
<1> HIDE DEF c
<1>6. Bare(w, o) /\ IsWorld(o) /\ o.del.screen = <<>>
  <2>1. Bare(c, Request(c)) /\ Request(c).del = c.del
    BY <1>5, RequestBare
  <2>2. o = Request(c) \/ o = c
    BY DEF Then
  <2> HIDE DEF o
  <2> QED
    BY <2>1, <2>2, <1>5, BareTrans, BareWorld
<1> HIDE DEF o
<1>7. Bare(w, m) /\ IsWorld(m) /\ m.del.screen = <<>> /\ (m.ok => m.del.mapped)
  BY <1>6, MapOk, BareTrans, BareWorld
<1> HIDE DEF m
<1>8. ASSUME m.ok PROVE Tracks(w, k)
  <2>1. Bare(w, f)
    BY <1>7, AfreshOk, BareTrans
  <2>2. Tracks(w, Desync(f))
    BY <2>1, DesyncTracks
  <2>3. ASSUME m.del.epoch = None
        PROVE  Tracks(w, ScheduleWakeup([f EXCEPT !.del.dirty = TRUE]))
    BY <1>7, <1>8, <2>3, EmptyFrame
  <2> HIDE DEF f
  <2> QED
    BY <2>2, <2>3
<1>9. Tracks(w, Desync(m)) /\ Tracks(w, Desync(o)) /\ Tracks(w, Desync(r))
  BY <1>2, <1>6, <1>7, DesyncTracks
<1>10. Tracks(w, CompositorLost(o))
  BY <1>6, BareLost
<1> HIDE DEF k
<1>11. Tracks(w, n)
  BY <1>8, <1>9, <1>10
<1> HIDE DEF n
<1>12. Tracks(w, Invalidated(n, TRUE))
  BY <1>11, TracksWorld, InvalidatedOk, TracksTrans
<1> QED
  BY <1>1, <1>9, <1>12

\* Tracks is reflexive.
LEMMA SelfTracks ==
    ASSUME NEW w, IsWorld(w)
    PROVE  Tracks(w, w)
BY EasesSelf, IdleTracks DEF Idle, SameFrame

\* restack_best_effort().
LEMMA RestackOk ==
    ASSUME NEW w, IsWorld(w)
    PROVE  Tracks(w, Restack(w))
<1>1. Bare(w, Request(w)) /\ IsWorld(Request(w)) /\ Tracks(w, Request(w))
  BY RequestBare, BareWorld, RequestOk, IdleTracks
<1>2. Tracks(w, Desync(Request(w)))
  BY <1>1, DesyncTracks
<1>3. \/ Restack(w) = w \/ Restack(w) = Request(w) \/ Restack(w) = Desync(Request(w))
  BY DEF Restack, OrElse
<1> QED
  BY <1>1, <1>2, <1>3, SelfTracks

\* The server has ended a grab: what the delegate held is forgotten, and a grab that it
\* has taken again since is recorded as one that nobody gives back.
LEMMA UngrabbedOk ==
    ASSUME NEW w, IsWorld(w)
    PROVE  Tracks(w, [w EXCEPT !.del.grabbed = FALSE, !.svc.lapsed = @ \/ w.x.grab])
<1> DEFINE v == [w EXCEPT !.del.grabbed = FALSE, !.svc.lapsed = @ \/ w.x.grab]
<1>1. DOMAIN w = WorldFields /\ DOMAIN w.del = DOMAIN ClosedDelegate
      /\ DOMAIN w.svc = DOMAIN NoService
  BY DEF IsWorld
<1>2. /\ DOMAIN v = WorldFields /\ DOMAIN v.del = DOMAIN w.del /\ DOMAIN v.svc = DOMAIN w.svc
      /\ \A f \in WorldFields \ {"del", "svc"} : v[f] = w[f]
      /\ \A f \in DOMAIN w.del \ {"grabbed"} : v.del[f] = w.del[f]
      /\ \A f \in DOMAIN w.svc \ {"lapsed"} : v.svc[f] = w.svc[f]
      /\ v.svc.lapsed = (w.svc.lapsed \/ w.x.grab)
  BY <1>1
<1> HIDE DEF v
<1>3. /\ v.now = w.now /\ v.sess = w.sess /\ v.topo = w.topo
      /\ v.posted = w.posted /\ v.drags = w.drags /\ v.scene = w.scene /\ v.x = w.x
      /\ v.flushed = w.flushed /\ v.told = w.told /\ v.note = w.note /\ v.bad = w.bad
      /\ v.calls = w.calls /\ v.ok = w.ok
  BY <1>2
<1>4. /\ v.del.state = w.del.state /\ v.del.epoch = w.del.epoch
      /\ v.del.revision = w.del.revision /\ v.del.shapes = w.del.shapes
      /\ v.del.dirty = w.del.dirty /\ v.del.wake = w.del.wake
      /\ v.del.revived = w.del.revived /\ v.del.handler = w.del.handler
      /\ v.del.surface = w.del.surface /\ v.del.window = w.del.window
      /\ v.del.region = w.del.region /\ v.del.mapped = w.del.mapped
      /\ v.del.presented = w.del.presented /\ v.del.screen = w.del.screen
      /\ v.del.presentedRevision = w.del.presentedRevision /\ v.del.lost = w.del.lost
      /\ v.del.looked = w.del.looked
  BY <1>1, <1>2
<1>5. /\ v.svc.captured = w.svc.captured /\ v.svc.mixed = w.svc.mixed
      /\ v.svc.sessions = w.svc.sessions /\ v.svc.opened = w.svc.opened
      /\ v.svc.closed = w.svc.closed /\ v.svc.desync = w.svc.desync
  BY <1>1, <1>2
<1>6. IsWorld(v)
  BY <1>1, <1>2, <1>3, <1>4, <1>5 DEF IsWorld
<1>7. Eases(w, v) /\ Idle(w, v)
  BY <1>2, <1>3, <1>4, <1>5, <1>6 DEF Eases, NoWindow, Beyond, Idle, SameFrame
<1> QED
  BY <1>7, IdleTracks DEF v

\* Every event the delegate may read.
LEMMA OnEventOk ==
    ASSUME NEW w, IsWorld(w), NEW e \in ServerEvents
    PROVE  Tracks(w, OnEvent(w, e))
<1> DEFINE v == OnEvent(w, e)
           g == [w EXCEPT !.del.grabbed = FALSE, !.svc.lapsed = @ \/ w.x.grab]
<1>1. e.kind \in {"press", "motion", "release", "ungrab", "owner", "screen", "raised", "error"}
  BY DEF ServerEvents
<1>2. ASSUME NEW u, IsWorld(u), NEW kind \in {"press", "motion", "release", "ungrab"}
      PROVE  Tracks(u, Dispatch(u, kind))
  BY <1>2, DispatchOk, IdleTracks
<1>3. Tracks(w, w)
  BY SelfTracks
<1>4. CASE e.kind \in {"press", "motion", "release"}
  <2>1. v = w \/ v = Dispatch(w, e.kind)
    BY <1>4 DEF OnEvent
  <2> HIDE DEF v
  <2> QED
    BY <2>1, <1>2, <1>3, <1>4 DEF v
<1>5. CASE e.kind = "ungrab"
  <2>1. Tracks(w, g) /\ IsWorld(g)
    BY UngrabbedOk, TracksWorld, Zenon
  <2>2. v = w \/ v = Dispatch(g, "ungrab")
    BY <1>5 DEF OnEvent
  <2> HIDE DEF v, g
  <2>3. Tracks(g, Dispatch(g, "ungrab"))
    BY <2>1, <1>2
  <2> QED
    BY <2>1, <2>2, <2>3, <1>3, TracksTrans DEF v
<1>6. CASE e.kind = "owner"
  <2>1. v = w \/ v = CompositorLost(w) \/ v = CompositorBack(w)
    BY <1>6 DEF OnEvent
  <2> HIDE DEF v
  <2> QED
    BY <2>1, <1>3, LostOk, BackOk DEF v
<1>7. CASE e.kind = "screen"
  <2>1. v = TopologyChange(w)
    BY <1>7 DEF OnEvent
  <2> QED
    BY <2>1, TopologyOk
<1>8. CASE e.kind = "raised"
  <2>1. v = Restack(w)
    BY <1>8 DEF OnEvent
  <2> QED
    BY <2>1, RestackOk
<1>9. CASE e.kind = "error"
  <2> DEFINE d == Desync(w)
  <2>1. v = [d EXCEPT !.halt = TRUE]
    BY <1>9 DEF OnEvent
  <2>2. Tracks(w, d) /\ IsWorld(d)
    BY SelfBare, DesyncTracks, TracksWorld
  <2> HIDE DEF d
  <2>3. Quiet(d, v)
    BY <2>1, <2>2 DEF Quiet, IsWorld
  <2> HIDE DEF v
  <2> QED
    BY <2>2, <2>3, QuietOk, TracksTrans DEF v
<1> QED
  BY <1>1, <1>4, <1>5, <1>6, <1>7, <1>8, <1>9

\* The next event is taken off the server's queue.
LEMMA TakeEvent ==
    ASSUME NEW w, IsWorld(w), w.x.queue # <<>>
    PROVE  /\ Tracks(w, [w EXCEPT !.x.queue = Tail(@)]) /\ Head(w.x.queue) \in ServerEvents
<1> DEFINE v == [w EXCEPT !.x.queue = Tail(@)]
<1>1. w.x.queue \in Seq(ServerEvents) /\ DOMAIN w = WorldFields /\ DOMAIN w.x = ServerFields
      /\ w.told \in Seq(EditEvents) /\ w.posted \in Seq(EditEvents) /\ w.ok \in BOOLEAN
  BY DEF IsWorld
<1>2. Tail(w.x.queue) \in Seq(ServerEvents) /\ Head(w.x.queue) \in ServerEvents
  BY <1>1
<1>3. Quiet(w, v)
  BY <1>1, <1>2 DEF Quiet
<1> HIDE DEF v
<1> QED
  BY <1>2, <1>3, QuietOk DEF v

\* One turn of drain_events( true ).
LEMMA DrainDeferredOk ==
    ASSUME NEW w, IsWorld(w), NEW i
    PROVE  Tracks(w, DrainDeferred(w, i))
<1> DEFINE t == [w EXCEPT !.x.queue = Tail(@)]
           h == Head(w.x.queue)
           o == OnEvent(t, h)
<1>1. DrainDeferred(w, i) = IF w.halt \/ w.x.queue = <<>> THEN w ELSE Deferred(o)
  BY DEF DrainDeferred, DrainOne
<1>2. ASSUME w.x.queue # <<>> PROVE Tracks(w, Deferred(o))
  <2>1. Tracks(w, t) /\ IsWorld(t) /\ h \in ServerEvents
    BY <1>2, TakeEvent, TracksWorld
  <2> HIDE DEF t, h
  <2>2. Tracks(w, o) /\ IsWorld(o)
    BY <2>1, OnEventOk, TracksWorld, TracksTrans
  <2> HIDE DEF o
  <2> QED
    BY <2>2, DeferredOk, TracksTrans
<1> HIDE DEF o
<1> QED
  BY <1>1, <1>2, SelfTracks

Tracking(c, i, v) == Tracks(c, v)

DeferredFold == INSTANCE FoldProofs WITH Op <- DrainDeferred, Kept <- Tracking

\* The fold of drain_events( true ) is the one FoldProofs is about.
LEMMA DeferredFoldIs ==
    ASSUME NEW b, NEW q
    PROVE  FoldLeft(DrainDeferred, b, q) = DeferredFold!FoldLeft(DrainDeferred, b, q)
BY Zenon DEF FoldLeft, DeferredFold!FoldLeft, MapThenFoldSet, DeferredFold!MapThenFoldSet,
             Max, DeferredFold!Max

\* The turns of the loop.
LEMMA CountTo ==
    ASSUME NEW n \in Nat
    PROVE  LET q == [i \in 1 .. n |-> i] IN Len(q) = n /\ q = [i \in 1 .. Len(q) |-> q[i]]
<1> DEFINE q == [i \in 1 .. n |-> i]
<1>1. q \in Seq(Nat)
  OBVIOUS
<1>2. Len(q) = n
  BY <1>1
<1> QED
  BY <1>2

\* The end of the loop.
LEMMA HaltOk ==
    ASSUME NEW w, IsWorld(w)
    PROVE  Quiet(w, [w EXCEPT !.halt = FALSE])
BY DEF Quiet, IsWorld

\* drain_events( true ), however many events it reads.
LEMMA DrainQuietly ==
    ASSUME NEW w, IsWorld(w), NEW n \in Nat
    PROVE  Tracks(w, DrainEvents(w, n, DrainDeferred))
<1> DEFINE q == [i \in 1 .. n |-> i]
           u == FoldLeft(DrainDeferred, w, q)
<1>1. Len(q) \in Nat /\ q = [i \in 1 .. Len(q) |-> q[i]]
  BY CountTo
<1> HIDE DEF q
<1>2. Tracking(w, 0, w)
  BY SelfTracks DEF Tracking
<1>3. ASSUME NEW i \in 1 .. Len(q), NEW v, Tracking(w, i - 1, v)
      PROVE  Tracking(w, i, DrainDeferred(v, q[i]))
  BY <1>3, TracksWorld, DrainDeferredOk, TracksTrans DEF Tracking
<1>4. Tracking(w, Len(q), DeferredFold!FoldLeft(DrainDeferred, w, q))
  BY <1>1, <1>2, <1>3, DeferredFold!FoldKeeps
<1>5. Tracks(w, u)
  BY <1>4, DeferredFoldIs DEF Tracking
<1>6. DrainEvents(w, n, DrainDeferred) = [u EXCEPT !.halt = FALSE]
  BY DEF DrainEvents, q
<1> HIDE DEF u
<1> QED
  BY <1>5, <1>6, TracksWorld, HaltOk, QuietOk, TracksTrans

-----------------------------------------------------------------------------
(* resync() and flush() of the delegate.                                   *)

\* Nothing but what the delegate's handler will hear has changed.
Same(w, v) ==
    /\ Eases(w, v) /\ v.del = w.del /\ v.scene = w.scene /\ v.topo = w.topo
    /\ v.svc = w.svc /\ v.ok = w.ok

\* An invalidated surface reported through the reactor.
LEMMA SayLaterOk ==
    ASSUME NEW w, IsWorld(w), NEW yes
    PROVE  Same(w, Deferred(Invalidated(w, yes)))
<1> DEFINE u == Invalidated(w, yes)
           v == Deferred(u)
<1>1. u = w \/ u = Dispatch(w, "ungrab")
  BY DEF Invalidated
<1>2. Same(w, u)
  BY <1>1, EasesSelf, DispatchOk DEF Same, Idle, SameFrame
<1>3. IsWorld(u)
  BY <1>2 DEF Same, Eases, Beyond
<1> HIDE DEF u
<1>4. Tracks(u, v) /\ Eases(u, v) /\ v.del = u.del /\ v.ok = u.ok /\ v.topo = u.topo
      /\ v.svc = u.svc
  BY <1>3, DeferredOk
<1> HIDE DEF v
<1> QED
  BY <1>2, <1>4, EasesTrans DEF Same, Tracks, v, u

Loaded(n, s, t) ==
    [n EXCEPT !.del.shapes = [id \in DOMAIN s.live |-> Resolve(s.live[id], t)],
              !.del.epoch = s.epoch, !.del.revision = s.revision,
              !.del.dirty = TRUE, !.del.state = "synced"]

\* The delegate holds the scene, as it is now resolved, and will draw it.
Holds(w, v) ==
    /\ Eases(w, v) /\ v.scene = w.scene /\ v.topo = w.topo /\ v.svc = w.svc
    /\ v.del.state = "synced" /\ v.del.dirty
    /\ v.del.shapes = Resolved(w.scene.live, w.topo)
    /\ v.del.epoch = w.scene.epoch /\ v.del.revision = w.scene.revision

\* resync() loads the records of the scene, resolved for the present screens.
LEMMA LoadedOk ==
    ASSUME NEW n, IsWorld(n)
    PROVE  LET v == Loaded(n, n.scene, n.topo)
           IN  Holds(n, v) /\ v.ok = n.ok /\ v.del.mapped = n.del.mapped
<1> DEFINE v == Loaded(n, n.scene, n.topo)
           s == n.scene
           g == Resolved(s.live, n.topo)
<1>1. DOMAIN n = WorldFields /\ DOMAIN n.del = DOMAIN ClosedDelegate
  BY DEF IsWorld
<1>2. /\ DOMAIN v = WorldFields /\ DOMAIN v.del = DOMAIN n.del
      /\ \A f \in WorldFields \ {"del"} : v[f] = n[f]
      /\ \A f \in DOMAIN n.del \ {"shapes", "epoch", "revision", "dirty", "state"} :
            v.del[f] = n.del[f]
      /\ v.del.shapes = g /\ v.del.epoch = s.epoch /\ v.del.revision = s.revision
      /\ v.del.dirty /\ v.del.state = "synced"
  BY <1>1, Zenon DEF Loaded, Resolved
<1>3. IsShapes(g, n.now) /\ s.revision \in Nat
  <2>1. \A id \in DOMAIN s.live : s.live[id].start \in Nat /\ s.live[id].start <= n.now
    BY DEF IsWorld, AtRest, IsScene
  <2>2. s.revision \in Nat
    BY DEF IsWorld, AtRest, IsScene
  <2> QED
    BY <2>1, <2>2 DEF IsShapes, Resolved, Resolve
<1> HIDE DEF v, g
<1>4. /\ v.now = n.now /\ v.svc = n.svc /\ v.sess = n.sess /\ v.topo = n.topo
      /\ v.posted = n.posted /\ v.drags = n.drags /\ v.scene = n.scene /\ v.x = n.x
      /\ v.flushed = n.flushed /\ v.told = n.told /\ v.note = n.note /\ v.bad = n.bad
      /\ v.calls = n.calls /\ v.ok = n.ok
  BY <1>2
<1>5. /\ v.del.wake = n.del.wake /\ v.del.mapped = n.del.mapped
      /\ v.del.handler = n.del.handler
      /\ v.del.grabbed = n.del.grabbed /\ v.del.surface = n.del.surface
      /\ v.del.window = n.del.window /\ v.del.region = n.del.region
      /\ v.del.looked = n.del.looked /\ v.del.screen = n.del.screen
  BY <1>1, <1>2
<1>6. IsWorld(v)
  BY <1>1, <1>2, <1>3, <1>4, <1>5 DEF IsWorld
<1>7. Eases(n, v)
  BY <1>4, <1>5, <1>6 DEF Eases, NoWindow, Beyond
<1> QED
  BY <1>2, <1>4, <1>5, <1>7, SMTT(20) DEF Holds, v, g

\* With them and a mapped window the delegate is in step and has a frame to come.
LEMMA UpOk ==
    ASSUME NEW w, NEW m, Holds(w, m), m.del.mapped
    PROVE  LET v == ScheduleWakeup([m EXCEPT !.del.lost = FALSE, !.del.revived = FALSE])
           IN  /\ Holds(w, v) /\ ~v.del.revived /\ Shown(v) /\ Woken(v)
<1> DEFINE e == [m EXCEPT !.del.lost = FALSE, !.del.revived = FALSE]
           v == ScheduleWakeup(e)
<1>1. IsWorld(m)
  BY DEF Holds, Eases, Beyond
<1>2. DOMAIN m = WorldFields /\ DOMAIN m.del = DOMAIN ClosedDelegate
  BY <1>1 DEF IsWorld
<1>3. /\ DOMAIN e = WorldFields /\ DOMAIN e.del = DOMAIN m.del
      /\ \A f \in WorldFields \ {"del"} : e[f] = m[f]
      /\ \A f \in DOMAIN m.del \ {"lost", "revived"} : e.del[f] = m.del[f]
      /\ e.del.revived = FALSE
  BY <1>2
<1> HIDE DEF e
<1>4. /\ e.now = m.now /\ e.svc = m.svc /\ e.sess = m.sess /\ e.topo = m.topo
      /\ e.posted = m.posted /\ e.drags = m.drags /\ e.scene = m.scene /\ e.x = m.x
      /\ e.flushed = m.flushed /\ e.told = m.told /\ e.note = m.note /\ e.bad = m.bad
      /\ e.calls = m.calls /\ e.ok = m.ok
  BY <1>3
<1>5. /\ e.del.wake = m.del.wake /\ e.del.mapped = m.del.mapped
      /\ e.del.handler = m.del.handler
      /\ e.del.grabbed = m.del.grabbed /\ e.del.surface = m.del.surface
      /\ e.del.window = m.del.window /\ e.del.region = m.del.region
      /\ e.del.shapes = m.del.shapes /\ e.del.epoch = m.del.epoch
      /\ e.del.revision = m.del.revision /\ e.del.dirty = m.del.dirty
      /\ e.del.state = m.del.state /\ e.del.looked = m.del.looked
      /\ e.del.screen = m.del.screen
  BY <1>2, <1>3
<1>6. IsWorld(e)
  BY <1>1, <1>2, <1>3, <1>4, <1>5 DEF IsWorld
<1>7. Eases(m, e)
  BY <1>4, <1>5, <1>6 DEF Eases, NoWindow, Beyond
<1>8. Holds(w, e)
  BY <1>4, <1>5, <1>7, EasesTrans DEF Holds
<1>9. /\ Eases(e, v) /\ Woken(v)
      /\ v.scene = e.scene /\ v.topo = e.topo /\ v.svc = e.svc
      /\ \A f \in DOMAIN ClosedDelegate \ {"wake"} : v.del[f] = e.del[f]
      /\ Shown(e) => Shown(v)
  BY <1>6, <1>8, AwakeOk DEF Holds
<1>10. /\ v.del.state = e.del.state /\ v.del.shapes = e.del.shapes /\ v.del.dirty = e.del.dirty
       /\ v.del.epoch = e.del.epoch /\ v.del.revision = e.del.revision
       /\ v.del.revived = e.del.revived
  BY <1>9
<1> HIDE DEF v
<1>11. Shown(e)
  BY <1>5, <1>8 DEF Holds, Shown
<1>12. Holds(w, v)
  BY <1>8, <1>9, <1>10, EasesTrans DEF Holds
<1> QED
  BY <1>3, <1>9, <1>10, <1>11, <1>12 DEF v, e

\* The scene, the topology and what the service believes are as before.
Stays(w, v) == Eases(w, v) /\ v.scene = w.scene /\ v.topo = w.topo

\* Stays is transitive,
LEMMA StaysTrans ==
    ASSUME NEW w, NEW v, NEW u, Stays(w, v), Stays(v, u)
    PROVE  Stays(w, u)
BY EasesTrans DEF Stays

\* and keeps the shape of the world.
LEMMA StaysWorld ==
    ASSUME NEW w, NEW v, Stays(w, v)
    PROVE  IsWorld(v) /\ v.now = w.now
BY DEF Stays, Eases, Beyond

\* resync() that failed has left the delegate out of step, or as it was.
Adrift(w, v) ==
    /\ Stays(w, v) /\ ~v.ok
    /\ Shown(w) => Shown(v)
    /\ Woken(w) => Woken(v)

\* A resync() that gives up.
LEMMA DesyncAdrift ==
    ASSUME NEW w, NEW v, Stays(w, v)
    PROVE  Adrift(w, Desync(v))
<1>1. IsWorld(v)
  BY StaysWorld
<1>2. Eases(v, Desync(v)) /\ SameFrame(v, Desync(v)) /\ ~Desync(v).ok
      /\ Desync(v).del.state = "desynced"
  BY <1>1, DesyncOk
<1>3. Stays(w, Desync(v))
  BY <1>2, StaysTrans DEF Stays, SameFrame
<1> QED
  BY <1>2, <1>3 DEF Adrift, Shown, Woken

\* resync(): in step with the scene, or out of step and known to be.
LEMMA ResyncOk ==
    ASSUME NEW w, IsWorld(w)
    PROVE  LET v == Resync(w)
           IN  \/ Adrift(w, v)
               \/ /\ Stays(w, v) /\ v.ok /\ Shown(v) /\ Woken(v)
                  /\ v.del.state = "synced" /\ ~v.del.revived
                  /\ v.del.shapes = Resolved(w.scene.live, w.topo)
                  /\ v.del.epoch = w.scene.epoch /\ v.del.revision = w.scene.revision
<1> DEFINE q == Request(w)
           c == CreateSurface(DestroySurface(q))
           s == IF w.del.lost THEN OrElse(c, DestroySurface) ELSE q
           n == Loaded(s, w.scene, w.topo)
           m == IF n.del.mapped THEN n ELSE MapSurface(n)
           p == IF s.ok THEN m ELSE s
           yes == w.del.grabbed /\ w.del.lost
           up == ScheduleWakeup([p EXCEPT !.del.lost = FALSE, !.del.revived = FALSE])
           a == Deferred(Invalidated(up, yes))
           b == Desync(Deferred(Invalidated(p, yes)))
           l == Deferred(CompositorLost(q))
           v == Resync(w)
<1>1. v = IF w.del.state = "closed" THEN Fail(w)
          ELSE IF q.ok THEN (IF q.x.comp THEN (IF p.ok THEN a ELSE b) ELSE l) ELSE Desync(q)
  BY Zenon DEF Resync, Either, Then, Loaded
<1>2. /\ Bare(w, q) /\ q.topo = w.topo /\ IsWorld(q) /\ Stays(w, q)
  BY RequestBare, BareWorld DEF Stays, Bare
<1> HIDE DEF q, v
<1>3. Adrift(w, Fail(w)) /\ Adrift(w, Desync(q))
  <2>1. Adrift(w, Fail(w))
    BY FailOk, IdleKeeps DEF Adrift, Stays, Idle, SameFrame, Keeps, Eases, Beyond
  <2> QED
    BY <2>1, <1>2, DesyncAdrift
<1>4. Adrift(w, l)
  <2> DEFINE g == CompositorLost(q)
  <2>1. Tracks(w, g) /\ ~g.ok /\ g.topo = q.topo /\ IsWorld(g)
    BY <1>2, BareLost, TracksWorld
  <2>2. l = Deferred(g)
    OBVIOUS
  <2> HIDE DEF g, l
  <2>3. Tracks(g, l) /\ l.ok = g.ok /\ l.topo = g.topo
    BY <2>1, <2>2, DeferredOk
  <2>4. Tracks(w, l)
    BY <2>1, <2>3, TracksTrans
  <2> QED
    BY <2>1, <2>3, <2>4, <1>2 DEF Adrift, Stays, Tracks, Serves, Keeps
<1>5. Stays(w, s) /\ IsWorld(s)
  <2>1. Bare(q, DestroySurface(q)) /\ DestroySurface(q).topo = q.topo
        /\ DestroySurface(q).del.screen = <<>> /\ DestroySurface(q).x.region = "none"
    BY <1>2, DestroyOk
  <2>2. Bare(q, c) /\ c.topo = q.topo /\ IsWorld(c)
    <3> DEFINE d == DestroySurface(q)
    <3> HIDE DEF d
    <3>1. Bare(q, d) /\ d.topo = q.topo /\ IsWorld(d) /\ d.del.screen = <<>> /\ d.x.region = "none"
      BY <2>1, BareWorld DEF d
    <3>2. Bare(d, CreateSurface(d)) /\ CreateSurface(d).topo = d.topo
      BY <3>1, CreateOk DEF Made
    <3>3. c = CreateSurface(d)
      BY DEF d
    <3> QED
      BY <3>1, <3>2, <3>3, BareTrans, BareWorld
  <2> HIDE DEF c
  <2>3. Bare(c, DestroySurface(c)) /\ DestroySurface(c).topo = c.topo
    BY <2>2, DestroyOk
  <2>4. s = q \/ s = c \/ s = DestroySurface(c)
    BY DEF OrElse
  <2> HIDE DEF s
  <2>5. Bare(q, DestroySurface(c))
    BY <2>2, <2>3, BareTrans
  <2>6. Stays(q, c) /\ Stays(q, DestroySurface(c))
    BY <2>2, <2>3, <2>5 DEF Stays, Bare
  <2> QED
    BY <2>4, <2>6, <1>2, StaysTrans, StaysWorld
<1> HIDE DEF s
<1>6. Holds(s, n) /\ IsWorld(n) /\ n.ok = s.ok
  <2>1. n = Loaded(s, s.scene, s.topo)
    BY <1>5 DEF Stays
  <2> HIDE DEF n
  <2> QED
    BY <1>5, <2>1, LoadedOk DEF Holds, Eases, Beyond
<1> HIDE DEF n
<1>7. Holds(s, m) /\ (m.ok => m.del.mapped)
  <2> DEFINE k == MapSurface(n)
  <2>1. Bare(n, k) /\ k.topo = n.topo /\ (k.ok => k.del.mapped) /\ k.svc = n.svc
    <3>1. Bare(n, k) /\ k.topo = n.topo /\ (k.ok => k.del.mapped)
      BY <1>6, MapOk
    <3>2. k.svc = n.svc
      <4>1. WindowRequest(n).svc = n.svc /\ DOMAIN WindowRequest(n) = WorldFields
        BY <1>6, WindowRequestOk DEF Eases, Beyond, IsWorld
      <4> HIDE DEF k
      <4> QED
        BY <4>1 DEF k, MapSurface, Then, Fail
    <3> QED
      BY <3>1, <3>2
  <2> HIDE DEF k
  <2>2. Holds(s, k)
    BY <1>6, <2>1, EasesTrans DEF Holds, Bare
  <2>3. m = IF n.del.mapped THEN n ELSE k
    BY DEF k
  <2> HIDE DEF m
  <2> QED
    BY <2>1, <2>2, <2>3, <1>6
<1> HIDE DEF m
<1>8. Stays(w, p) /\ IsWorld(p)
  <2>1. Stays(s, m)
    BY <1>7 DEF Holds, Stays
  <2> QED
    BY <2>1, <1>5, StaysTrans, StaysWorld
<1>9. ASSUME p.ok PROVE Holds(s, p) /\ p.del.mapped
  BY <1>7, <1>9
<1> HIDE DEF p
<1>10. Adrift(w, b)
  <2> DEFINE z == Deferred(Invalidated(p, yes))
  <2>1. Same(p, z)
    BY <1>8, SayLaterOk
  <2> HIDE DEF z
  <2>2. Stays(w, z)
    BY <2>1, <1>8, StaysTrans DEF Same, Stays
  <2>3. b = Desync(z)
    BY DEF z
  <2> QED
    BY <2>2, <2>3, DesyncAdrift
<1>11. ASSUME p.ok
       PROVE  /\ Stays(w, a) /\ a.ok /\ Shown(a) /\ Woken(a)
              /\ a.del.state = "synced" /\ ~a.del.revived
              /\ a.del.shapes = Resolved(w.scene.live, w.topo)
              /\ a.del.epoch = w.scene.epoch /\ a.del.revision = w.scene.revision
  <2>1. Holds(s, up) /\ ~up.del.revived /\ Shown(up) /\ Woken(up)
    BY <1>9, <1>11, UpOk, Zenon
  <2>2. up.ok = p.ok
    <3> DEFINE e == [p EXCEPT !.del.lost = FALSE, !.del.revived = FALSE]
    <3>1. e.ok = p.ok /\ DOMAIN e = WorldFields
      BY <1>8 DEF IsWorld
    <3>2. up = e \/ up = [e EXCEPT !.del.wake = NextFrame(e.del, e.now)]
      BY DEF ScheduleWakeup
    <3> HIDE DEF e, up
    <3> QED
      BY <3>1, <3>2
  <2> HIDE DEF up
  <2>3. IsWorld(up)
    BY <2>1 DEF Holds, Eases, Beyond
  <2>4. Same(up, a)
    BY <2>3, SayLaterOk
  <2> HIDE DEF a
  <2>5. Stays(s, a)
    BY <2>1, <2>4, EasesTrans DEF Same, Holds, Stays
  <2>6. Shown(a) /\ Woken(a)
    <3>1. a.now = up.now
      BY <2>4 DEF Same, Eases, Beyond
    <3> QED
      BY <3>1, <2>1, <2>4 DEF Same, Shown, Woken
  <2>7. s.scene = w.scene /\ s.topo = w.topo
    BY <1>5 DEF Stays
  <2> QED
    BY <2>1, <2>2, <2>4, <2>5, <2>6, <2>7, <1>5, <1>11, StaysTrans DEF Same, Holds
<1> HIDE DEF a, b, l
<1> QED
  BY <1>1, <1>3, <1>4, <1>10, <1>11 DEF v

\* recover(): the service believes in the delegate if, and only if, it has the scene again.
LEMMA RecoverOk ==
    ASSUME NEW w, IsWorld(w)
    PROVE  LET v == Recover(w)
           IN  /\ Serves(w, v) /\ v.scene = w.scene /\ v.svc.desync = ~v.ok
               /\ InStep(v, View(v.scene))
<1> DEFINE r == Resync(w)
           v == Recover(w)
<1>1. \/ Adrift(w, r)
      \/ /\ Stays(w, r) /\ r.ok /\ Shown(r) /\ Woken(r)
         /\ r.del.state = "synced" /\ ~r.del.revived
         /\ r.del.shapes = Resolved(w.scene.live, w.topo)
         /\ r.del.epoch = w.scene.epoch /\ r.del.revision = w.scene.revision
  BY ResyncOk
<1>2. v = Noted(r)
  BY DEF Recover
<1> HIDE DEF r, v
<1>3. Stays(w, r) /\ IsWorld(r) /\ (Shown(w) => Shown(r)) /\ (Woken(w) => Woken(r))
  BY <1>1, StaysWorld DEF Adrift
<1>4. /\ Eases(r, v) /\ v.ok = r.ok /\ v.scene = r.scene /\ v.topo = r.topo
      /\ v.del = r.del /\ v.svc.desync = ~r.ok
      /\ Shown(r) => Shown(v)
      /\ Woken(r) => Woken(v)
  BY <1>2, <1>3, NotedOk
<1>5. Eases(w, v) /\ v.scene = w.scene /\ v.topo = w.topo
  BY <1>3, <1>4, EasesTrans DEF Stays
<1>6. InStep(v, View(v.scene))
  <2>1. CASE ~r.ok
    BY <2>1, <1>4 DEF InStep
  <2>2. CASE r.ok
    <3>1. /\ v.del.shapes = Resolved(w.scene.live, w.topo)
          /\ v.del.epoch = w.scene.epoch /\ v.del.revision = w.scene.revision
      BY <2>2, <1>1, <1>4 DEF Adrift
    <3>2. v.del.shapes = Resolved(View(v.scene).live, v.topo)
      BY <3>1, <1>5 DEF View
    <3>3. Mirrors(v.del, View(v.scene))
      BY <3>1, <1>5 DEF Mirrors, View, Resolved, Resolve
    <3> QED
      BY <3>2, <3>3 DEF InStep
  <2> QED
    BY <2>1, <2>2
<1> QED
  BY <1>3, <1>4, <1>5, <1>6 DEF Serves, Keeps, v

\* recover_best_effort().
LEMMA RecoverBestOk ==
    ASSUME NEW w, IsWorld(w)
    PROVE  Serves(w, RecoverBestEffort(w))
<1> DEFINE s == Snapshot(w)
<1>1. Serves(w, s) /\ IsWorld(s)
  BY SnapshotOk DEF Serves, Eases, Beyond
<1>2. RecoverBestEffort(w) = IF w.svc.desync THEN Recover(s) ELSE w
  BY DEF RecoverBestEffort
<1> HIDE DEF s
<1>3. Serves(s, Recover(s))
  BY <1>1, RecoverOk
<1> QED
  BY <1>1, <1>2, <1>3, ServesTrans, ServesSelf

\* flush() of the delegate: if it succeeds on a service in step, the frame is on the
\* screen.
LEMMA FlushOk ==
    ASSUME NEW w, IsWorld(w), NEW seen \in Nat, NEW through
    PROVE  LET v == DelegateFlush(w, seen, through)
           IN  /\ Serves(w, v) /\ v.scene = w.scene /\ v.svc.desync = w.svc.desync
               /\ ~w.svc.desync /\ InStep(w, View(w.scene)) /\ v.ok =>
                     v.del.state = "synced" /\ OnFrame(v)
<1> DEFINE a == DrainEvents(w, seen, DrainDeferred)
           p == IF ~a.del.presented \/ a.del.dirty \/ a.del.presentedRevision < through
                THEN PresentTick(a) ELSE Done(a)
           f == Request(p)
           z == DrainEvents(f, All(f), DrainDeferred)
           u == [z EXCEPT !.ok = z.del.state = "synced"]
           v == DelegateFlush(w, seen, through)
<1>1. v = IF a.del.state # "synced" \/ through > a.del.revision THEN Fail(a)
          ELSE IF p.ok THEN (IF f.ok THEN u ELSE Desync(f)) ELSE p
  BY Zenon DEF DelegateFlush, Either, Then
<1>2. Tracks(w, a) /\ IsWorld(a)
  BY DrainQuietly, TracksWorld
<1> HIDE DEF a, v
<1>3. Tracks(a, Fail(a)) /\ ~Fail(a).ok
  BY <1>2, FailOk, IdleTracks
<1>4. /\ Serves(a, p) /\ p.scene = a.scene /\ p.svc = a.svc /\ IsWorld(p)
      /\ p.ok => p.del.presented /\ ~p.del.dirty
  <2>1. /\ Serves(a, PresentTick(a)) /\ PresentTick(a).scene = a.scene
        /\ PresentTick(a).svc = a.svc
        /\ PresentTick(a).ok => PresentTick(a).del.presented /\ ~PresentTick(a).del.dirty
    BY <1>2, PresentOk
  <2>2. /\ Serves(a, Done(a)) /\ Done(a).scene = a.scene /\ Done(a).svc = a.svc
        /\ Done(a).del = a.del
    BY <1>2, DoneOk, RequestServes DEF Idle, SameFrame
  <2>3. \/ p = PresentTick(a)
        \/ p = Done(a) /\ a.del.presented /\ ~a.del.dirty
    OBVIOUS
  <2> HIDE DEF p
  <2>4. Serves(a, p) => IsWorld(p)
    BY DEF Serves, Eases, Beyond
  <2> QED
    BY <2>1, <2>2, <2>3, <2>4
<1> HIDE DEF p
<1>5. Tracks(p, f) /\ IsWorld(f) /\ f.del = p.del /\ Bare(f, f)
  BY <1>4, RequestOk, IdleTracks, TracksWorld, SelfBare
<1> HIDE DEF f
<1>6. Tracks(f, z) /\ IsWorld(z)
  <2>1. f.x.queue \in Seq(ServerEvents)
    BY <1>5 DEF IsWorld
  <2>2. All(f) \in Nat
    BY <2>1 DEF All
  <2> QED
    BY <2>2, <1>5, DrainQuietly, TracksWorld
<1> HIDE DEF z
<1>7. Tracks(z, u) /\ u.ok = (z.del.state = "synced") /\ u.del.state = z.del.state
  <2>1. Serves(z, u) /\ Idle(z, u) /\ u.ok = (z.del.state = "synced")
    BY <1>6, OutcomeServes
  <2> HIDE DEF u
  <2>2. Tracks(z, u)
    BY <2>1, IdleTracks DEF Serves
  <2> QED
    BY <2>1, <2>2 DEF Idle
<1> HIDE DEF u
<1>8. Tracks(p, u)
  BY <1>5, <1>6, <1>7, TracksTrans
<1>9. Tracks(f, Desync(f)) /\ ~Desync(f).ok
  BY <1>5, DesyncTracks
<1>10. Tracks(p, Desync(f))
  BY <1>5, <1>9, TracksTrans
<1>11. Serves(w, v) /\ v.scene = w.scene /\ v.svc.desync = w.svc.desync
  <2>1. \/ v = Fail(a) \/ v = u \/ v = Desync(f) \/ v = p
    BY <1>1
  <2>2. Serves(w, p) /\ p.scene = w.scene /\ p.svc.desync = w.svc.desync
    BY <1>2, <1>4, ServesTrans DEF Tracks
  <2>3. ASSUME NEW t, Tracks(p, t)
        PROVE  Serves(w, t) /\ t.scene = w.scene /\ t.svc.desync = w.svc.desync
    BY <2>2, <2>3, ServesTrans DEF Tracks
  <2>4. Tracks(w, Fail(a))
    BY <1>2, <1>3, TracksTrans
  <2> QED
    BY <2>1, <2>2, <2>3, <2>4, <1>8, <1>10 DEF Tracks
<1>12. ASSUME ~w.svc.desync, InStep(w, View(w.scene)), v.ok
       PROVE  v.del.state = "synced" /\ OnFrame(v)
  <2>1. v = u /\ p.ok
    BY <1>1, <1>3, <1>9, <1>12
  <2>2. OnFrame(p) /\ ~p.svc.desync /\ InStep(p, View(p.scene))
    <3>1. InStep(a, View(a.scene)) /\ ~a.svc.desync
      BY <1>2, <1>12 DEF Tracks, Serves, Keeps
    <3> QED
      BY <3>1, <1>4, <2>1 DEF Serves, Keeps, OnFrame
  <2>3. OnFrame(u)
    BY <2>2, <1>8 DEF Tracks
  <2> QED
    BY <2>1, <2>3, <1>7, <1>12
<1> QED
  BY <1>11, <1>12 DEF v

-----------------------------------------------------------------------------
(* What an edit session and a capture hold on the server.                  *)

Excused(w)      == w.svc.lapsed \/ w.svc.mixed
GrabClaim(w)    == w.x.grab => w.del.grabbed /\ (w.svc.captured \/ w.sess.grabbed)
RegionClaim(w)  == \/ w.svc.captured \/ w.sess.region
                   \/ w.x.region \in {"none", "default"} /\ w.del.region = "none"
HandlerClaim(w) == w.del.handler # 0 => w.sess.handler /\ w.sess.id = w.del.handler

\* What is on the server has an owner who knows of it.
Claims(w) == NoWindow(w) /\ (Excused(w) \/ (GrabClaim(w) /\ RegionClaim(w) /\ HandlerClaim(w)))

SessOk(w) ==
    /\ w.sess.grabbed \/ w.sess.region \/ w.sess.handler \/ w.sess.live => w.sess.id # 0
    /\ w.sess.target # None => w.sess.live

Held(w) == Claims(w) /\ SessOk(w)

\* No report waits to be told.
Hushed(w) == w.note = ""

\* A drag is under way, or its end is about to be told.
Owed(w) ==
    /\ w.drags = IF w.sess.target # None \/ ~Hushed(w) THEN 1 ELSE 0
    /\ ~Hushed(w) => w.sess.target = None

Owned(w) == Held(w) /\ Owed(w)

\* What every handler does.
Data(w, v) ==
    /\ IsWorld(v) /\ v.now = w.now /\ v.bad = w.bad /\ v.flushed = w.flushed
    /\ v.svc.opened = w.svc.opened
    /\ Keeps(w, v)

\* A step that begins and ends no drag, or one that may.
Minds(w, v) ==
    /\ Data(w, v) /\ v.drags = w.drags /\ v.note = w.note /\ v.svc = w.svc
    /\ Held(w) => Held(v)

Tends(w, v) == Data(w, v) /\ (Owned(w) => Owned(v))

\* Data is transitive;
LEMMA DataTrans ==
    ASSUME NEW w, NEW v, NEW u, Data(w, v), Data(v, u)
    PROVE  Data(w, u)
BY DEF Data, Keeps

\* so is Tends,
LEMMA TendsTrans ==
    ASSUME NEW w, NEW v, NEW u, Tends(w, v), Tends(v, u)
    PROVE  Tends(w, u)
BY DataTrans DEF Tends

\* which is also reflexive;
LEMMA TendsSelf ==
    ASSUME NEW w, IsWorld(w)
    PROVE  Tends(w, w)
BY DEF Tends, Data, Keeps

\* so is Minds.
LEMMA MindsTrans ==
    ASSUME NEW w, NEW v, NEW u, Minds(w, v), Minds(v, u)
    PROVE  Minds(w, u)
BY DataTrans DEF Minds

\* Minds keeps the shape of the world,
LEMMA MindsWorld ==
    ASSUME NEW w, NEW v, Minds(w, v)
    PROVE  IsWorld(v)
BY DEF Minds, Data

\* and so does Tends.
LEMMA TendsWorld ==
    ASSUME NEW w, NEW v, Tends(w, v)
    PROVE  IsWorld(v) /\ v.now = w.now
BY DEF Tends, Data

\* The delegate by itself takes nothing, so all that is there still has its owner.
LEMMA EasesHeld ==
    ASSUME NEW w, NEW v, Eases(w, v), Held(w)
    PROVE  Held(v)
<1>1. SessOk(v)
  BY DEF Held, SessOk, Eases, Beyond
<1>2. NoWindow(v) /\ (Excused(w) => Excused(v))
  BY DEF Held, Claims, Excused, Eases, Beyond
<1>3. ASSUME ~Excused(v) PROVE GrabClaim(v) /\ RegionClaim(v) /\ HandlerClaim(v)
  <2>1. GrabClaim(w) /\ RegionClaim(w) /\ HandlerClaim(w) /\ ~v.svc.lapsed
    BY <1>2, <1>3 DEF Held, Claims, Excused
  <2>2. GrabClaim(v)
    BY <2>1 DEF GrabClaim, Eases, Beyond
  <2>3. RegionClaim(v)
    BY <2>1 DEF RegionClaim, Eases, Beyond
  <2>4. HandlerClaim(v)
    BY <2>1 DEF HandlerClaim, Eases, Beyond
  <2> QED
    BY <2>2, <2>3, <2>4
<1> QED
  BY <1>1, <1>2, <1>3 DEF Held, Claims

\* What the delegate does alone takes nothing from an owner.
LEMMA ServesTends ==
    ASSUME NEW w, NEW v, Serves(w, v)
    PROVE  Tends(w, v) /\ v.note = w.note /\ v.sess = w.sess
<1>1. Data(w, v)
  BY DEF Serves, Data, Eases, Beyond
<1>2. Owned(w) => Owned(v)
  <2>1. /\ v.note = w.note /\ v.drags = w.drags /\ v.sess = w.sess
        /\ Held(w) => Held(v)
    BY EasesHeld DEF Serves, Eases, Beyond
  <2>2. Hushed(v) <=> Hushed(w)
    BY <2>1, Zenon DEF Hushed
  <2> QED
    BY <2>1, <2>2 DEF Owned, Owed
<1> QED
  BY <1>1, <1>2 DEF Tends, Serves, Eases, Beyond

\* Only the input side of the world has changed.
Touches(w, v) ==
    /\ DOMAIN v = WorldFields /\ DOMAIN v.del = DOMAIN ClosedDelegate
    /\ DOMAIN v.x = ServerFields /\ DOMAIN v.sess = DOMAIN NoSession
    /\ DOMAIN v.svc = DOMAIN NoService
    /\ v.now = w.now /\ v.topo = w.topo /\ v.scene = w.scene /\ v.bad = w.bad
    /\ v.flushed = w.flushed
    /\ v.told \in Seq(EditEvents) /\ v.posted \in Seq(EditEvents)
    /\ \A f \in DOMAIN ClosedDelegate \ {"region", "handler", "grabbed"} :
          v.del[f] = w.del[f]
    /\ v.del.region # "default"
    /\ v.x.comp = w.x.comp /\ v.x.queue \in Seq(ServerEvents)
    /\ v.svc.desync = w.svc.desync /\ v.svc.opened = w.svc.opened
    /\ v.svc.sessions \in Nat /\ v.sess.id \in Nat /\ v.del.handler \in Nat
    /\ v.calls \in Nat /\ v.ok \in BOOLEAN

\* Input requests leave the scene, the copy and the frame alone.
LEMMA TouchesData ==
    ASSUME NEW w, NEW v, IsWorld(w), Touches(w, v)
    PROVE  Data(w, v) /\ v.del.surface = w.del.surface
<1>1. /\ v.del.state = w.del.state /\ v.del.epoch = w.del.epoch
      /\ v.del.revision = w.del.revision /\ v.del.shapes = w.del.shapes
      /\ v.del.dirty = w.del.dirty /\ v.del.wake = w.del.wake
      /\ v.del.revived = w.del.revived
      /\ v.del.surface = w.del.surface /\ v.del.window = w.del.window
      /\ v.del.mapped = w.del.mapped
      /\ v.del.presented = w.del.presented /\ v.del.screen = w.del.screen
      /\ v.del.presentedRevision = w.del.presentedRevision /\ v.del.lost = w.del.lost
      /\ v.del.looked = w.del.looked
  BY DEF Touches
<1>2. IsWorld(v)
  BY <1>1 DEF Touches, IsWorld
<1>3. Idle(w, v)
  BY <1>1 DEF Touches, Idle, SameFrame
<1>4. Keeps(w, v)
  BY <1>3, IdleKeeps DEF Touches
<1> QED
  BY <1>1, <1>2, <1>4 DEF Data, Touches

\* What the input requests of the delegate leave alone.
Input(w, v) ==
    /\ Data(w, v) /\ v.svc = w.svc /\ v.sess = w.sess /\ v.drags = w.drags
    /\ v.note = w.note /\ v.del.surface = w.del.surface
    /\ w.del.surface = "bogus" \/ v.ok \/ Spent(v)
    /\ Spent(w) => Spent(v) /\ (v.ok \/ w.del.surface = "bogus")

\* A request that takes nothing,
LEMMA RequestInput ==
    ASSUME NEW w, IsWorld(w)
    PROVE  /\ Input(w, Request(w)) /\ Request(w).del = w.del /\ Request(w).x = w.x
           /\ Input(w, Done(w)) /\ Done(w).del = w.del /\ Done(w).x = w.x /\ Done(w).ok
<1>1. Serves(w, Request(w)) /\ Serves(w, Done(w))
  BY RequestServes
<1>2. Data(w, Request(w)) /\ Data(w, Done(w))
  BY <1>1, ServesTends DEF Tends
<1>3. Input(w, Request(w)) /\ Request(w).del = w.del /\ Request(w).x = w.x
  BY <1>2, RequestOk DEF Input, Eases, Beyond
<1>4. Done(w).calls = w.calls /\ Done(w).bad = w.bad /\ Done(w).ok
      /\ Done(w).del = w.del /\ Done(w).x = w.x /\ Done(w).svc = w.svc
  BY DoneOk DEF Eases, Beyond
<1>5. Spent(w) => Spent(Done(w))
  BY <1>4 DEF Spent
<1>6. Input(w, Done(w))
  BY <1>2, <1>4, <1>5, DoneOk DEF Input, Eases, Beyond
<1> QED
  BY <1>3, <1>4, <1>6

\* also if it is about the window,
LEMMA WindowInput ==
    ASSUME NEW w, IsWorld(w)
    PROVE  LET r == WindowRequest(w)
           IN  /\ Input(w, r) /\ r.del = w.del /\ r.x = w.x /\ IsWorld(r)
               /\ r.ok => w.del.surface # "bogus"
<1> DEFINE q == Request(w)
           r == WindowRequest(w)
<1>1. r = IF w.del.surface = "bogus" THEN Fail(q) ELSE q
  BY DEF WindowRequest
<1>2. Input(w, q) /\ q.del = w.del /\ q.x = w.x /\ IsWorld(q)
  BY RequestInput DEF Input, Data
<1> HIDE DEF q
<1>3. /\ Serves(q, Fail(q)) /\ ~Fail(q).ok /\ Fail(q).del = q.del /\ Fail(q).x = q.x
      /\ Fail(q).svc = q.svc /\ Eases(q, Fail(q))
      /\ Fail(q).calls = q.calls /\ Fail(q).bad = q.bad
  BY <1>2, FailOk, RequestServes DEF Fail, IsWorld
<1>4. Data(q, Fail(q)) /\ (Spent(q) => Spent(Fail(q)))
  BY <1>3, ServesTends DEF Tends, Spent
<1> HIDE DEF r
<1>5. CASE w.del.surface = "bogus"
  <2>1. r = Fail(q)
    BY <1>1, <1>5
  <2>2. Data(w, r)
    BY <1>2, <1>4, <2>1, DataTrans DEF Input
  <2> QED
    BY <1>2, <1>3, <1>4, <1>5, <2>1, <2>2 DEF r, Input, Data, Eases, Beyond
<1>6. CASE w.del.surface # "bogus"
  BY <1>1, <1>2, <1>6 DEF r
<1> QED
  BY <1>5, <1>6

\* A world with other input fields of the delegate and of the server.
LEMMA InputSet ==
    ASSUME NEW w, IsWorld(w), NEW v, DOMAIN v = WorldFields,
           \A f \in WorldFields \ {"del", "x"} : v[f] = w[f],
           DOMAIN v.del = DOMAIN ClosedDelegate, DOMAIN v.x = ServerFields,
           \A f \in DOMAIN ClosedDelegate \ {"region", "handler", "grabbed"} :
               v.del[f] = w.del[f],
           v.x.comp = w.x.comp, v.x.queue \in Seq(ServerEvents), v.del.handler \in Nat,
           v.del.region # "default"
    PROVE  /\ Data(w, v) /\ v.svc = w.svc /\ v.sess = w.sess /\ v.drags = w.drags
           /\ v.note = w.note /\ v.del.surface = w.del.surface /\ v.ok = w.ok
           /\ v.calls = w.calls /\ v.bad = w.bad
<1>1. /\ v.now = w.now /\ v.svc = w.svc /\ v.sess = w.sess /\ v.topo = w.topo
      /\ v.posted = w.posted /\ v.drags = w.drags /\ v.scene = w.scene
      /\ v.flushed = w.flushed /\ v.told = w.told /\ v.note = w.note /\ v.bad = w.bad
      /\ v.calls = w.calls /\ v.ok = w.ok
  OBVIOUS
<1>2. Touches(w, v)
  BY <1>1 DEF Touches, IsWorld
<1> QED
  BY <1>1, <1>2, TouchesData

\* and several.
LEMMA InputTrans ==
    ASSUME NEW w, NEW v, NEW u, Input(w, v), Input(v, u)
    PROVE  Input(w, u)
BY DataTrans DEF Input

\* set_input_region(): the region on the server is the one asked for, or the one before.
LEMMA SetRegionOk ==
    ASSUME NEW w, IsWorld(w), NEW reg, reg # "default"
    PROVE  LET v == SetInputRegion(w, reg)
           IN  /\ Data(w, v) /\ v.svc = w.svc /\ v.sess = w.sess /\ v.drags = w.drags
               /\ v.note = w.note /\ v.del.surface = w.del.surface
               /\ reg = "none" => Input(w, v)
               /\ v.del.handler = w.del.handler /\ v.del.grabbed = w.del.grabbed
               /\ v.x.grab = w.x.grab
               /\ NoWindow(w) => NoWindow(v)
               /\ v.ok => v.del.region = reg /\ (NoWindow(w) => v.x.region = reg)
               /\ ~v.ok => v.del.region = w.del.region /\ v.x.region = w.x.region
<1> DEFINE v == SetInputRegion(w, reg)
<1>1. w.x.queue \in Seq(ServerEvents) /\ w.del.handler \in Nat /\ DOMAIN w = WorldFields
      /\ DOMAIN w.del = DOMAIN ClosedDelegate /\ DOMAIN w.x = ServerFields
  BY DEF IsWorld
<1>2. CASE w.del.surface = "none" /\ reg = "none"
  <2> DEFINE d == [w EXCEPT !.del.region = "none"]
  <2>1. v = Done(d)
    BY <1>2 DEF SetInputRegion
  <2>2. /\ DOMAIN d = WorldFields /\ \A f \in WorldFields \ {"del", "x"} : d[f] = w[f]
        /\ DOMAIN d.del = DOMAIN ClosedDelegate /\ d.x = w.x /\ d.del.region = "none"
        /\ \A f \in DOMAIN ClosedDelegate \ {"region"} : d.del[f] = w.del[f]
    BY <1>1
  <2> HIDE DEF d
  <2>3. d.del.handler = w.del.handler /\ d.del.grabbed = w.del.grabbed
        /\ d.del.screen = w.del.screen
    BY <2>2
  <2>4. /\ Data(w, d) /\ d.svc = w.svc /\ d.sess = w.sess /\ d.drags = w.drags
        /\ d.note = w.note /\ d.del.surface = w.del.surface
        /\ d.calls = w.calls /\ d.bad = w.bad
    BY <1>1, <2>2, <2>3, InputSet
  <2>5. IsWorld(d)
    BY <2>4 DEF Data
  <2>6. Input(d, v) /\ v.del = d.del /\ v.x = d.x /\ v.ok
    BY <2>1, <2>5, RequestInput
  <2> HIDE DEF v
  <2>7. Data(w, v)
    BY <2>4, <2>6, DataTrans DEF Input
  <2>8. Spent(w) => Spent(v)
    BY <2>4, <2>6 DEF Input, Spent
  <2>9. Input(w, v)
    BY <2>4, <2>6, <2>7, <2>8 DEF Input
  <2> QED
    BY <1>2, <2>2, <2>3, <2>6, <2>9 DEF v, NoWindow, Input
<1>3. CASE w.del.surface = "none" /\ reg # "none"
  <2>1. v = Fail(w)
    BY <1>3 DEF SetInputRegion
  <2>2. Serves(w, v) /\ ~v.ok /\ v.del = w.del /\ v.x = w.x /\ v.svc = w.svc /\ Eases(w, v)
    BY <2>1, FailOk, RequestServes
  <2> HIDE DEF v
  <2>3. Data(w, v)
    BY <2>2, ServesTends DEF Tends
  <2> QED
    BY <1>3, <2>2, <2>3 DEF v, NoWindow, Eases, Beyond
<1>4. CASE w.del.surface # "none"
  <2> DEFINE r == WindowRequest(w)
             d == [r EXCEPT !.del.region = reg, !.x.region = reg]
  <2>1. v = IF r.ok THEN d ELSE r
    BY <1>4 DEF SetInputRegion, Then
  <2>2. Input(w, r) /\ r.del = w.del /\ r.x = w.x /\ IsWorld(r)
        /\ (r.ok => w.del.surface # "bogus")
    BY WindowInput
  <2> HIDE DEF r, v
  <2>3. /\ DOMAIN d = WorldFields /\ \A f \in WorldFields \ {"del", "x"} : d[f] = r[f]
        /\ DOMAIN d.del = DOMAIN ClosedDelegate /\ d.del.region = reg
        /\ \A f \in DOMAIN ClosedDelegate \ {"region"} : d.del[f] = r.del[f]
        /\ DOMAIN d.x = ServerFields /\ d.x.comp = r.x.comp /\ d.x.queue = r.x.queue
        /\ d.x.grab = r.x.grab /\ d.x.region = reg
    <3>1. DOMAIN r = WorldFields /\ DOMAIN r.del = DOMAIN ClosedDelegate
          /\ DOMAIN r.x = ServerFields
      BY <2>2 DEF IsWorld
    <3> QED
      BY <3>1
  <2> HIDE DEF d
  <2>4. d.del.handler = r.del.handler /\ d.del.grabbed = r.del.grabbed
        /\ d.del.screen = r.del.screen
        /\ d.x.queue \in Seq(ServerEvents) /\ d.del.handler \in Nat
    BY <2>2, <2>3 DEF IsWorld
  <2>5. /\ Data(r, d) /\ d.svc = r.svc /\ d.sess = r.sess /\ d.drags = r.drags
        /\ d.note = r.note /\ d.del.surface = r.del.surface /\ d.ok = r.ok
        /\ d.calls = r.calls /\ d.bad = r.bad
    BY <2>2, <2>3, <2>4, InputSet
  <2>6. Data(w, d) /\ (Spent(w) => Spent(d))
    BY <2>2, <2>5, DataTrans DEF Input, Spent
  <2>7. r.ok => Input(w, d)
    BY <2>2, <2>5, <2>6 DEF Input
  <2>8. CASE r.ok
    <3>1. v = d /\ v.ok
      BY <2>1, <2>5, <2>8
    <3> QED
      BY <1>4, <2>2, <2>3, <2>4, <2>7, <2>8, <3>1 DEF v, Input, NoWindow
  <2>9. CASE ~r.ok
    <3>1. v = r
      BY <2>1, <2>9
    <3> QED
      BY <1>4, <2>2, <2>9, <3>1 DEF v, Input, NoWindow
  <2> QED
    BY <2>8, <2>9
<1> QED
  BY <1>2, <1>3, <1>4

\* set_edit_handler(), likewise.
LEMMA SetHandlerOk ==
    ASSUME NEW w, IsWorld(w), NEW h \in Nat
    PROVE  LET v == SetEditHandler(w, h)
           IN  /\ Data(w, v) /\ v.svc = w.svc /\ v.sess = w.sess /\ v.drags = w.drags
               /\ v.note = w.note /\ v.del.surface = w.del.surface
               /\ h = 0 => Input(w, v)
               /\ v.del.region = w.del.region /\ v.del.grabbed = w.del.grabbed
               /\ v.x = w.x /\ v.del.screen = w.del.screen
               /\ v.ok => v.del.handler = h /\ v.del.surface # "bogus"
               /\ ~v.ok => v.del.handler = w.del.handler
<1> DEFINE v == SetEditHandler(w, h)
<1>1. w.x.queue \in Seq(ServerEvents) /\ w.del.handler \in Nat /\ DOMAIN w = WorldFields
      /\ DOMAIN w.del = DOMAIN ClosedDelegate /\ DOMAIN w.x = ServerFields
  BY DEF IsWorld
<1>2. CASE w.del.surface = "none" /\ h = 0
  <2> DEFINE d == [w EXCEPT !.del.handler = 0]
  <2>1. v = Done(d)
    BY <1>2 DEF SetEditHandler
  <2>2. /\ DOMAIN d = WorldFields /\ \A f \in WorldFields \ {"del", "x"} : d[f] = w[f]
        /\ DOMAIN d.del = DOMAIN ClosedDelegate /\ d.x = w.x /\ d.del.handler = 0
        /\ \A f \in DOMAIN ClosedDelegate \ {"handler"} : d.del[f] = w.del[f]
    BY <1>1
  <2> HIDE DEF d
  <2>3. d.del.region = w.del.region /\ d.del.grabbed = w.del.grabbed
        /\ d.del.screen = w.del.screen /\ d.del.region # "default"
    BY <2>2 DEF IsWorld
  <2>4. /\ Data(w, d) /\ d.svc = w.svc /\ d.sess = w.sess /\ d.drags = w.drags
        /\ d.note = w.note /\ d.del.surface = w.del.surface
        /\ d.calls = w.calls /\ d.bad = w.bad
    BY <1>1, <2>2, <2>3, InputSet
  <2>5. IsWorld(d)
    BY <2>4 DEF Data
  <2>6. Input(d, v) /\ v.del = d.del /\ v.x = d.x /\ v.ok
    BY <2>1, <2>5, RequestInput
  <2> HIDE DEF v
  <2>7. Data(w, v)
    BY <2>4, <2>6, DataTrans DEF Input
  <2>8. Spent(w) => Spent(v)
    BY <2>4, <2>6 DEF Input, Spent
  <2>9. Input(w, v)
    BY <2>4, <2>6, <2>7, <2>8 DEF Input
  <2> QED
    BY <1>2, <2>2, <2>3, <2>6, <2>9 DEF v, Input
<1>3. CASE w.del.surface = "none" /\ h # 0
  <2>1. v = Fail(w)
    BY <1>3 DEF SetEditHandler
  <2>2. Serves(w, v) /\ ~v.ok /\ v.del = w.del /\ v.x = w.x /\ v.svc = w.svc /\ Eases(w, v)
    BY <2>1, FailOk, RequestServes
  <2> HIDE DEF v
  <2>3. Data(w, v)
    BY <2>2, ServesTends DEF Tends
  <2> QED
    BY <1>3, <2>2, <2>3 DEF v, Eases, Beyond
<1>4. CASE w.del.surface # "none"
  <2> DEFINE r == WindowRequest(w)
             d == [r EXCEPT !.del.handler = h]
  <2>1. v = IF r.ok THEN d ELSE r
    BY <1>4 DEF SetEditHandler, Then
  <2>2. Input(w, r) /\ r.del = w.del /\ r.x = w.x /\ IsWorld(r)
        /\ (r.ok => w.del.surface # "bogus")
    BY WindowInput
  <2> HIDE DEF r, v
  <2>3. /\ DOMAIN d = WorldFields /\ \A f \in WorldFields \ {"del", "x"} : d[f] = r[f]
        /\ DOMAIN d.del = DOMAIN ClosedDelegate /\ d.del.handler = h
        /\ \A f \in DOMAIN ClosedDelegate \ {"handler"} : d.del[f] = r.del[f]
        /\ d.x = r.x
    <3>1. DOMAIN r = WorldFields /\ DOMAIN r.del = DOMAIN ClosedDelegate
      BY <2>2 DEF IsWorld
    <3> QED
      BY <3>1
  <2> HIDE DEF d
  <2>4. d.del.region = r.del.region /\ d.del.grabbed = r.del.grabbed
        /\ d.x.queue \in Seq(ServerEvents) /\ d.del.handler \in Nat /\ DOMAIN d.x = ServerFields
        /\ d.del.screen = r.del.screen /\ d.del.region # "default"
    BY <2>2, <2>3 DEF IsWorld
  <2>5. /\ Data(r, d) /\ d.svc = r.svc /\ d.sess = r.sess /\ d.drags = r.drags
        /\ d.note = r.note /\ d.del.surface = r.del.surface /\ d.ok = r.ok
        /\ d.calls = r.calls /\ d.bad = r.bad
    BY <2>2, <2>3, <2>4, InputSet
  <2>6. Data(w, d) /\ (Spent(w) => Spent(d))
    BY <2>2, <2>5, DataTrans DEF Input, Spent
  <2>7. r.ok => Input(w, d)
    BY <2>2, <2>5, <2>6 DEF Input
  <2>8. CASE r.ok
    <3>1. v = d /\ v.ok
      BY <2>1, <2>5, <2>8
    <3> QED
      BY <1>4, <2>2, <2>3, <2>4, <2>7, <2>8, <3>1 DEF v, Input
  <2>9. CASE ~r.ok
    <3>1. v = r
      BY <2>1, <2>9
    <3> QED
      BY <1>4, <2>2, <2>9, <3>1 DEF v, Input
  <2> QED
    BY <2>8, <2>9
<1> QED
  BY <1>2, <1>3, <1>4

\* The grab on the server and what the delegate knows of it are both set to b.
LEMMA GrabSet ==
    ASSUME NEW w, IsWorld(w), NEW b \in BOOLEAN
    PROVE  LET d == [w EXCEPT !.x.grab = b, !.del.grabbed = b]
           IN  /\ Data(w, d) /\ d.svc = w.svc /\ d.sess = w.sess /\ d.drags = w.drags
               /\ d.note = w.note /\ d.del.surface = w.del.surface /\ d.ok = w.ok
               /\ d.del.handler = w.del.handler /\ d.del.region = w.del.region
               /\ d.x.region = w.x.region /\ d.x.grab = b /\ d.del.grabbed = b
               /\ d.del.screen = w.del.screen
               /\ d.calls = w.calls /\ d.bad = w.bad
<1> DEFINE d == [w EXCEPT !.x.grab = b, !.del.grabbed = b]
<1>1. w.x.queue \in Seq(ServerEvents) /\ w.del.handler \in Nat /\ DOMAIN w = WorldFields
      /\ DOMAIN w.del = DOMAIN ClosedDelegate /\ DOMAIN w.x = ServerFields
  BY DEF IsWorld
<1>2. /\ DOMAIN d = WorldFields /\ \A f \in WorldFields \ {"del", "x"} : d[f] = w[f]
      /\ DOMAIN d.del = DOMAIN ClosedDelegate /\ d.del.grabbed = b
      /\ \A f \in DOMAIN ClosedDelegate \ {"grabbed"} : d.del[f] = w.del[f]
      /\ DOMAIN d.x = ServerFields /\ d.x.comp = w.x.comp /\ d.x.queue = w.x.queue
      /\ d.x.grab = b /\ d.x.region = w.x.region
  BY <1>1
<1> HIDE DEF d
<1>3. d.del.handler = w.del.handler /\ d.del.region = w.del.region
      /\ d.del.screen = w.del.screen
  BY <1>2
<1>4. d.x.queue \in Seq(ServerEvents) /\ d.del.handler \in Nat /\ d.del.region # "default"
  BY <1>1, <1>2, <1>3 DEF IsWorld
<1>5. /\ Data(w, d) /\ d.svc = w.svc /\ d.sess = w.sess /\ d.drags = w.drags
      /\ d.note = w.note /\ d.del.surface = w.del.surface /\ d.ok = w.ok
      /\ d.calls = w.calls /\ d.bad = w.bad
  BY <1>2, <1>4, InputSet
<1> QED
  BY <1>2, <1>3, <1>5 DEF d

\* grab_pointer(): a grab on the server is one the delegate knows of, also if the reply
\* is lost.
LEMMA GrabOk ==
    ASSUME NEW w, IsWorld(w)
    PROVE  LET v == GrabPointer(w)
           IN  /\ Data(w, v) /\ v.svc = w.svc /\ v.sess = w.sess /\ v.drags = w.drags
               /\ v.note = w.note /\ v.del.surface = w.del.surface
               /\ v.del.handler = w.del.handler /\ v.del.region = w.del.region
               /\ v.x.region = w.x.region /\ v.del.screen = w.del.screen
               /\ (w.x.grab => w.del.grabbed) => (v.x.grab => v.del.grabbed)
<1> DEFINE s == [w EXCEPT !.x.grab = TRUE, !.del.grabbed = TRUE]
           q == Request(s)
           r == Request(q)
           f == [r EXCEPT !.x.grab = FALSE, !.del.grabbed = FALSE]
           h == [w EXCEPT !.del.grabbed = TRUE]
           v == GrabPointer(w)
<1>1. v = IF w.del.grabbed THEN Done(w)
          ELSE IF w.del.surface = "none" THEN Fail(w)
          ELSE IF w.del.surface = "bogus" THEN Fail(h)
          ELSE IF q.ok THEN (IF r.ok THEN r ELSE f) ELSE q
  BY Zenon DEF GrabPointer, Then, OrElse
<1>2. /\ Data(w, s) /\ s.svc = w.svc /\ s.sess = w.sess /\ s.drags = w.drags
      /\ s.note = w.note /\ s.del.surface = w.del.surface
      /\ s.del.handler = w.del.handler /\ s.del.region = w.del.region
      /\ s.x.region = w.x.region /\ s.x.grab = TRUE /\ s.del.grabbed = TRUE
      /\ s.del.screen = w.del.screen
  BY GrabSet, Zenon
<1> HIDE DEF s, v, h
<1>3. Input(s, q) /\ q.del = s.del /\ q.x = s.x /\ IsWorld(q)
  <2>1. IsWorld(s)
    BY <1>2 DEF Data
  <2> QED
    BY <2>1, RequestInput DEF Input, Data
<1> HIDE DEF q
<1>4. Input(q, r) /\ r.del = q.del /\ r.x = q.x /\ IsWorld(r)
  BY <1>3, RequestInput DEF Input, Data
<1> HIDE DEF r
<1>5. /\ Data(r, f) /\ f.svc = r.svc /\ f.sess = r.sess /\ f.drags = r.drags
      /\ f.note = r.note /\ f.del.surface = r.del.surface
      /\ f.del.handler = r.del.handler /\ f.del.region = r.del.region
      /\ f.x.region = r.x.region /\ f.x.grab = FALSE /\ f.del.screen = r.del.screen
  BY <1>4, GrabSet, Zenon
<1> HIDE DEF f
<1>6. Data(w, q) /\ Data(w, r) /\ Data(w, f)
  BY <1>2, <1>3, <1>4, <1>5, DataTrans DEF Input
<1>7. Input(w, Done(w)) /\ Done(w).del = w.del /\ Done(w).x = w.x
  BY RequestInput
<1>8. Data(w, Fail(w)) /\ Fail(w).del = w.del /\ Fail(w).x = w.x /\ Fail(w).svc = w.svc
      /\ Eases(w, Fail(w))
  BY FailOk, RequestServes, ServesTends DEF Tends
<1>9. CASE v = Done(w)
  BY <1>7, <1>9 DEF v, Input
<1>10. CASE v = Fail(w)
  BY <1>8, <1>10 DEF v, Eases, Beyond
<1>11. CASE v = q
  BY <1>2, <1>3, <1>6, <1>11 DEF v, Input
<1>12. CASE v = r
  BY <1>2, <1>3, <1>4, <1>6, <1>12 DEF v, Input
<1>13. CASE v = f
  BY <1>2, <1>3, <1>4, <1>5, <1>6, <1>13 DEF v, Input
<1>14. CASE v = Fail(h)
  <2>. USE DEF h
  <2>1. DOMAIN w = WorldFields /\ DOMAIN w.del = DOMAIN ClosedDelegate
        /\ DOMAIN w.x = ServerFields /\ w.x.queue \in Seq(ServerEvents)
        /\ w.del.handler \in Nat /\ w.del.region # "default"
    BY DEF IsWorld
  <2>2. /\ DOMAIN h = WorldFields /\ \A g \in WorldFields \ {"del", "x"} : h[g] = w[g]
        /\ DOMAIN h.del = DOMAIN ClosedDelegate /\ h.del.grabbed = TRUE /\ h.x = w.x
        /\ \A g \in DOMAIN ClosedDelegate \ {"grabbed"} : h.del[g] = w.del[g]
    BY <2>1
  <2> HIDE DEF h
  <2>3. /\ h.del.handler = w.del.handler /\ h.del.region = w.del.region
        /\ h.del.screen = w.del.screen
    BY <2>2
  <2>4. /\ Data(w, h) /\ h.svc = w.svc /\ h.sess = w.sess /\ h.drags = w.drags
        /\ h.note = w.note /\ h.del.surface = w.del.surface /\ IsWorld(h)
    BY <2>1, <2>2, <2>3, InputSet DEF Data
  <2>5. Data(h, v) /\ v.del = h.del /\ v.x = h.x /\ v.svc = h.svc /\ Eases(h, v)
    BY <1>14, <2>4, FailOk, RequestServes, ServesTends DEF Tends
  <2>6. Data(w, v)
    BY <2>4, <2>5, DataTrans
  <2> QED
    BY <2>2, <2>3, <2>4, <2>5, <2>6 DEF v, Eases, Beyond
<1> QED
  BY <1>1, <1>9, <1>10, <1>11, <1>12, <1>13, <1>14

\* ungrab_pointer() that succeeded leaves no grab.
LEMMA UngrabOk ==
    ASSUME NEW w, IsWorld(w)
    PROVE  LET v == UngrabPointer(w)
           IN  /\ Input(w, v)
               /\ v.del.handler = w.del.handler /\ v.del.region = w.del.region
               /\ v.x.region = w.x.region /\ v.del.screen = w.del.screen
               /\ v.x.grab => w.x.grab /\ v.del.grabbed = w.del.grabbed
               /\ v.ok /\ (w.x.grab => w.del.grabbed) => ~v.x.grab
<1> DEFINE v == UngrabPointer(w)
<1>1. CASE ~w.del.grabbed
  <2>1. v = Done(w)
    BY <1>1 DEF UngrabPointer
  <2> QED
    BY <1>1, <2>1, RequestInput
<1>2. CASE w.del.grabbed
  <2> DEFINE r == Request(w)
             e == [kind |-> "ungrab", window |-> r.del.window]
             c == Crossing(EndGrab(r))
             d == [c EXCEPT !.del.grabbed = FALSE]
  <2>1. v = IF r.ok THEN d ELSE r
    BY <1>2 DEF UngrabPointer, Then
  <2>2. Input(w, r) /\ r.del = w.del /\ r.x = w.x /\ IsWorld(r)
    BY RequestInput DEF Input, Data
  <2> HIDE DEF r, v
  <2>3. DOMAIN r = WorldFields /\ DOMAIN r.del = DOMAIN ClosedDelegate
        /\ DOMAIN r.x = ServerFields /\ r.x.queue \in Seq(ServerEvents)
        /\ r.del.handler \in Nat /\ r.del.window \in Nat
    BY <2>2 DEF IsWorld
  <2>4. Append(r.x.queue, e) \in Seq(ServerEvents)
    BY <2>3 DEF ServerEvents
  <2>5. /\ DOMAIN d = WorldFields /\ \A f \in WorldFields \ {"del", "x"} : d[f] = r[f]
        /\ DOMAIN d.del = DOMAIN ClosedDelegate
        /\ \A f \in DOMAIN ClosedDelegate \ {"grabbed"} : d.del[f] = r.del[f]
        /\ DOMAIN d.x = ServerFields /\ d.x.comp = r.x.comp
        /\ d.x.queue \in {r.x.queue, Append(r.x.queue, e)}
        /\ d.x.grab = FALSE /\ d.x.region = r.x.region
    <3> DEFINE g == EndGrab(r)
    <3>1. /\ DOMAIN g = WorldFields /\ g.del = r.del /\ DOMAIN g.x = ServerFields
          /\ \A f \in WorldFields \ {"x"} : g[f] = r[f]
          /\ g.x.comp = r.x.comp /\ g.x.queue = r.x.queue /\ g.x.grab = FALSE
          /\ g.x.region = r.x.region
      BY <2>3 DEF EndGrab
    <3> HIDE DEF g
    <3>2. /\ DOMAIN c = WorldFields /\ c.del = r.del /\ DOMAIN c.x = ServerFields
          /\ \A f \in WorldFields \ {"x"} : c[f] = r[f]
          /\ c.x.comp = r.x.comp /\ c.x.queue \in {r.x.queue, Append(r.x.queue, e)}
          /\ c.x.grab = FALSE /\ c.x.region = r.x.region
      <4>1. c = IF g.del.handler = 0 THEN g
                ELSE [g EXCEPT !.x.queue = Append(@, [kind |-> "ungrab", window |-> g.del.window])]
        BY DEF Crossing, g
      <4> HIDE DEF c
      <4> QED
        BY <4>1, <3>1
    <3> HIDE DEF c
    <3> QED
      BY <3>2, <2>3
  <2> HIDE DEF d, e
  <2>6. d.x.queue \in Seq(ServerEvents)
    BY <2>3, <2>4, <2>5
  <2>7. d.del.handler = r.del.handler /\ d.del.region = r.del.region
        /\ d.del.screen = r.del.screen /\ d.del.region # "default"
    BY <2>2, <2>5 DEF IsWorld
  <2>8. /\ Data(r, d) /\ d.svc = r.svc /\ d.sess = r.sess /\ d.drags = r.drags
        /\ d.note = r.note /\ d.del.surface = r.del.surface /\ d.ok = r.ok
        /\ d.calls = r.calls /\ d.bad = r.bad
    BY <2>2, <2>3, <2>5, <2>6, <2>7, InputSet
  <2>9. Data(w, d) /\ (Spent(w) => Spent(d))
    BY <2>2, <2>8, DataTrans DEF Input, Spent
  <2>10. CASE r.ok
    <3>1. v = d /\ v.ok
      BY <2>1, <2>8, <2>10
    <3>2. Input(w, d)
      BY <2>2, <2>8, <2>9, <2>10 DEF Input
    <3> QED
      BY <2>2, <2>5, <2>7, <3>1, <3>2 DEF v
  <2>11. CASE ~r.ok
    <3>1. v = r
      BY <2>1, <2>11
    <3> QED
      BY <2>2, <2>11, <3>1 DEF v
  <2> QED
    BY <2>10, <2>11
<1> QED
  BY <1>1, <1>2

-----------------------------------------------------------------------------
(* The session's obligations.                                              *)

\* A world with another session, or other books about it.
LEMMA SessSet ==
    ASSUME NEW w, IsWorld(w), NEW v, DOMAIN v = WorldFields,
           \A f \in WorldFields \ {"sess", "drags", "note", "svc"} : v[f] = w[f],
           DOMAIN v.sess = DOMAIN NoSession, DOMAIN v.svc = DOMAIN NoService,
           v.sess.id \in Nat, v.svc.sessions \in Nat,
           v.svc.desync = w.svc.desync, v.svc.opened = w.svc.opened
    PROVE  /\ Data(w, v) /\ v.del = w.del /\ v.x = w.x /\ v.ok = w.ok
           /\ v.calls = w.calls /\ v.bad = w.bad /\ v.scene = w.scene
           /\ Spent(w) => Spent(v)
<1>1. /\ v.now = w.now /\ v.del = w.del /\ v.x = w.x /\ v.topo = w.topo
      /\ v.posted = w.posted /\ v.scene = w.scene
      /\ v.flushed = w.flushed /\ v.told = w.told /\ v.bad = w.bad
      /\ v.calls = w.calls /\ v.ok = w.ok
  OBVIOUS
<1>2. Touches(w, v)
  BY <1>1 DEF Touches, IsWorld
<1> QED
  BY <1>1, <1>2, TouchesData DEF Spent

\* The same session with one field changed.
LEMMA FieldSet ==
    ASSUME NEW w, IsWorld(w), NEW g \in DOMAIN NoSession \ {"id"}, NEW v,
           DOMAIN v = WorldFields, \A f \in WorldFields \ {"sess"} : v[f] = w[f],
           DOMAIN v.sess = DOMAIN NoSession,
           \A f \in DOMAIN NoSession \ {g} : v.sess[f] = w.sess[f]
    PROVE  /\ Data(w, v) /\ v.del = w.del /\ v.x = w.x /\ v.ok = w.ok
           /\ v.svc = w.svc /\ v.drags = w.drags /\ v.note = w.note
           /\ v.scene = w.scene
           /\ Spent(w) => Spent(v)
<1>1. DOMAIN w = WorldFields /\ DOMAIN w.sess = DOMAIN NoSession /\ w.sess.id \in Nat
      /\ DOMAIN w.svc = DOMAIN NoService /\ w.svc.sessions \in Nat
  BY DEF IsWorld
<1>2. v.sess.id = w.sess.id /\ v.svc = w.svc /\ v.drags = w.drags /\ v.note = w.note
  OBVIOUS
<1>3. \A f \in WorldFields \ {"sess", "drags", "note", "svc"} : v[f] = w[f]
  OBVIOUS
<1> QED
  BY <1>1, <1>2, <1>3, SessSet

\* The outcome alone.
LEMMA OutcomeMinds ==
    ASSUME NEW w, IsWorld(w), NEW o \in BOOLEAN
    PROVE  LET v == [w EXCEPT !.ok = o]
           IN  /\ Minds(w, v) /\ v.ok = o /\ v.sess = w.sess /\ v.del = w.del /\ v.x = w.x
               /\ Spent(w) => Spent(v)
<1> DEFINE v == [w EXCEPT !.ok = o]
<1>1. Serves(w, v) /\ v.ok = o
  BY OutcomeServes
<1>2. DOMAIN w = WorldFields
  BY DEF IsWorld
<1>3. v.svc = w.svc /\ v.del = w.del /\ v.x = w.x /\ v.bad = w.bad /\ v.calls = w.calls
      /\ v.sess = w.sess
  BY <1>2
<1> HIDE DEF v
<1>4. Data(w, v) /\ v.note = w.note
  BY <1>1, ServesTends DEF Tends
<1>5. Held(w) => Held(v)
  BY <1>1, EasesHeld DEF Serves
<1>6. v.drags = w.drags
  BY <1>1 DEF Serves, Eases, Beyond
<1> QED
  BY <1>1, <1>3, <1>4, <1>5, <1>6 DEF Minds, Spent, v

\* A step that can fail only with a request that is refused, or on a bogus window.
Tries(w, v) ==
    /\ v.del.surface = w.del.surface
    /\ w.del.surface = "bogus" \/ v.ok \/ Spent(v)
    /\ Spent(w) => Spent(v) /\ (v.ok \/ w.del.surface = "bogus")

\* release_pointer(): the obligation goes only with the grab.
LEMMA ReleaseOk ==
    ASSUME NEW w, IsWorld(w)
    PROVE  LET v == ReleasePointer(w)
           IN  /\ Minds(w, v) /\ Tries(w, v)
               /\ \A f \in DOMAIN NoSession \ {"grabbed"} : v.sess[f] = w.sess[f]
               /\ v.ok => ~v.sess.grabbed
               /\ v.sess.grabbed => w.sess.grabbed
               /\ v.del.handler \in {0, w.del.handler}
<1> DEFINE u == UngrabPointer(w)
           d == [u EXCEPT !.sess.grabbed = FALSE]
           v == ReleasePointer(w)
<1>1. v = IF ~w.sess.grabbed THEN Done(w) ELSE IF u.ok THEN d ELSE u
  BY DEF ReleasePointer, Then
<1>2. /\ Input(w, u)
      /\ u.del.handler = w.del.handler /\ u.del.region = w.del.region
      /\ u.x.region = w.x.region /\ u.del.screen = w.del.screen
      /\ u.x.grab => w.x.grab /\ u.del.grabbed = w.del.grabbed
      /\ u.ok /\ (w.x.grab => w.del.grabbed) => ~u.x.grab
  BY UngrabOk
<1> HIDE DEF u, v
<1>3. IsWorld(u)
  BY <1>2 DEF Input, Data
<1>4. /\ Data(u, d) /\ d.del = u.del /\ d.x = u.x /\ d.ok = u.ok
      /\ d.svc = u.svc /\ d.drags = u.drags /\ d.note = u.note
      /\ \A f \in DOMAIN NoSession \ {"grabbed"} : d.sess[f] = u.sess[f]
      /\ d.sess.grabbed = FALSE
      /\ Spent(u) => Spent(d)
  <2>1. DOMAIN u = WorldFields /\ DOMAIN u.sess = DOMAIN NoSession
    BY <1>3 DEF IsWorld
  <2>2. /\ DOMAIN d = WorldFields /\ \A f \in WorldFields \ {"sess"} : d[f] = u[f]
        /\ DOMAIN d.sess = DOMAIN NoSession /\ d.sess.grabbed = FALSE
        /\ \A f \in DOMAIN NoSession \ {"grabbed"} : d.sess[f] = u.sess[f]
    BY <2>1
  <2> HIDE DEF d
  <2> QED
    BY <1>3, <2>2, FieldSet
<1> HIDE DEF d
<1>5. CASE v = Done(w) /\ ~w.sess.grabbed
  <2>1. Input(w, v) /\ v.del = w.del /\ v.x = w.x /\ v.ok
    BY <1>5, RequestInput
  <2>2. Held(w) => Held(v)
    BY <2>1 DEF Input, Held, Claims, SessOk, NoWindow, Excused, GrabClaim, RegionClaim,
                HandlerClaim
  <2> QED
    BY <1>5, <2>1, <2>2 DEF v, Minds, Input, Tries
<1>6. CASE v = u /\ ~u.ok
  <2>1. Held(w) => Held(u)
    BY <1>2 DEF Input, Held, Claims, SessOk, NoWindow, Excused, GrabClaim, RegionClaim,
                HandlerClaim
  <2> QED
    BY <1>2, <1>6, <2>1 DEF v, Minds, Input, Tries
<1>7. CASE v = d /\ u.ok
  <2>1. /\ d.sess.region = w.sess.region /\ d.sess.handler = w.sess.handler
        /\ d.sess.live = w.sess.live /\ d.sess.target = w.sess.target
        /\ d.sess.id = w.sess.id
    BY <1>2, <1>4 DEF Input
  <2>2. Held(w) => Held(d)
    BY <1>2, <1>4, <1>7, <2>1 DEF Input, Held, Claims, SessOk, NoWindow, Excused,
                GrabClaim, RegionClaim, HandlerClaim
  <2>3. Data(w, d)
    BY <1>2, <1>4, DataTrans DEF Input
  <2> QED
    BY <1>2, <1>4, <1>7, <2>2, <2>3, ZenonT(30) DEF v, Minds, Input, Tries
<1> QED
  BY <1>1, <1>5, <1>6, <1>7

\* The region's part of stop(): the obligation goes only with the region.
LEMMA StopRegionOk ==
    ASSUME NEW w, IsWorld(w)
    PROVE  LET v == StopRegion(w)
           IN  /\ Minds(w, v) /\ Tries(w, v)
               /\ \A f \in DOMAIN NoSession \ {"region"} : v.sess[f] = w.sess[f]
               /\ v.ok => ~v.sess.region
               /\ v.sess.region => w.sess.region
               /\ v.del.handler \in {0, w.del.handler}
<1> DEFINE u == SetInputRegion(w, "none")
           d == [u EXCEPT !.sess.region = FALSE]
           v == StopRegion(w)
<1>1. v = IF ~w.sess.handler /\ ~w.sess.region THEN Done(w) ELSE IF u.ok THEN d ELSE u
  BY DEF StopRegion, Then
<1>2. /\ Input(w, u)
      /\ u.del.handler = w.del.handler /\ u.del.grabbed = w.del.grabbed
      /\ u.x.grab = w.x.grab
      /\ NoWindow(w) => NoWindow(u)
      /\ u.ok => u.del.region = "none" /\ (NoWindow(w) => u.x.region = "none")
      /\ ~u.ok => u.del.region = w.del.region /\ u.x.region = w.x.region
  BY SetRegionOk
<1> HIDE DEF u, v
<1>3. IsWorld(u)
  BY <1>2 DEF Input, Data
<1>4. /\ Data(u, d) /\ d.del = u.del /\ d.x = u.x /\ d.ok = u.ok
      /\ d.svc = u.svc /\ d.drags = u.drags /\ d.note = u.note
      /\ \A f \in DOMAIN NoSession \ {"region"} : d.sess[f] = u.sess[f]
      /\ d.sess.region = FALSE
      /\ Spent(u) => Spent(d)
  <2>1. DOMAIN u = WorldFields /\ DOMAIN u.sess = DOMAIN NoSession
    BY <1>3 DEF IsWorld
  <2>2. /\ DOMAIN d = WorldFields /\ \A f \in WorldFields \ {"sess"} : d[f] = u[f]
        /\ DOMAIN d.sess = DOMAIN NoSession /\ d.sess.region = FALSE
        /\ \A f \in DOMAIN NoSession \ {"region"} : d.sess[f] = u.sess[f]
    BY <2>1
  <2> HIDE DEF d
  <2> QED
    BY <1>3, <2>2, FieldSet, SMTT(20)
<1> HIDE DEF d
<1>5. CASE v = Done(w) /\ ~w.sess.region
  <2>1. Input(w, v) /\ v.del = w.del /\ v.x = w.x /\ v.ok
    BY <1>5, RequestInput
  <2>2. Held(w) => Held(v)
    BY <2>1 DEF Input, Held, Claims, SessOk, NoWindow, Excused, GrabClaim, RegionClaim,
                HandlerClaim
  <2> QED
    BY <1>5, <2>1, <2>2 DEF v, Minds, Input, Tries
<1>6. CASE v = u /\ ~u.ok
  <2>1. Held(w) => Held(u)
    BY <1>2, <1>6 DEF Input, Held, Claims, SessOk, NoWindow, Excused, GrabClaim, RegionClaim,
                HandlerClaim
  <2> QED
    BY <1>2, <1>6, <2>1 DEF v, Minds, Input, Tries
<1>7. CASE v = d /\ u.ok
  <2>1. /\ d.sess.grabbed = w.sess.grabbed /\ d.sess.handler = w.sess.handler
        /\ d.sess.live = w.sess.live /\ d.sess.target = w.sess.target
        /\ d.sess.id = w.sess.id
    BY <1>2, <1>4 DEF Input
  <2>2. Held(w) => Held(d)
    BY <1>2, <1>4, <1>7, <2>1 DEF Input, Held, Claims, SessOk, NoWindow, Excused,
                GrabClaim, RegionClaim, HandlerClaim
  <2>3. Data(w, d)
    BY <1>2, <1>4, DataTrans DEF Input
  <2> QED
    BY <1>2, <1>4, <1>7, <2>2, <2>3, ZenonT(30) DEF v, Minds, Input, Tries
<1> QED
  BY <1>1, <1>5, <1>6, <1>7

\* The handler's part, likewise.
LEMMA StopHandlerOk ==
    ASSUME NEW w, IsWorld(w)
    PROVE  LET v == StopHandler(w)
           IN  /\ Minds(w, v) /\ Tries(w, v)
               /\ \A f \in DOMAIN NoSession \ {"handler"} : v.sess[f] = w.sess[f]
               /\ v.ok => ~v.sess.handler
               /\ v.sess.handler => w.sess.handler
               /\ v.del.handler \in {0, w.del.handler}
<1> DEFINE u == SetEditHandler(w, 0)
           d == [u EXCEPT !.sess.handler = FALSE]
           v == StopHandler(w)
<1>1. v = IF ~w.sess.handler THEN Done(w) ELSE IF u.ok THEN d ELSE u
  BY DEF StopHandler, Then
<1>2. /\ Input(w, u)
      /\ u.del.region = w.del.region /\ u.del.grabbed = w.del.grabbed
      /\ u.x = w.x /\ u.del.screen = w.del.screen
      /\ u.ok => u.del.handler = 0
      /\ ~u.ok => u.del.handler = w.del.handler
  BY SetHandlerOk
<1> HIDE DEF u, v
<1>3. IsWorld(u)
  BY <1>2 DEF Input, Data
<1>4. /\ Data(u, d) /\ d.del = u.del /\ d.x = u.x /\ d.ok = u.ok
      /\ d.svc = u.svc /\ d.drags = u.drags /\ d.note = u.note
      /\ \A f \in DOMAIN NoSession \ {"handler"} : d.sess[f] = u.sess[f]
      /\ d.sess.handler = FALSE
      /\ Spent(u) => Spent(d)
  <2>1. DOMAIN u = WorldFields /\ DOMAIN u.sess = DOMAIN NoSession
    BY <1>3 DEF IsWorld
  <2>2. /\ DOMAIN d = WorldFields /\ \A f \in WorldFields \ {"sess"} : d[f] = u[f]
        /\ DOMAIN d.sess = DOMAIN NoSession /\ d.sess.handler = FALSE
        /\ \A f \in DOMAIN NoSession \ {"handler"} : d.sess[f] = u.sess[f]
    BY <2>1
  <2> HIDE DEF d
  <2> QED
    BY <1>3, <2>2, FieldSet
<1> HIDE DEF d
<1>5. CASE v = Done(w) /\ ~w.sess.handler
  <2>1. Input(w, v) /\ v.del = w.del /\ v.x = w.x /\ v.ok
    BY <1>5, RequestInput
  <2>2. Held(w) => Held(v)
    BY <2>1 DEF Input, Held, Claims, SessOk, NoWindow, Excused, GrabClaim, RegionClaim,
                HandlerClaim
  <2> QED
    BY <1>5, <2>1, <2>2 DEF v, Minds, Input, Tries
<1>6. CASE v = u /\ ~u.ok
  <2>1. Held(w) => Held(u)
    BY <1>2, <1>6 DEF Input, Held, Claims, SessOk, NoWindow, Excused, GrabClaim, RegionClaim,
                HandlerClaim
  <2> QED
    BY <1>2, <1>6, <2>1 DEF v, Minds, Input, Tries
<1>7. CASE v = d /\ u.ok
  <2>1. /\ d.sess.grabbed = w.sess.grabbed /\ d.sess.region = w.sess.region
        /\ d.sess.live = w.sess.live /\ d.sess.target = w.sess.target
        /\ d.sess.id = w.sess.id
    BY <1>2, <1>4 DEF Input
  <2>2. Held(w) => Held(d)
    BY <1>2, <1>4, <1>7, <2>1 DEF Input, Held, Claims, SessOk, NoWindow, Excused,
                GrabClaim, RegionClaim, HandlerClaim
  <2>3. Data(w, d)
    BY <1>2, <1>4, DataTrans DEF Input
  <2> QED
    BY <1>2, <1>4, <1>7, <2>2, <2>3 DEF v, Minds, Input, Tries
<1> QED
  BY <1>1, <1>5, <1>6, <1>7

\* The session's record may change in what is no obligation.
LEMMA LooseOk ==
    ASSUME NEW w, IsWorld(w), NEW v, DOMAIN v = WorldFields,
           \A f \in WorldFields \ {"sess"} : v[f] = w[f],
           DOMAIN v.sess = DOMAIN NoSession,
           \A f \in {"id", "grabbed", "handler", "region"} : v.sess[f] = w.sess[f],
           v.sess.live => w.sess.live, v.sess.target # None => v.sess.live
    PROVE  /\ Minds(w, v) /\ v.ok = w.ok /\ v.del = w.del /\ v.x = w.x
           /\ v.scene = w.scene /\ (Spent(w) => Spent(v))
<1>1. DOMAIN w.sess = DOMAIN NoSession /\ w.sess.id \in Nat
      /\ DOMAIN w.svc = DOMAIN NoService /\ w.svc.sessions \in Nat
  BY DEF IsWorld
<1>2. v.sess.id = w.sess.id /\ v.svc = w.svc /\ v.drags = w.drags /\ v.note = w.note
      /\ v.sess.grabbed = w.sess.grabbed /\ v.sess.handler = w.sess.handler
      /\ v.sess.region = w.sess.region
  OBVIOUS
<1>3. \A f \in WorldFields \ {"sess", "drags", "note", "svc"} : v[f] = w[f]
  OBVIOUS
<1>4. /\ Data(w, v) /\ v.del = w.del /\ v.x = w.x /\ v.ok = w.ok /\ v.scene = w.scene
      /\ Spent(w) => Spent(v)
  BY <1>1, <1>2, <1>3, SessSet
<1>5. Held(w) => Held(v)
  BY <1>2, <1>4 DEF Held, Claims, SessOk, NoWindow, Excused, GrabClaim, RegionClaim,
                    HandlerClaim
<1> QED
  BY <1>2, <1>4, <1>5 DEF Minds

\* finish_drag() and cancel_interaction().
LEMMA DropOk ==
    ASSUME NEW w, IsWorld(w)
    PROVE  LET v == DropDrag(w)
           IN  /\ Minds(w, v) /\ v.ok = w.ok /\ v.sess.target = None
               /\ \A f \in DOMAIN NoSession \ {"target", "original"} : v.sess[f] = w.sess[f]
               /\ Spent(w) => Spent(v)
<1> DEFINE v == DropDrag(w)
<1>1. DOMAIN w = WorldFields /\ DOMAIN w.sess = DOMAIN NoSession
  BY DEF IsWorld
<1>2. /\ DOMAIN v = WorldFields /\ \A f \in WorldFields \ {"sess"} : v[f] = w[f]
      /\ DOMAIN v.sess = DOMAIN NoSession /\ v.sess.target = None
      /\ \A f \in DOMAIN NoSession \ {"target", "original"} : v.sess[f] = w.sess[f]
  BY <1>1 DEF DropDrag
<1> HIDE DEF v
<1>3. \A f \in {"id", "grabbed", "handler", "region"} : v.sess[f] = w.sess[f]
  BY <1>2
<1>4. v.sess.live = w.sess.live
  BY <1>2
<1> QED
  BY <1>2, <1>3, <1>4, LooseOk DEF v

\* stop(): if all three succeeded the session holds nothing, and it is not live either
\* way.
LEMMA StopOk ==
    ASSUME NEW w, IsWorld(w)
    PROVE  LET v == Stop(w)
           IN  /\ Minds(w, v) /\ Tries(w, v)
               /\ v.sess.target = None /\ ~v.sess.live
               /\ v.ok => ~v.sess.grabbed /\ ~v.sess.region /\ ~v.sess.handler
               /\ v.sess.grabbed => w.sess.grabbed
               /\ v.sess.region => w.sess.region
               /\ v.del.handler \in {0, w.del.handler}
<1> DEFINE l == [w EXCEPT !.sess.live = FALSE]
           d == DropDrag(l)
           a == ReleasePointer(d)
           e == StopRegion(a)
           b == [e EXCEPT !.ok = e.ok /\ a.ok]
           g == StopHandler(b)
           c == [g EXCEPT !.ok = g.ok /\ b.ok]
           v == Stop(w)
<1>1. v = c
  BY DEF Stop, Also
<1>2. /\ Minds(w, d) /\ IsWorld(d) /\ d.sess.target = None /\ ~d.sess.live
      /\ d.sess.grabbed = w.sess.grabbed /\ d.sess.region = w.sess.region
      /\ d.del = w.del /\ (Spent(w) => Spent(d))
  <2>1. DOMAIN w = WorldFields /\ DOMAIN w.sess = DOMAIN NoSession
    BY DEF IsWorld
  <2>2. /\ DOMAIN d = WorldFields /\ \A f \in WorldFields \ {"sess"} : d[f] = w[f]
        /\ DOMAIN d.sess = DOMAIN NoSession /\ d.sess.target = None /\ d.sess.live = FALSE
        /\ \A f \in {"id", "grabbed", "handler", "region"} : d.sess[f] = w.sess[f]
    BY <2>1 DEF DropDrag
  <2> HIDE DEF d
  <2> QED
    BY <2>2, LooseOk, MindsWorld
<1> HIDE DEF d, v
<1>3. /\ Minds(d, a) /\ Tries(d, a) /\ IsWorld(a)
      /\ \A f \in DOMAIN NoSession \ {"grabbed"} : a.sess[f] = d.sess[f]
      /\ a.ok => ~a.sess.grabbed
      /\ a.sess.grabbed => d.sess.grabbed
      /\ a.del.handler \in {0, d.del.handler}
  BY <1>2, ReleaseOk, MindsWorld
<1> HIDE DEF a
<1>4. /\ Minds(a, e) /\ Tries(a, e) /\ IsWorld(e)
      /\ \A f \in DOMAIN NoSession \ {"region"} : e.sess[f] = a.sess[f]
      /\ e.ok => ~e.sess.region
      /\ e.sess.region => a.sess.region
      /\ e.del.handler \in {0, a.del.handler}
  BY <1>3, StopRegionOk, MindsWorld
<1> HIDE DEF e
<1>5. a.ok \in BOOLEAN /\ e.ok \in BOOLEAN
  BY <1>3, <1>4 DEF IsWorld
<1>6. /\ Minds(e, b) /\ b.ok = (e.ok /\ a.ok) /\ b.sess = e.sess /\ IsWorld(b) /\ b.del = e.del
      /\ Spent(e) => Spent(b)
  BY <1>4, <1>5, OutcomeMinds, MindsWorld
<1> HIDE DEF b
<1>7. /\ Minds(b, g) /\ Tries(b, g) /\ IsWorld(g)
      /\ \A f \in DOMAIN NoSession \ {"handler"} : g.sess[f] = b.sess[f]
      /\ g.ok => ~g.sess.handler
      /\ g.sess.handler => b.sess.handler
      /\ g.del.handler \in {0, b.del.handler}
  BY <1>6, StopHandlerOk, MindsWorld
<1> HIDE DEF g
<1>8. b.ok \in BOOLEAN /\ g.ok \in BOOLEAN
  BY <1>6, <1>7 DEF IsWorld
<1>9. /\ Minds(g, c) /\ c.ok = (g.ok /\ b.ok) /\ c.sess = g.sess /\ c.del = g.del
      /\ Spent(g) => Spent(c)
  BY <1>7, <1>8, OutcomeMinds
<1> HIDE DEF c
<1>10. Minds(w, c)
  BY <1>2, <1>3, <1>4, <1>6, <1>7, <1>9, MindsTrans
<1>11. Tries(w, c)
  <2> DEFINE B == w.del.surface = "bogus"
  <2>1. d.del.surface = w.del.surface /\ (Spent(w) => Spent(d))
    BY <1>2
  <2>2. /\ a.del.surface = w.del.surface /\ (B \/ a.ok \/ Spent(a))
        /\ Spent(d) => Spent(a) /\ (a.ok \/ B)
    BY <1>3, <2>1 DEF Tries
  <2>3. /\ e.del.surface = w.del.surface /\ (B \/ e.ok \/ Spent(e))
        /\ Spent(a) => Spent(e) /\ (e.ok \/ B)
    BY <1>4, <2>2 DEF Tries
  <2>4. b.ok = (e.ok /\ a.ok) /\ (Spent(e) => Spent(b)) /\ b.del.surface = w.del.surface
    BY <1>6, <2>3
  <2>5. /\ g.del.surface = w.del.surface /\ (B \/ g.ok \/ Spent(g))
        /\ Spent(b) => Spent(g) /\ (g.ok \/ B)
    BY <1>7, <2>4 DEF Tries
  <2>6. c.ok = (g.ok /\ b.ok) /\ (Spent(g) => Spent(c)) /\ c.del.surface = w.del.surface
    BY <1>9, <2>5
  <2> QED
    BY <2>1, <2>2, <2>3, <2>4, <2>5, <2>6, <1>5, <1>8 DEF Tries
<1>12. /\ c.sess.grabbed = a.sess.grabbed /\ c.sess.region = e.sess.region
       /\ c.sess.handler = g.sess.handler /\ c.sess.target = d.sess.target
       /\ c.sess.live = d.sess.live
  BY <1>3, <1>4, <1>6, <1>7, <1>9
<1>13. c.ok => a.ok /\ e.ok /\ g.ok
  BY <1>5, <1>6, <1>8, <1>9
<1>14. a.sess.region = d.sess.region
  BY <1>3
<1>15. c.del.handler \in {0, w.del.handler}
  BY <1>2, <1>3, <1>4, <1>6, <1>7, <1>9
<1> QED
  BY <1>1, <1>2, <1>3, <1>4, <1>7, <1>10, <1>11, <1>12, <1>13, <1>14, <1>15 DEF v

\* Two attempts are enough unless the window is bogus, for at most one request is refused.
LEMMA StopTwiceOk ==
    ASSUME NEW w, IsWorld(w)
    PROVE  LET v == OrElse(Stop(w), Stop)
           IN  /\ Minds(w, v) /\ v.del.surface = w.del.surface
               /\ v.ok \/ w.del.surface = "bogus"
               /\ v.sess.target = None /\ ~v.sess.live
               /\ v.ok => ~v.sess.grabbed /\ ~v.sess.region /\ ~v.sess.handler
               /\ v.sess.grabbed => w.sess.grabbed
               /\ v.sess.region => w.sess.region
               /\ v.del.handler \in {0, w.del.handler}
<1> DEFINE a == Stop(w)
           b == Stop(a)
           v == OrElse(a, Stop)
<1>1. v = IF a.ok THEN a ELSE b
  BY DEF OrElse
<1>2. /\ Minds(w, a) /\ Tries(w, a) /\ IsWorld(a)
      /\ a.sess.target = None /\ ~a.sess.live
      /\ a.ok => ~a.sess.grabbed /\ ~a.sess.region /\ ~a.sess.handler
      /\ a.sess.grabbed => w.sess.grabbed
      /\ a.sess.region => w.sess.region
      /\ a.del.handler \in {0, w.del.handler}
  BY StopOk, MindsWorld
<1> HIDE DEF a
<1>3. /\ Minds(a, b) /\ Tries(a, b)
      /\ b.sess.target = None /\ ~b.sess.live
      /\ b.ok => ~b.sess.grabbed /\ ~b.sess.region /\ ~b.sess.handler
      /\ b.sess.grabbed => a.sess.grabbed
      /\ b.sess.region => a.sess.region
      /\ b.del.handler \in {0, a.del.handler}
  BY <1>2, StopOk
<1> HIDE DEF b
<1>4. Minds(w, b)
  BY <1>2, <1>3, MindsTrans
<1>5. /\ a.ok \/ b.ok \/ w.del.surface = "bogus"
      /\ a.del.surface = w.del.surface /\ b.del.surface = w.del.surface
  BY <1>2, <1>3 DEF Tries
<1> HIDE DEF v
<1> QED
  BY <1>1, <1>2, <1>3, <1>4, <1>5 DEF v, b, a

\* A session without obligations is forgotten.
LEMMA ForgetOk ==
    ASSUME NEW w, IsWorld(w), ~w.sess.grabbed, ~w.sess.region
    PROVE  LET v == [w EXCEPT !.sess = NoSession]
           IN  /\ Data(w, v) /\ v.ok = w.ok /\ v.sess = NoSession
               /\ v.drags = w.drags /\ v.note = w.note
               /\ ~w.sess.handler => Minds(w, v)
               /\ Held(w) /\ (Excused(w) \/ w.del.handler = 0) => Held(v)
<1> DEFINE v == [w EXCEPT !.sess = NoSession]
<1>1. DOMAIN w = WorldFields /\ DOMAIN w.svc = DOMAIN NoService /\ w.svc.sessions \in Nat
  BY DEF IsWorld
<1>2. /\ DOMAIN v = WorldFields /\ \A f \in WorldFields \ {"sess"} : v[f] = w[f]
      /\ v.sess = NoSession
  BY <1>1
<1> HIDE DEF v
<1>3. v.svc = w.svc /\ v.drags = w.drags /\ v.note = w.note
  BY <1>2
<1>4. DOMAIN v.sess = DOMAIN NoSession /\ v.sess.id \in Nat
  BY <1>2
<1>5. \A f \in WorldFields \ {"sess", "drags", "note", "svc"} : v[f] = w[f]
  BY <1>2
<1>6. Data(w, v) /\ v.del = w.del /\ v.x = w.x /\ v.ok = w.ok
  BY <1>1, <1>2, <1>3, <1>4, <1>5, SessSet
<1>7. ~v.sess.grabbed /\ ~v.sess.region /\ ~v.sess.handler /\ ~v.sess.live
      /\ v.sess.target = None
  BY <1>2
<1>8. ASSUME Held(w), ~w.sess.handler \/ Excused(w) \/ w.del.handler = 0 PROVE Held(v)
  <2>1. Excused(w) \/ (GrabClaim(w) /\ RegionClaim(w) /\ HandlerClaim(w))
    BY <1>8 DEF Held, Claims
  <2>2. NoWindow(v) /\ SessOk(v) /\ (Excused(w) => Excused(v))
    BY <1>3, <1>6, <1>7, <1>8 DEF Held, Claims, NoWindow, SessOk, Excused
  <2>3. /\ GrabClaim(w) => GrabClaim(v)
        /\ RegionClaim(w) => RegionClaim(v)
        /\ HandlerClaim(w) => HandlerClaim(v) \/ Excused(v)
    BY <1>3, <1>6, <1>7, <1>8 DEF GrabClaim, RegionClaim, HandlerClaim, Excused
  <2> QED
    BY <2>1, <2>2, <2>3 DEF Held, Claims
<1> QED
  BY <1>2, <1>3, <1>6, <1>8 DEF Minds, v

\* terminate_edit_locked() asks twice; a session it cannot clean up is kept, not live.
LEMMA TerminateOk ==
    ASSUME NEW w, IsWorld(w)
    PROVE  LET v == Terminate(w)
           IN  /\ Minds(w, v)
               /\ SessOk(w) => v.sess.target = None /\ ~v.sess.live
               /\ v.ok => v.sess.id = 0
<1> DEFINE b == OrElse(Stop(w), Stop)
           z == [b EXCEPT !.sess = NoSession]
           v == Terminate(w)
<1>1. v = IF w.sess.id = 0 THEN Done(w) ELSE IF b.ok THEN z ELSE b
  BY DEF Terminate, Then
<1>2. /\ Minds(w, b) /\ IsWorld(b) /\ b.sess.target = None /\ ~b.sess.live
      /\ b.ok => ~b.sess.grabbed /\ ~b.sess.region /\ ~b.sess.handler
  BY StopTwiceOk, MindsWorld
<1> HIDE DEF b
<1>3. b.ok => Minds(b, z) /\ z.sess = NoSession
  BY <1>2, ForgetOk
<1> HIDE DEF z, v
<1>4. CASE w.sess.id = 0
  <2>1. v = Done(w)
    BY <1>1, <1>4
  <2>2. Eases(w, v) /\ Serves(w, v) /\ v.sess = w.sess /\ v.svc = w.svc
    BY <2>1, DoneOk, RequestServes DEF Eases, Beyond
  <2>3. Minds(w, v)
    BY <2>2, EasesHeld, ServesTends DEF Minds, Tends, Eases, Beyond
  <2> QED
    BY <1>4, <2>2, <2>3 DEF v, SessOk
<1>5. CASE w.sess.id # 0 /\ b.ok
  <2>1. v = z
    BY <1>1, <1>5
  <2>2. Minds(w, v)
    BY <2>1, <1>2, <1>3, <1>5, MindsTrans
  <2> QED
    BY <2>1, <2>2, <1>3, <1>5 DEF v
<1>6. CASE w.sess.id # 0 /\ ~b.ok
  BY <1>1, <1>2, <1>6 DEF v
<1> QED
  BY <1>4, <1>5, <1>6

-----------------------------------------------------------------------------
(* Drags and the refresh of a session.                                     *)

\* What the delegate does alone, for a session.
LEMMA ServesHeld ==
    ASSUME NEW w, NEW v, Serves(w, v)
    PROVE  /\ Data(w, v) /\ IsWorld(v) /\ v.note = w.note /\ v.sess = w.sess
           /\ v.drags = w.drags
           /\ Held(w) => Held(v)
BY ServesTends, EasesHeld DEF Serves, Tends, Eases, Beyond

\* Who holds what depends on four parts of the world.
LEMMA HeldSame ==
    ASSUME NEW w, NEW v, v.svc = w.svc, v.sess = w.sess, v.del = w.del, v.x = w.x
    PROVE  Held(w) => Held(v)
BY DEF Held, Claims, SessOk, NoWindow, Excused, GrabClaim, RegionClaim, HandlerClaim

\* The books of a drag: how many are owed a report, and the report that waits.
LEMMA BooksOk ==
    ASSUME NEW w, IsWorld(w), NEW v, DOMAIN v = WorldFields,
           \A f \in WorldFields \ {"drags", "note"} : v[f] = w[f]
    PROVE  /\ Data(w, v) /\ v.sess = w.sess /\ v.svc = w.svc /\ v.ok = w.ok
           /\ v.scene = w.scene /\ v.del = w.del /\ v.x = w.x
           /\ Held(w) => Held(v)
<1>1. /\ v.sess = w.sess /\ v.svc = w.svc /\ v.ok = w.ok
      /\ v.scene = w.scene /\ v.del = w.del /\ v.x = w.x
  OBVIOUS
<1>2. /\ DOMAIN w.sess = DOMAIN NoSession /\ w.sess.id \in Nat
      /\ DOMAIN w.svc = DOMAIN NoService /\ w.svc.sessions \in Nat
  BY DEF IsWorld
<1>3. Data(w, v)
  BY <1>1, <1>2, SessSet
<1> QED
  BY <1>1, <1>3, HeldSame

\* What is owed depends on three fields.
LEMMA OwedBy ==
    ASSUME NEW w, NEW v, v.drags = w.drags, Owed(w)
    PROVE  /\ v.note = w.note /\ v.sess.target = w.sess.target => Owed(v)
           /\ w.sess.target # None /\ v.sess.target = None /\ ~Hushed(v) => Owed(v)
<1>1. v.note = w.note => (Hushed(v) <=> Hushed(w))
  BY Zenon DEF Hushed
<1> QED
  BY <1>1 DEF Owed

\* terminate_edit_locked() of a session without a drag.
LEMMA TerminateTends ==
    ASSUME NEW w, IsWorld(w), Held(w) => w.sess.target = None
    PROVE  Tends(w, Terminate(w))
<1> DEFINE v == Terminate(w)
<1>1. Minds(w, v) /\ (SessOk(w) => v.sess.target = None)
  BY TerminateOk
<1> HIDE DEF v
<1> QED
  BY <1>1, OwedBy DEF v, Minds, Tends, Owned, Held

\* A step that begins and ends no drag.
LEMMA MindsTends ==
    ASSUME NEW w, NEW v, Minds(w, v), v.sess.target = w.sess.target
    PROVE  Tends(w, v)
BY OwedBy DEF Minds, Tends, Owned

\* cancel_drag_locked(): the drag is over and its report waits.
LEMMA CancelOk ==
    ASSUME NEW w, IsWorld(w), NEW restore
    PROVE  LET v == CancelDrag(w, restore)
           IN  Tends(w, v) /\ (Held(w) => Held(v) /\ v.sess.target = None)
<1> DEFINE p == IF restore THEN UpdateShape(w, w.sess.target, w.sess.original) ELSE w
           d == DropDrag(p)
           a == ReleasePointer(d)
           t == IF a.ok THEN a ELSE Terminate(a)
           z == [t EXCEPT !.note = "cancelled"]
           v == CancelDrag(w, restore)
<1>1. v = IF ~Dragging(w) THEN w ELSE z
  BY Zenon DEF CancelDrag, OrElse
<1>2. Serves(w, p)
  BY UpdateShapeOk, ServesSelf
<1> HIDE DEF p, v
<1>3. /\ Data(w, p) /\ IsWorld(p) /\ p.note = w.note /\ p.sess = w.sess
      /\ p.drags = w.drags /\ (Held(w) => Held(p))
  BY <1>2, ServesHeld
<1>4. Minds(p, d) /\ d.sess.target = None /\ IsWorld(d)
  BY <1>3, DropOk, MindsWorld
<1> HIDE DEF d
<1>5. /\ Minds(d, a) /\ IsWorld(a)
      /\ a.sess.target = None
  BY <1>4, ReleaseOk, MindsWorld
<1> HIDE DEF a
<1>6. Minds(a, t) /\ IsWorld(t) /\ (Held(a) => t.sess.target = None)
  <2>1. /\ Minds(a, Terminate(a))
        /\ SessOk(a) => Terminate(a).sess.target = None
    BY <1>5, TerminateOk
  <2>2. Minds(a, a)
    BY <1>5 DEF Minds, Data, Keeps
  <2>3. t = a \/ t = Terminate(a)
    OBVIOUS
  <2> HIDE DEF t
  <2> QED
    BY <2>1, <2>2, <2>3, <1>5, MindsWorld DEF Held
<1> HIDE DEF t
<1>7. Minds(p, t)
  BY <1>4, <1>5, <1>6, MindsTrans
<1>8. /\ Data(t, z) /\ z.sess = t.sess /\ ~Hushed(z) /\ z.drags = t.drags
      /\ Held(t) => Held(z)
  <2>1. DOMAIN t = WorldFields
    BY <1>6 DEF IsWorld
  <2>2. /\ DOMAIN z = WorldFields /\ \A f \in WorldFields \ {"drags", "note"} : z[f] = t[f]
        /\ z.note = "cancelled" /\ z.drags = t.drags
    BY <2>1
  <2> HIDE DEF z
  <2>3. ~Hushed(z)
    BY <2>2, Zenon DEF Hushed
  <2> QED
    BY <2>2, <2>3, <1>6, BooksOk
<1> HIDE DEF z
<1>9. Data(w, z)
  BY <1>3, <1>7, <1>8, DataTrans DEF Minds
<1>10. Held(w) => Held(a) /\ Held(t) /\ Held(z)
  BY <1>3, <1>4, <1>5, <1>6, <1>8 DEF Minds
<1>11. Held(w) => z.sess.target = None
  BY <1>6, <1>8, <1>10
<1>12. z.drags = w.drags
  BY <1>3, <1>7, <1>8 DEF Minds
<1>13. CASE Dragging(w)
  <2>1. v = z
    BY <1>1, <1>13
  <2>2. Owned(w) => Owned(z)
    BY <1>8, <1>10, <1>11, <1>12, <1>13, OwedBy DEF Owned, Dragging
  <2> QED
    BY <2>1, <2>2, <1>9, <1>10, <1>11 DEF v, Tends
<1>14. CASE ~Dragging(w)
  <2>1. v = w
    BY <1>1, <1>14
  <2> QED
    BY <2>1, <1>14, TendsSelf DEF v, Dragging
<1> QED
  BY <1>13, <1>14

\* refresh_region(): the session is responsible before the region is set.
LEMMA RefreshRegionOk ==
    ASSUME NEW w, IsWorld(w), w.sess.id # 0
    PROVE  LET v == RefreshRegion(w)
           IN  /\ Minds(w, v)
               /\ \A f \in DOMAIN NoSession \ {"region"} : v.sess[f] = w.sess[f]
               /\ v.del.surface = w.del.surface
<1> DEFINE reg == IF w.sess.editable \cap DOMAIN w.scene.live = {} THEN "none" ELSE "edit"
           a == [w EXCEPT !.sess.region = @ \/ reg # "none"]
           s == SetInputRegion(a, reg)
           d == [s EXCEPT !.sess.region = reg # "none"]
           v == RefreshRegion(w)
<1>1. v = IF s.ok THEN d ELSE s
  BY Zenon DEF RefreshRegion, Then
<1>a. reg # "default"
  OBVIOUS
<1> HIDE DEF reg, v
<1>2. /\ Data(w, a) /\ a.del = w.del /\ a.x = w.x /\ a.svc = w.svc /\ a.drags = w.drags
      /\ a.note = w.note /\ IsWorld(a)
      /\ \A f \in DOMAIN NoSession \ {"region"} : a.sess[f] = w.sess[f]
      /\ a.sess.region = (w.sess.region \/ reg # "none")
  <2>1. DOMAIN w = WorldFields /\ DOMAIN w.sess = DOMAIN NoSession
    BY DEF IsWorld
  <2>2. /\ DOMAIN a = WorldFields /\ \A f \in WorldFields \ {"sess"} : a[f] = w[f]
        /\ DOMAIN a.sess = DOMAIN NoSession /\ a.sess.region = (w.sess.region \/ reg # "none")
        /\ \A f \in DOMAIN NoSession \ {"region"} : a.sess[f] = w.sess[f]
    BY <2>1
  <2> HIDE DEF a
  <2>3. /\ Data(w, a) /\ a.del = w.del /\ a.x = w.x
        /\ a.svc = w.svc /\ a.drags = w.drags /\ a.note = w.note
    BY <2>2, FieldSet
  <2> QED
    BY <2>2, <2>3 DEF Data
<1> HIDE DEF a
<1>3. /\ Data(a, s) /\ s.svc = a.svc /\ s.sess = a.sess /\ s.drags = a.drags
      /\ s.note = a.note /\ IsWorld(s) /\ s.del.surface = a.del.surface
      /\ s.del.handler = a.del.handler /\ s.del.grabbed = a.del.grabbed
      /\ s.x.grab = a.x.grab
      /\ NoWindow(a) => NoWindow(s)
      /\ s.ok => s.del.region = reg /\ (NoWindow(a) => s.x.region = reg)
      /\ ~s.ok => s.del.region = a.del.region /\ s.x.region = a.x.region
  BY <1>a, <1>2, SetRegionOk DEF Data
<1> HIDE DEF s
<1>4. /\ Data(s, d) /\ d.del = s.del /\ d.x = s.x /\ d.svc = s.svc /\ d.drags = s.drags
      /\ d.note = s.note
      /\ \A f \in DOMAIN NoSession \ {"region"} : d.sess[f] = s.sess[f]
      /\ d.sess.region = (reg # "none")
  <2>1. DOMAIN s = WorldFields /\ DOMAIN s.sess = DOMAIN NoSession
    BY <1>3 DEF IsWorld
  <2>2. /\ DOMAIN d = WorldFields /\ \A f \in WorldFields \ {"sess"} : d[f] = s[f]
        /\ DOMAIN d.sess = DOMAIN NoSession /\ d.sess.region = (reg # "none")
        /\ \A f \in DOMAIN NoSession \ {"region"} : d.sess[f] = s.sess[f]
    BY <2>1
  <2> HIDE DEF d
  <2> QED
    BY <2>2, <1>3, FieldSet
<1> HIDE DEF d
<1>5. /\ s.sess.id = w.sess.id /\ s.sess.live = w.sess.live /\ s.sess.grabbed = w.sess.grabbed
      /\ s.sess.handler = w.sess.handler /\ s.sess.target = w.sess.target
      /\ d.sess.id = w.sess.id /\ d.sess.live = w.sess.live /\ d.sess.grabbed = w.sess.grabbed
      /\ d.sess.handler = w.sess.handler /\ d.sess.target = w.sess.target
  BY <1>2, <1>3, <1>4
<1>6. ASSUME Held(w), v \in {s, d} PROVE Held(v)
  <2>1. NoWindow(a)
    BY <1>2, <1>6 DEF Held, Claims, NoWindow
  <2>2. NoWindow(s) /\ NoWindow(d)
    BY <1>3, <1>4, <2>1 DEF NoWindow
  <2>3. v.svc = w.svc /\ v.del.handler = w.del.handler /\ v.del.grabbed = w.del.grabbed
        /\ v.x.grab = w.x.grab
    BY <1>2, <1>3, <1>4, <1>6
  <2>4. SessOk(v)
    BY <1>5, <1>6 DEF SessOk, Held
  <2>5. GrabClaim(w) => GrabClaim(v)
    BY <1>5, <1>6, <2>3 DEF GrabClaim
  <2>6. HandlerClaim(w) => HandlerClaim(v)
    BY <1>5, <1>6, <2>3 DEF HandlerClaim
  <2>7. RegionClaim(w) => RegionClaim(v)
    <3>1. CASE v = d /\ s.ok
      BY <3>1, <1>3, <1>4, <2>1 DEF RegionClaim
    <3>2. CASE v = s /\ ~s.ok
      BY <3>2, <1>2, <1>3, <2>3 DEF RegionClaim
    <3> QED
      BY <3>1, <3>2, <1>1
  <2> QED
    BY <1>6, <2>2, <2>3, <2>4, <2>5, <2>6, <2>7 DEF Held, Claims, Excused
<1>7. v \in {s, d}
  BY <1>1
<1>8. Data(w, v) /\ v.drags = w.drags /\ v.note = w.note /\ v.svc = w.svc
  BY <1>2, <1>3, <1>4, <1>7, DataTrans
<1> QED
  BY <1>2, <1>3, <1>4, <1>6, <1>7, <1>8 DEF v, Minds

\* The drag, then the session.
LEMMA AbandonOk ==
    ASSUME NEW w, IsWorld(w)
    PROVE  LET v == Abandon(w)
           IN  /\ Tends(w, v)
               /\ Held(w) => Held(v) /\ v.sess.target = None /\ ~v.sess.live
<1> DEFINE c == CancelDrag(w, TRUE)
           v == Terminate(c)
<1>1. Abandon(w) = v
  BY DEF Abandon
<1>2. Tends(w, c) /\ (Held(w) => Held(c) /\ c.sess.target = None)
  BY CancelOk
<1>3. IsWorld(c)
  BY <1>2, TendsWorld
<1> HIDE DEF c
<1>4. /\ Minds(c, v)
      /\ SessOk(c) => v.sess.target = None /\ ~v.sess.live
  BY <1>3, TerminateOk
<1> HIDE DEF v
<1>5. Data(w, v)
  BY <1>2, <1>4, DataTrans DEF Tends, Minds
<1>6. Owned(w) => Owned(v)
  BY <1>2, <1>4, OwedBy DEF Tends, Minds, Owned, Held
<1>7. Held(w) => Held(v) /\ v.sess.target = None /\ ~v.sess.live
  BY <1>2, <1>4 DEF Minds, Held
<1> QED
  BY <1>1, <1>4, <1>5, <1>6, <1>7 DEF Tends

\* snapshot(), for a session.
LEMMA SnapshotTends ==
    ASSUME NEW w, IsWorld(w)
    PROVE  /\ Tends(w, Snapshot(w)) /\ IsWorld(Snapshot(w))
           /\ Snapshot(w).sess = w.sess /\ Snapshot(w).note = w.note
BY SnapshotOk, ServesTends, TendsWorld

\* refresh_edit_locked(): whatever happened to the shapes, nothing is left behind.
LEMMA RefreshOk ==
    ASSUME NEW w, IsWorld(w)
    PROVE  Tends(w, RefreshEdit(w)) /\ IsWorld(RefreshEdit(w))
<1> DEFINE n == Snapshot(w)
           c == CancelDrag(n, FALSE)
           m == Snapshot(c)
           b == IF Dragging(n) /\ n.sess.target \notin DOMAIN n.scene.live THEN m ELSE n
           r == IF Ineligible(b) THEN Fail(b) ELSE RefreshRegion(b)
           s == IF b.sess.id = 0 THEN b ELSE IF r.ok THEN r ELSE Abandon(r)
           v == RefreshEdit(w)
<1>1. v = IF w.sess.id = 0 THEN w ELSE IF ~w.sess.live THEN Terminate(w) ELSE s
  BY Zenon DEF RefreshEdit, OrElse
<1>2. Tends(w, n) /\ IsWorld(n)
  BY SnapshotTends
<1> HIDE DEF n, v
<1>3. Tends(n, c) /\ IsWorld(c)
  BY <1>2, CancelOk, TendsWorld
<1> HIDE DEF c
<1>4. Tends(c, m)
  BY <1>3, SnapshotTends
<1> HIDE DEF m
<1>5. Tends(w, b) /\ IsWorld(b)
  <2>1. b = m \/ b = n
    OBVIOUS
  <2> HIDE DEF b
  <2>2. Tends(w, m)
    BY <1>2, <1>3, <1>4, TendsTrans
  <2> QED
    BY <2>1, <2>2, <1>2, TendsWorld
<1> HIDE DEF b
<1>6. ASSUME b.sess.id # 0 PROVE Tends(b, r) /\ IsWorld(r)
  <2>1. Tends(b, Fail(b))
    BY <1>5, RequestServes, ServesTends
  <2>2. Minds(b, RefreshRegion(b)) /\ RefreshRegion(b).sess.target = b.sess.target
    BY <1>5, <1>6, RefreshRegionOk
  <2>3. Tends(b, RefreshRegion(b))
    BY <2>2, MindsTends
  <2>4. r = Fail(b) \/ r = RefreshRegion(b)
    OBVIOUS
  <2> HIDE DEF r
  <2> QED
    BY <2>1, <2>3, <2>4, TendsWorld
<1> HIDE DEF r
<1>7. Tends(w, s)
  <2>1. CASE b.sess.id = 0
    BY <2>1, <1>5
  <2>2. CASE b.sess.id # 0
    <3>1. Tends(r, Abandon(r))
      BY <1>6, <2>2, AbandonOk
    <3>2. s = r \/ s = Abandon(r)
      BY <2>2
    <3> HIDE DEF s
    <3> QED
      BY <3>1, <3>2, <1>5, <1>6, <2>2, TendsTrans
  <2> QED
    BY <2>1, <2>2
<1> HIDE DEF s
<1>8. ~w.sess.live => Tends(w, Terminate(w))
  <2>1. ~w.sess.live /\ Held(w) => w.sess.target = None
    BY DEF Held, SessOk
  <2> QED
    BY <2>1, TerminateTends
<1>9. Tends(w, v)
  BY <1>1, <1>7, <1>8, TendsSelf
<1> QED
  BY <1>9, TendsWorld DEF v

\* Nothing waits to be told after the unlock.
LEMMA TellOk ==
    ASSUME NEW w, IsWorld(w)
    PROVE  LET v == Tell(w)
           IN  /\ Tends(w, v) /\ Hushed(v) /\ IsWorld(v)
               /\ v.sess = w.sess /\ v.svc = w.svc /\ v.del = w.del /\ v.x = w.x
               /\ v.scene = w.scene /\ v.flushed = w.flushed /\ v.topo = w.topo
<1> DEFINE d == [w EXCEPT !.drags = @ - 1, !.note = ""]
           v == Tell(w)
<1>1. v = IF Hushed(w) THEN w ELSE d
  BY Zenon DEF Tell, Hushed
<1>2. /\ DOMAIN d = WorldFields /\ \A f \in WorldFields \ {"drags", "note"} : d[f] = w[f]
      /\ d.drags = w.drags - 1 /\ Hushed(d)
  <2>1. DOMAIN w = WorldFields
    BY DEF IsWorld
  <2>2. d.note = "" /\ DOMAIN d = DOMAIN w /\ d.drags = w.drags - 1
    BY <2>1
  <2>3. \A f \in WorldFields \ {"drags", "note"} : d[f] = w[f]
    BY <2>1
  <2> HIDE DEF d
  <2>4. Hushed(d)
    BY <2>2, Zenon DEF Hushed
  <2> QED
    BY <2>1, <2>2, <2>3, <2>4, Zenon
<1> HIDE DEF d, v
<1>3. CASE Hushed(w)
  <2>1. v = w
    BY <1>1, <1>3
  <2> QED
    BY <2>1, <1>3, TendsSelf DEF v
<1>4. CASE ~Hushed(w)
  <2>1. v = d
    BY <1>1, <1>4
  <2>2. /\ Data(w, d) /\ d.sess = w.sess /\ d.svc = w.svc
        /\ d.scene = w.scene /\ d.del = w.del /\ d.x = w.x
        /\ Held(w) => Held(d)
    BY <1>2, BooksOk
  <2>3. Owed(w) => Owed(d)
    BY <1>2, <1>4, <2>2 DEF Owed
  <2>4. Tends(w, d)
    BY <2>2, <2>3 DEF Tends, Owned
  <2>5. d.flushed = w.flushed /\ d.topo = w.topo
    BY <1>2
  <2> QED
    BY <1>2, <2>1, <2>2, <2>4, <2>5, TendsWorld DEF v
<1> QED
  BY <1>3, <1>4

-----------------------------------------------------------------------------
(* handle_edit_event().                                                    *)

\* A drag begins in a live session, and is owed a report.
LEMMA BeginOk ==
    ASSUME NEW w, IsWorld(w), w.sess.live, Hushed(w), w.sess.target = None,
           NEW id, id # None, NEW orig
    PROVE  LET v == [w EXCEPT !.sess.target = id, !.sess.original = orig, !.drags = @ + 1]
           IN  Tends(w, v) /\ IsWorld(v) /\ v.sess.id = w.sess.id
<1> DEFINE v == [w EXCEPT !.sess.target = id, !.sess.original = orig, !.drags = @ + 1]
<1>1. DOMAIN w = WorldFields /\ DOMAIN w.sess = DOMAIN NoSession /\ w.sess.id \in Nat
      /\ DOMAIN w.svc = DOMAIN NoService /\ w.svc.sessions \in Nat
  BY DEF IsWorld
<1>2. /\ DOMAIN v = WorldFields /\ \A f \in WorldFields \ {"sess", "drags"} : v[f] = w[f]
      /\ DOMAIN v.sess = DOMAIN NoSession /\ v.drags = w.drags + 1 /\ v.sess.target = id
      /\ \A f \in DOMAIN NoSession \ {"target", "original"} : v.sess[f] = w.sess[f]
  BY <1>1
<1> HIDE DEF v
<1>3. /\ v.svc = w.svc /\ v.note = w.note /\ v.sess.id = w.sess.id
      /\ v.sess.live = w.sess.live /\ v.sess.grabbed = w.sess.grabbed
      /\ v.sess.region = w.sess.region /\ v.sess.handler = w.sess.handler
  BY <1>2
<1>4. \A f \in WorldFields \ {"sess", "drags", "note", "svc"} : v[f] = w[f]
  BY <1>2
<1>5. Data(w, v) /\ v.del = w.del /\ v.x = w.x
  BY <1>1, <1>2, <1>3, <1>4, SessSet
<1>6. Held(w) => Held(v)
  BY <1>3, <1>5 DEF Held, Claims, SessOk, NoWindow, Excused, GrabClaim, RegionClaim,
                    HandlerClaim
<1>7. Hushed(v)
  BY <1>3, Zenon DEF Hushed
<1>8. Owed(w) => Owed(v)
  BY <1>2, <1>7 DEF Owed
<1> QED
  BY <1>3, <1>5, <1>6, <1>8 DEF v, Tends, Owned, Data

\* The session takes the grab.
LEMMA SessionGrabOk ==
    ASSUME NEW w, IsWorld(w), w.sess.id # 0
    PROVE  LET v == GrabPointer([w EXCEPT !.sess.grabbed = TRUE]) IN Tends(w, v)
<1> DEFINE b == [w EXCEPT !.sess.grabbed = TRUE]
           v == GrabPointer(b)
<1>1. DOMAIN w = WorldFields /\ DOMAIN w.sess = DOMAIN NoSession
  BY DEF IsWorld
<1>2. /\ DOMAIN b = WorldFields /\ \A f \in WorldFields \ {"sess"} : b[f] = w[f]
      /\ DOMAIN b.sess = DOMAIN NoSession /\ b.sess.grabbed = TRUE
      /\ \A f \in DOMAIN NoSession \ {"grabbed"} : b.sess[f] = w.sess[f]
  BY <1>1
<1> HIDE DEF b
<1>3. /\ Data(w, b) /\ b.del = w.del /\ b.x = w.x /\ b.svc = w.svc
      /\ b.drags = w.drags /\ b.note = w.note /\ IsWorld(b)
  BY <1>2, FieldSet DEF Data
<1>4. /\ Data(b, v) /\ v.svc = b.svc /\ v.sess = b.sess /\ v.drags = b.drags
      /\ v.note = b.note /\ v.del.surface = b.del.surface
      /\ v.del.handler = b.del.handler /\ v.del.region = b.del.region
      /\ v.x.region = b.x.region /\ v.del.screen = b.del.screen
      /\ (b.x.grab => b.del.grabbed) => (v.x.grab => v.del.grabbed)
  BY <1>3, GrabOk
<1> HIDE DEF v
<1>5. /\ v.sess.id = w.sess.id /\ v.sess.live = w.sess.live /\ v.sess.region = w.sess.region
      /\ v.sess.handler = w.sess.handler /\ v.sess.target = w.sess.target /\ v.sess.grabbed
  BY <1>2, <1>4
<1>6. Held(w) => Held(v)
  BY <1>3, <1>4, <1>5 DEF Held, Claims, SessOk, NoWindow, Excused, GrabClaim, RegionClaim,
                          HandlerClaim
<1>7. Data(w, v)
  BY <1>3, <1>4, DataTrans
<1>8. Minds(w, v)
  BY <1>3, <1>4, <1>6, <1>7 DEF Minds
<1> QED
  BY <1>5, <1>8, MindsTends DEF v, b

\* ButtonPress: the drag that begins is owed a report, the grab has an owner.
LEMMA PressOk ==
    ASSUME NEW w, IsWorld(w), w.sess.live, w.sess.id # 0, NEW id
    PROVE  Tends(w, OnPress(w, id))
<1> DEFINE b == [w EXCEPT !.sess.target = id, !.sess.original = w.scene.live[id].shape,
                          !.drags = @ + 1]
           g == IF b.sess.grabbed THEN Done(b)
                ELSE GrabPointer([b EXCEPT !.sess.grabbed = TRUE])
           c == CancelDrag(g, FALSE)
           z == Terminate(c)
           v == OnPress(w, id)
<1>1. v = IF ~Hushed(w) \/ Dragging(w) \/ id = None THEN w ELSE IF g.ok THEN g ELSE z
  BY Zenon DEF OnPress, OrElse, Hushed
<1> HIDE DEF v
<1>2. CASE ~Hushed(w) \/ Dragging(w) \/ id = None
  BY <1>1, <1>2, TendsSelf DEF v
<1>3. CASE Hushed(w) /\ ~Dragging(w) /\ id # None
  <2>1. Tends(w, b) /\ IsWorld(b) /\ b.sess.id # 0
    BY <1>3, BeginOk, ZenonT(30) DEF Dragging
  <2> HIDE DEF b
  <2>2. Tends(b, g) /\ IsWorld(g)
    <3>1. Tends(b, Done(b)) /\ Tends(b, GrabPointer([b EXCEPT !.sess.grabbed = TRUE]))
      BY <2>1, RequestServes, ServesTends, SessionGrabOk
    <3>2. g = Done(b) \/ g = GrabPointer([b EXCEPT !.sess.grabbed = TRUE])
      OBVIOUS
    <3> HIDE DEF g
    <3> QED
      BY <3>1, <3>2, TendsWorld
  <2> HIDE DEF g
  <2>3. Tends(g, c) /\ IsWorld(c) /\ (Held(g) => Held(c) /\ c.sess.target = None)
    BY <2>2, CancelOk, TendsWorld
  <2>4. Tends(g, z)
    <3> HIDE DEF c
    <3>1. /\ Minds(c, z)
          /\ SessOk(c) => z.sess.target = None
      BY <2>3, TerminateOk
    <3> HIDE DEF z
    <3>2. Data(g, z)
      BY <2>3, <3>1, DataTrans DEF Tends, Minds
    <3>3. Owned(g) => Owned(z)
      BY <2>3, <3>1, OwedBy DEF Tends, Minds, Owned, Held
    <3> QED
      BY <3>2, <3>3 DEF Tends
  <2> HIDE DEF c, z
  <2>5. Tends(w, g) /\ Tends(w, z)
    BY <2>1, <2>2, <2>4, TendsTrans
  <2> QED
    BY <1>1, <1>3, <2>5 DEF v
<1> QED
  BY <1>2, <1>3

\* The preview of a drag.
LEMMA DragOk ==
    ASSUME NEW w, IsWorld(w)
    PROVE  Tends(w, Drag(w)) /\ IsWorld(Drag(w))
<1> DEFINE u == UpdateShape(w, w.sess.target, Moved(w))
           v == Drag(w)
<1>1. v = IF u.ok THEN RefreshEdit(u) ELSE CancelDrag(u, FALSE)
  BY Zenon DEF Drag, Either
<1>2. Tends(w, u) /\ IsWorld(u)
  BY UpdateShapeOk, ServesTends, TendsWorld
<1> HIDE DEF u, v
<1>3. Tends(u, RefreshEdit(u)) /\ Tends(u, CancelDrag(u, FALSE))
  BY <1>2, RefreshOk, CancelOk
<1>4. Tends(w, v)
  BY <1>1, <1>2, <1>3, TendsTrans
<1> QED
  BY <1>4, TendsWorld DEF v

\* commit(): the drag is over and its report waits.
LEMMA CommitOk ==
    ASSUME NEW w, IsWorld(w), w.sess.target # None
    PROVE  Tends(w, Commit(w))
<1> DEFINE d == DropDrag(w)
           v == [d EXCEPT !.note = "edited"]
<1>1. Commit(w) = v
  BY DEF Commit
<1>2. Minds(w, d) /\ d.sess.target = None /\ IsWorld(d)
  BY DropOk, MindsWorld
<1> HIDE DEF d
<1>3. DOMAIN d = WorldFields
  BY <1>2 DEF IsWorld
<1>4. /\ DOMAIN v = WorldFields /\ \A f \in WorldFields \ {"drags", "note"} : v[f] = d[f]
      /\ v.note = "edited" /\ v.drags = d.drags
  BY <1>3
<1> HIDE DEF v
<1>5. ~Hushed(v)
  BY <1>4, Zenon DEF Hushed
<1>6. Data(d, v) /\ v.sess = d.sess /\ (Held(d) => Held(v))
  BY <1>2, <1>4, BooksOk
<1>7. Data(w, v)
  BY <1>2, <1>6, DataTrans DEF Minds
<1>8. v.drags = w.drags
  BY <1>2, <1>4 DEF Minds
<1>9. Owed(w) => Owed(v)
  BY <1>2, <1>5, <1>6, <1>8, OwedBy
<1> QED
  BY <1>1, <1>2, <1>6, <1>7, <1>9 DEF Tends, Owned, Minds

\* MotionNotify.
LEMMA MotionOk ==
    ASSUME NEW w, IsWorld(w)
    PROVE  Tends(w, OnMotion(w))
BY DragOk, TendsSelf, Zenon DEF OnMotion

\* ButtonRelease.
LEMMA UpButtonOk ==
    ASSUME NEW w, IsWorld(w)
    PROVE  Tends(w, OnRelease(w))
<1> DEFINE d == Drag(w)
           r == ReleasePointer(d)
           f == IF d.sess.id = 0 \/ ~Dragging(d) THEN d
                ELSE IF r.ok THEN Commit(r) ELSE Abandon(r)
           v == OnRelease(w)
<1>1. v = IF ~Hushed(w) \/ ~Dragging(w) THEN w ELSE f
  BY Zenon DEF OnRelease, Either, Hushed
<1>2. Tends(w, d) /\ IsWorld(d)
  BY DragOk
<1> HIDE DEF d, v
<1>3. Minds(d, r) /\ IsWorld(r) /\ r.sess.target = d.sess.target
  BY <1>2, ReleaseOk, MindsWorld
<1> HIDE DEF r
<1>4. Tends(d, r)
  BY <1>3, MindsTends
<1>5. Tends(w, f)
  <2>1. CASE d.sess.id = 0 \/ ~Dragging(d)
    BY <2>1, <1>2
  <2>2. CASE ~(d.sess.id = 0 \/ ~Dragging(d))
    <3>1. Tends(r, Commit(r)) /\ Tends(r, Abandon(r))
      BY <2>2, <1>3, CommitOk, AbandonOk DEF Dragging
    <3>2. f = Commit(r) \/ f = Abandon(r)
      BY <2>2
    <3> HIDE DEF f
    <3> QED
      BY <3>1, <3>2, <1>2, <1>4, TendsTrans
  <2> QED
    BY <2>1, <2>2
<1> HIDE DEF f
<1> QED
  BY <1>1, <1>5, TendsSelf DEF v

\* A grab that the server ended.
LEMMA LoseGrabOk ==
    ASSUME NEW w, IsWorld(w)
    PROVE  Tends(w, OnUngrab(w))
<1> DEFINE u == [w EXCEPT !.sess.grabbed = FALSE, !.svc.lapsed = @ \/ w.del.grabbed]
           c == CancelDrag(u, TRUE)
           v == OnUngrab(w)
<1>1. v = IF Dragging(u) THEN RefreshEdit(c) ELSE u
  BY Zenon DEF OnUngrab
<1>2. Tends(w, u) /\ IsWorld(u)
  <2>1. DOMAIN w = WorldFields /\ DOMAIN w.sess = DOMAIN NoSession /\ w.sess.id \in Nat
        /\ DOMAIN w.svc = DOMAIN NoService /\ w.svc.sessions \in Nat
    BY DEF IsWorld
  <2>2. /\ DOMAIN u = WorldFields /\ \A f \in WorldFields \ {"sess", "svc"} : u[f] = w[f]
        /\ DOMAIN u.sess = DOMAIN NoSession /\ u.sess.grabbed = FALSE
        /\ \A f \in DOMAIN NoSession \ {"grabbed"} : u.sess[f] = w.sess[f]
        /\ DOMAIN u.svc = DOMAIN NoService /\ u.svc.lapsed = (w.svc.lapsed \/ w.del.grabbed)
        /\ \A f \in DOMAIN NoService \ {"lapsed"} : u.svc[f] = w.svc[f]
    BY <2>1
  <2> HIDE DEF u
  <2>3. /\ u.drags = w.drags /\ u.note = w.note /\ u.sess.id = w.sess.id
        /\ u.sess.live = w.sess.live /\ u.sess.target = w.sess.target
        /\ u.sess.region = w.sess.region /\ u.sess.handler = w.sess.handler
        /\ u.svc.sessions = w.svc.sessions /\ u.svc.desync = w.svc.desync
        /\ u.svc.opened = w.svc.opened /\ u.svc.captured = w.svc.captured
        /\ u.svc.mixed = w.svc.mixed
    BY <2>2
  <2>4. \A f \in WorldFields \ {"sess", "drags", "note", "svc"} : u[f] = w[f]
    BY <2>2
  <2>5. Data(w, u) /\ u.del = w.del /\ u.x = w.x
    BY <2>1, <2>2, <2>3, <2>4, SessSet
  <2>6. Held(w) => Held(u)
    BY <2>2, <2>3, <2>5 DEF Held, Claims, SessOk, NoWindow, Excused, GrabClaim, RegionClaim,
                            HandlerClaim
  <2>7. Tends(w, u)
    BY <2>3, <2>5, <2>6, OwedBy DEF Tends, Owned
  <2> QED
    BY <2>7, TendsWorld
<1> HIDE DEF u, v
<1>3. Tends(u, c) /\ IsWorld(c)
  BY <1>2, CancelOk, TendsWorld
<1> HIDE DEF c
<1>4. Tends(c, RefreshEdit(c))
  BY <1>3, RefreshOk
<1> QED
  BY <1>1, <1>2, <1>3, <1>4, TendsTrans DEF v

\* handle_edit_event(), which tells what waits.
LEMMA HandleOk ==
    ASSUME NEW w, IsWorld(w), NEW kind \in {"press", "motion", "release", "ungrab"}, NEW id
    PROVE  LET v == HandleEditEvent(w, kind, id)
           IN  Tends(w, v) /\ (Hushed(w) => Hushed(v))
<1> DEFINE r == RefreshEdit(w)
           o == IF r.sess.id = 0 \/ ~r.sess.live THEN r
                ELSE CASE kind = "press"   -> OnPress(r, Hit(r))
                       [] kind = "motion"  -> OnMotion(r)
                       [] kind = "release" -> OnRelease(r)
                       [] kind = "ungrab"  -> OnUngrab(r)
           v == HandleEditEvent(w, kind, id)
<1>1. v = IF id # w.sess.id \/ ~w.sess.live THEN w ELSE Tell(o)
  BY Zenon DEF HandleEditEvent
<1>2. Tends(w, r) /\ IsWorld(r)
  BY RefreshOk
<1> HIDE DEF r, v
<1>3. Tends(r, o)
  <2>1. CASE r.sess.id = 0 \/ ~r.sess.live
    BY <2>1, <1>2, TendsSelf
  <2>2. CASE r.sess.id # 0 /\ r.sess.live
    <3>1. /\ Tends(r, OnPress(r, Hit(r))) /\ Tends(r, OnMotion(r))
          /\ Tends(r, OnRelease(r)) /\ Tends(r, OnUngrab(r))
      BY <2>2, <1>2, PressOk, MotionOk, UpButtonOk, LoseGrabOk
    <3>2. \/ o = OnPress(r, Hit(r)) \/ o = OnMotion(r)
          \/ o = OnRelease(r) \/ o = OnUngrab(r)
      BY <2>2
    <3> HIDE DEF o
    <3> QED
      BY <3>1, <3>2
  <2> QED
    BY <2>1, <2>2
<1> HIDE DEF o
<1>4. Tends(o, Tell(o)) /\ Hushed(Tell(o))
  BY <1>3, TellOk, TendsWorld
<1>5. Tends(w, Tell(o))
  BY <1>2, <1>3, <1>4, TendsTrans
<1> QED
  BY <1>1, <1>4, <1>5, TendsSelf DEF v

-----------------------------------------------------------------------------
(* The event loop, where the delegate speaks at once.                      *)

\* A step that tells at once whatever it has to tell.
Answers(w, v) == Tends(w, v) /\ (Hushed(w) => Hushed(v))

\* Answers is transitive,
LEMMA AnswersTrans ==
    ASSUME NEW w, NEW v, NEW u, Answers(w, v), Answers(v, u)
    PROVE  Answers(w, u)
BY TendsTrans DEF Answers

\* keeps the shape of the world,
LEMMA AnswersWorld ==
    ASSUME NEW w, NEW v, Answers(w, v)
    PROVE  IsWorld(v) /\ v.now = w.now
BY TendsWorld DEF Answers

\* and holds of what the delegate does alone,
LEMMA ServesAnswers ==
    ASSUME NEW w, NEW v, Serves(w, v)
    PROVE  Answers(w, v)
<1>1. Tends(w, v) /\ v.note = w.note
  BY ServesTends
<1>2. Hushed(w) => Hushed(v)
  BY <1>1, Zenon DEF Hushed
<1> QED
  BY <1>1, <1>2 DEF Answers

\* and of everything that ends with invoke_notification().
LEMMA TellAnswers ==
    ASSUME NEW w, NEW v, Tends(w, v)
    PROVE  Answers(w, Tell(v)) /\ Hushed(Tell(v))
BY TellOk, TendsTrans, TendsWorld DEF Answers

Answering(c, i, v) == Answers(c, v)

HearFold == INSTANCE FoldProofs WITH Op <- Hear, Kept <- Answering

\* The fold over what is to be said is the one FoldProofs is about.
LEMMA HearFoldIs ==
    ASSUME NEW b, NEW q
    PROVE  FoldLeft(Hear, b, q) = HearFold!FoldLeft(Hear, b, q)
BY Zenon DEF FoldLeft, HearFold!FoldLeft, MapThenFoldSet, HearFold!MapThenFoldSet,
             Max, HearFold!Max

\* dispatch_edit_event() at once, for all there is to say.
LEMMA DirectOk ==
    ASSUME NEW w, IsWorld(w)
    PROVE  Answers(w, Direct(w)) /\ IsWorld(Direct(w))
<1> DEFINE b == [w EXCEPT !.told = <<>>]
           q == w.told
<1>1. Quiet(w, b)
  BY DEF Quiet, IsWorld
<1>2. Answers(w, b) /\ IsWorld(b)
  BY <1>1, QuietOk, ServesAnswers, AnswersWorld DEF Tracks
<1>3. q \in Seq(EditEvents)
  BY DEF IsWorld
<1>4. Len(q) \in Nat /\ q = [i \in 1 .. Len(q) |-> q[i]]
      /\ \A i \in 1 .. Len(q) : q[i] \in EditEvents
  BY <1>3
<1>5. Direct(w) = FoldLeft(Hear, b, q)
  BY DEF Direct
<1> HIDE DEF b, q
<1>6. Answering(w, 0, b)
  BY <1>2 DEF Answering
<1>7. ASSUME NEW i \in 1 .. Len(q), NEW v, Answering(w, i - 1, v)
      PROVE  Answering(w, i, Hear(v, q[i]))
  <2>1. Answers(w, v) /\ IsWorld(v)
    BY <1>7, AnswersWorld DEF Answering
  <2>2. q[i].kind \in {"press", "motion", "release", "ungrab"}
    BY <1>4 DEF EditEvents
  <2>3. Answers(v, Hear(v, q[i]))
    BY <2>1, <2>2, HandleOk DEF Hear, Answers
  <2> QED
    BY <2>1, <2>3, AnswersTrans DEF Answering
<1>8. Answering(w, Len(q), HearFold!FoldLeft(Hear, b, q))
  BY <1>4, <1>6, <1>7, HearFold!FoldKeeps
<1>9. Answers(w, Direct(w))
  BY <1>5, <1>8, HearFoldIs DEF Answering
<1> QED
  BY <1>9, AnswersWorld

\* One turn of drain_events( false ).
LEMMA DrainDirectOk ==
    ASSUME NEW w, IsWorld(w), NEW i
    PROVE  Answers(w, DrainDirect(w, i))
<1> DEFINE t == [w EXCEPT !.x.queue = Tail(@)]
           e == Head(w.x.queue)
           o == OnEvent(t, e)
           v == DrainDirect(w, i)
<1>1. v = IF w.halt \/ w.x.queue = <<>> THEN w ELSE Direct(o)
  BY Zenon DEF DrainDirect, DrainOne
<1> HIDE DEF v
<1>2. CASE w.halt \/ w.x.queue = <<>>
  BY <1>1, <1>2, ServesSelf, ServesAnswers DEF v
<1>3. CASE ~(w.halt \/ w.x.queue = <<>>)
  <2>1. Tracks(w, t) /\ e \in ServerEvents
    BY <1>3, TakeEvent
  <2>2. Answers(w, t) /\ IsWorld(t)
    BY <2>1, TracksWorld, ServesAnswers DEF Tracks
  <2> HIDE DEF t, e
  <2>3. Tracks(t, o)
    BY <2>1, <2>2, OnEventOk
  <2>4. Answers(t, o) /\ IsWorld(o)
    BY <2>3, TracksWorld, ServesAnswers DEF Tracks
  <2> HIDE DEF o
  <2>5. Answers(o, Direct(o))
    BY <2>4, DirectOk
  <2> QED
    BY <1>1, <1>3, <2>2, <2>4, <2>5, AnswersTrans DEF v
<1> QED
  BY <1>2, <1>3

DirectFold == INSTANCE FoldProofs WITH Op <- DrainDirect, Kept <- Answering

\* The fold of drain_events( false ) is the one FoldProofs is about.
LEMMA DirectFoldIs ==
    ASSUME NEW b, NEW q
    PROVE  FoldLeft(DrainDirect, b, q) = DirectFold!FoldLeft(DrainDirect, b, q)
BY Zenon DEF FoldLeft, DirectFold!FoldLeft, MapThenFoldSet, DirectFold!MapThenFoldSet,
             Max, DirectFold!Max

\* drain_events( false ), however many events it reads.
LEMMA DrainAloud ==
    ASSUME NEW w, IsWorld(w), NEW n \in Nat
    PROVE  LET v == DrainEvents(w, n, DrainDirect) IN Answers(w, v) /\ IsWorld(v)
<1> DEFINE q == [i \in 1 .. n |-> i]
           f == FoldLeft(DrainDirect, w, q)
           v == [f EXCEPT !.halt = FALSE]
<1>1. DrainEvents(w, n, DrainDirect) = v
  BY Zenon DEF DrainEvents
<1>2. Len(q) = n /\ q = [i \in 1 .. Len(q) |-> q[i]]
  BY CountTo
<1> HIDE DEF q
<1>3. Answering(w, 0, w)
  BY ServesSelf, ServesAnswers DEF Answering
<1>4. ASSUME NEW i \in 1 .. Len(q), NEW u, Answering(w, i - 1, u)
      PROVE  Answering(w, i, DrainDirect(u, q[i]))
  <2>1. Answers(w, u) /\ IsWorld(u)
    BY <1>4, AnswersWorld DEF Answering
  <2> QED
    BY <2>1, DrainDirectOk, AnswersTrans DEF Answering
<1>5. Answering(w, Len(q), DirectFold!FoldLeft(DrainDirect, w, q))
  BY <1>2, <1>3, <1>4, DirectFold!FoldKeeps
<1>6. Answers(w, f) /\ IsWorld(f)
  BY <1>5, DirectFoldIs, AnswersWorld DEF Answering
<1> HIDE DEF f
<1>7. Answers(f, v)
  BY <1>6, HaltOk, QuietOk, ServesAnswers DEF Tracks
<1> HIDE DEF v
<1> QED
  BY <1>1, <1>6, <1>7, AnswersTrans, AnswersWorld

-----------------------------------------------------------------------------
(* The verbs on the scene.                                                 *)

\* add() of the scene, published.
LEMMA AddOneOk ==
    ASSUME NEW w, IsWorld(w), NEW s
    PROVE  Serves(w, AddOne(w, s))
<1> DEFINE p == Publish(w, SceneAdd(w.scene, s, w.now))
           v == [p EXCEPT !.ok = s.kind # "invalid"]
<1>1. AddOne(w, s) = IF w.ok THEN v ELSE w
  BY Zenon DEF AddOne, Then
<1>2. w.now \in Nat /\ AtRest(w.scene, w.now)
  BY DEF IsWorld
<1>3. Serves(w, p)
  BY <1>2, AddLed, PublishOk
<1>4. IsWorld(p)
  BY <1>3 DEF Serves, Eases, Beyond
<1> HIDE DEF p
<1>5. Serves(p, v)
  BY <1>4, OutcomeServes
<1> HIDE DEF v
<1> QED
  BY <1>1, <1>3, <1>5, ServesTrans, ServesSelf

Serving(c, i, v) == Serves(c, v)

AddFold == INSTANCE FoldProofs WITH Op <- AddOne, Kept <- Serving

\* The fold of add_many() is the one FoldProofs is about.
LEMMA AddFoldIs ==
    ASSUME NEW b, NEW q
    PROVE  FoldLeft(AddOne, b, q) = AddFold!FoldLeft(AddOne, b, q)
BY Zenon DEF FoldLeft, AddFold!FoldLeft, MapThenFoldSet, AddFold!MapThenFoldSet,
             Max, AddFold!Max

\* The end of every verb on the scene.
LEMMA VerbEnd ==
    ASSUME NEW w, NEW v, Tends(w, v)
    PROVE  Answers(w, Tell(RefreshEdit(v))) /\ Hushed(Tell(RefreshEdit(v)))
BY RefreshOk, TellAnswers, TendsTrans, TendsWorld

\* recover_best_effort(), for a session.
LEMMA RecoverBestTends ==
    ASSUME NEW w, IsWorld(w)
    PROVE  Tends(w, RecoverBestEffort(w)) /\ IsWorld(RecoverBestEffort(w))
BY RecoverBestOk, ServesTends, TendsWorld

\* add_many(), for a batch of any length.
LEMMA AddManyOk ==
    ASSUME NEW w, IsWorld(w), NEW q \in Batches
    PROVE  Answers(w, AddMany(w, q)) /\ Hushed(AddMany(w, q))
<1> DEFINE r == RecoverBestEffort(w)
           d == Done(r)
           f == FoldLeft(AddOne, d, q)
           a == IF \A i \in 1 .. Len(q) : Resolvable(q[i]) THEN f ELSE r
<1>1. AddMany(w, q) = Tell(RefreshEdit(a))
  BY Zenon DEF AddMany
<1>2. Tends(w, r) /\ IsWorld(r)
  BY RecoverBestTends
<1> HIDE DEF r
<1>3. Serves(r, d) /\ IsWorld(d)
  BY <1>2, RequestServes, DoneOk DEF Eases, Beyond
<1> HIDE DEF d
<1>4. Len(q) \in Nat /\ q = [i \in 1 .. Len(q) |-> q[i]]
  BY OverlayAssumption
<1>5. Serving(d, 0, d)
  BY <1>3, ServesSelf DEF Serving
<1>6. ASSUME NEW i \in 1 .. Len(q), NEW v, Serving(d, i - 1, v)
      PROVE  Serving(d, i, AddOne(v, q[i]))
  <2>1. Serves(d, v) /\ IsWorld(v)
    BY <1>6 DEF Serving, Serves, Eases, Beyond
  <2> QED
    BY <2>1, AddOneOk, ServesTrans DEF Serving
<1>7. Serving(d, Len(q), AddFold!FoldLeft(AddOne, d, q))
  BY <1>4, <1>5, <1>6, AddFold!FoldKeeps
<1>8. Serves(r, f)
  BY <1>3, <1>7, AddFoldIs, ServesTrans DEF Serving
<1> HIDE DEF f
<1>9. Tends(w, a)
  BY <1>2, <1>8, ServesTends, TendsTrans
<1> HIDE DEF a
<1> QED
  BY <1>1, <1>9, VerbEnd

\* A verb on the shape that is being dragged.
LEMMA OverDragOk ==
    ASSUME NEW w, IsWorld(w), NEW id
    PROVE  Tends(w, OverDrag(w, id))
BY CancelOk, TendsSelf DEF OverDrag

\* update().
LEMMA UpdateOk ==
    ASSUME NEW w, IsWorld(w), NEW id, NEW shape
    PROVE  Answers(w, Update(w, id, shape)) /\ Hushed(Update(w, id, shape))
<1> DEFINE r == RecoverBestEffort(w)
           p == IF Resolvable(shape) THEN UpdateShape(r, id, shape) ELSE Fail(r)
           o == OverDrag(p, id)
<1>1. Update(w, id, shape) = Tell(RefreshEdit(o))
  BY Zenon DEF Update
<1>2. Tends(w, r) /\ IsWorld(r)
  BY RecoverBestTends
<1> HIDE DEF r
<1>3. Tends(r, p) /\ IsWorld(p)
  <2>1. Serves(r, p)
    BY <1>2, UpdateShapeOk, RequestServes
  <2> QED
    BY <2>1, ServesTends, TendsWorld
<1> HIDE DEF p
<1>4. Tends(p, o)
  BY <1>3, OverDragOk
<1> HIDE DEF o
<1>5. Tends(w, o)
  BY <1>2, <1>3, <1>4, TendsTrans
<1> QED
  BY <1>1, <1>5, VerbEnd

\* remove().
LEMMA RemoveOk ==
    ASSUME NEW w, IsWorld(w), NEW id
    PROVE  Answers(w, RemoveShape(w, id)) /\ Hushed(RemoveShape(w, id))
<1> DEFINE r == RecoverBestEffort(w)
           p == Publish(r, SceneRemove(r.scene, id, r.now))
           k == id \in DOMAIN DrainExpired(r.scene, r.now).live
           d == [p EXCEPT !.ok = k]
           o == OverDrag(d, id)
<1>1. RemoveShape(w, id) = Tell(RefreshEdit(o))
  BY Zenon DEF RemoveShape
<1>2. Tends(w, r) /\ IsWorld(r)
  BY RecoverBestTends
<1> HIDE DEF r
<1>3. r.now \in Nat /\ AtRest(r.scene, r.now)
  BY <1>2 DEF IsWorld
<1>4. Tends(r, p) /\ IsWorld(p)
  <2>1. Serves(r, p)
    BY <1>2, <1>3, RemoveLed, PublishOk
  <2> QED
    BY <2>1, ServesTends, TendsWorld
<1> HIDE DEF p
<1>5. Tends(p, d) /\ IsWorld(d)
  <2>1. k \in BOOLEAN
    OBVIOUS
  <2> HIDE DEF k
  <2>2. Serves(p, d)
    BY <2>1, <1>4, OutcomeServes
  <2> QED
    BY <2>2, ServesTends, TendsWorld
<1> HIDE DEF d
<1>6. Tends(d, o)
  BY <1>5, OverDragOk
<1> HIDE DEF o
<1>7. Tends(w, o)
  BY <1>2, <1>4, <1>5, <1>6, TendsTrans
<1> QED
  BY <1>1, <1>7, VerbEnd

\* clear().
LEMMA ClearOk ==
    ASSUME NEW w, IsWorld(w)
    PROVE  Answers(w, Clear(w)) /\ Hushed(Clear(w))
<1> DEFINE r == RecoverBestEffort(w)
           p == Publish(r, SceneClear(r.scene, r.now))
           o == CancelDrag(p, FALSE)
<1>1. Clear(w) = Tell(RefreshEdit(o))
  BY Zenon DEF Clear
<1>2. Tends(w, r) /\ IsWorld(r)
  BY RecoverBestTends
<1> HIDE DEF r
<1>3. r.now \in Nat /\ AtRest(r.scene, r.now)
  BY <1>2 DEF IsWorld
<1>4. Tends(r, p) /\ IsWorld(p)
  <2>1. Serves(r, p)
    BY <1>2, <1>3, ClearLed, PublishOk
  <2> QED
    BY <2>1, ServesTends, TendsWorld
<1> HIDE DEF p
<1>5. Tends(p, o)
  BY <1>4, CancelOk
<1> HIDE DEF o
<1>6. Tends(w, o)
  BY <1>2, <1>4, <1>5, TendsTrans
<1> QED
  BY <1>1, <1>6, VerbEnd

\* stop_edit().
LEMMA StopEditOk ==
    ASSUME NEW w, IsWorld(w)
    PROVE  Answers(w, StopEdit(w)) /\ Hushed(StopEdit(w))
BY AbandonOk, TellAnswers DEF StopEdit

\* The descriptor's callback.
LEMMA ReadOk ==
    ASSUME NEW w, IsWorld(w)
    PROVE  Answers(w, ReadEvents(w))
<1>1. w.x.queue \in Seq(ServerEvents)
  BY DEF IsWorld
<1>2. All(w) \in Nat
  BY <1>1 DEF All
<1> QED
  BY <1>2, DrainAloud DEF ReadEvents

\* An event that was posted, of this session or of one that is gone.
LEMMA PostedOk ==
    ASSUME NEW w, IsWorld(w), w.posted # <<>>
    PROVE  Answers(w, RunPosted(w))
<1> DEFINE t == [w EXCEPT !.posted = Tail(@)]
           e == Head(w.posted)
<1>1. RunPosted(w) = HandleEditEvent(t, e.kind, e.id)
  BY DEF RunPosted
<1>2. w.posted \in Seq(EditEvents)
  BY DEF IsWorld
<1>3. e \in EditEvents /\ Tail(w.posted) \in Seq(EditEvents)
  BY <1>2
<1>4. Quiet(w, t)
  BY <1>3 DEF Quiet, IsWorld
<1>5. Answers(w, t) /\ IsWorld(t)
  BY <1>4, QuietOk, ServesAnswers, AnswersWorld DEF Tracks
<1> HIDE DEF t, e
<1>6. e.kind \in {"press", "motion", "release", "ungrab"}
  BY <1>3 DEF EditEvents
<1>7. Answers(t, HandleEditEvent(t, e.kind, e.id))
  BY <1>5, <1>6, HandleOk DEF Answers
<1> QED
  BY <1>1, <1>5, <1>7, AnswersTrans

-----------------------------------------------------------------------------
(* flush().                                                                *)

\* The frame on the screen is the scene's as it was at some time since s, or will be.
Displayed(w, s) ==
    IF w.del.revived THEN w.del.presented \/ w.del.wake # Never
    ELSE /\ w.del.mapped
         /\ \E t \in s .. w.now : w.del.screen = Render(Resolved(w.scene.live, w.topo), t)

\* Nothing in the scene had expired at s.
FreshAt(w, s) == \A id \in DOMAIN w.scene.live : ~(Deadline(w.scene.live[id]) <= s)

\* In step and on its frame, the delegate displays a scene that was looked through at s.
LEMMA DisplayedOk ==
    ASSUME NEW w, IsWorld(w), NEW s \in 0 .. w.now, FreshAt(w, s), ~w.svc.desync,
           InStep(w, View(w.scene)), Shown(w), Woken(w), w.del.state = "synced", OnFrame(w)
    PROVE  Displayed(w, s)
<1>1. CASE w.del.revived
  BY <1>1 DEF Displayed, Shown, Woken
<1>2. CASE ~w.del.revived
  <2> DEFINE f == Resolved(w.scene.live, w.topo)
  <2>1. w.del.mapped /\ w.del.shapes = f
    BY <1>2 DEF InStep, Shown, View
  <2>2. w.now \in 0 .. MaxTime /\ \A id \in DOMAIN w.scene.live :
            w.scene.live[id].start \in 0 .. MaxTime
    <3>1. w.now \in 0 .. MaxTime /\ \A id \in DOMAIN w.scene.live :
              w.scene.live[id].start \in Nat /\ w.scene.live[id].start <= w.now
      BY DEF IsWorld, AtRest, IsScene
    <3>2. MaxTime \in Nat
      BY OverlayAssumption
    <3> QED
      BY <3>1, <3>2
  <2>3. /\ DOMAIN f = DOMAIN w.scene.live
        /\ \A id \in DOMAIN f : Deadline(f[id]) = Deadline(w.scene.live[id])
    BY DEF Resolved, Resolve, Deadline
  <2>4. s \in Nat /\ \A id \in DOMAIN f : Deadline(f[id]) \in Nat /\ Deadline(f[id]) > s
    <3>1. \A id \in DOMAIN f : Deadline(f[id]) \in Nat /\ ~(Deadline(f[id]) <= s)
      BY <2>2, <2>3, DeadlineOk DEF FreshAt
    <3> QED
      BY <3>1, <2>2
  <2>5. f = [id \in DOMAIN f |-> f[id]]
    BY DEF Resolved
  <2> HIDE DEF f
  <2>6. ASSUME NEW u \in 0 .. s PROVE Render(f, u) = f
    <3>1. \A id \in DOMAIN f : Deadline(f[id]) > u
      BY <2>4
    <3>2. {id \in DOMAIN f : Deadline(f[id]) > u} = DOMAIN f
      BY <3>1
    <3> QED
      BY <3>2, <2>5 DEF Render, Restrict
  <2>7. Render(f, s) = f /\ s \in s .. w.now
    BY <2>2, <2>4, <2>6
  <2>8. \E t \in s .. w.now : w.del.screen = Render(f, t)
    <3>1. CASE w.del.presented /\ ~w.del.dirty
      <4>1. PICK t \in 0 .. w.now : w.del.screen = Render(f, t)
        BY <3>1, <2>1 DEF Shown
      <4>2. CASE t \in 0 .. s
        BY <4>1, <4>2, <2>6, <2>7
      <4>3. CASE t \notin 0 .. s
        <5>1. t \in s .. w.now
          BY <4>3, <2>2, <2>4
        <5> QED
          BY <4>1, <5>1
      <4> QED
        BY <4>2, <4>3
    <3>2. CASE w.del.screen = <<>> /\ DOMAIN w.del.shapes = {}
      <4>1. f = <<>>
        BY <3>2, <2>1, <2>5
      <4> QED
        BY <3>2, <4>1, <2>7
    <3> QED
      BY <1>2, <3>1, <3>2 DEF OnFrame
  <2> QED
    BY <1>2, <2>1, <2>8 DEF Displayed, f
<1> QED
  BY <1>1, <1>2

\* A fence that succeeded on a scene looked through at s has put it on the screen.
LEMMA FenceOk ==
    ASSUME NEW w, IsWorld(w), NEW seen \in Nat, NEW through, NEW s \in 0 .. w.now
    PROVE  LET v == DelegateFlush(w, seen, through)
           IN  /\ Serves(w, v) /\ IsWorld(v) /\ v.scene = w.scene
               /\ v.svc.desync = w.svc.desync
               /\ /\ v.ok /\ FreshAt(w, s) /\ ~w.svc.desync /\ InStep(w, View(w.scene))
                  /\ Shown(w) /\ Woken(w)
                  => Displayed(v, s)
<1> DEFINE v == DelegateFlush(w, seen, through)
<1>1. /\ Serves(w, v) /\ v.scene = w.scene /\ v.svc.desync = w.svc.desync
      /\ ~w.svc.desync /\ InStep(w, View(w.scene)) /\ v.ok =>
            v.del.state = "synced" /\ OnFrame(v)
  BY FlushOk
<1> HIDE DEF v
<1>2. IsWorld(v) /\ v.now = w.now
  BY <1>1 DEF Serves, Eases, Beyond
<1>3. FreshAt(w, s) => FreshAt(v, s)
  BY <1>1 DEF FreshAt
<1>4. /\ InStep(w, View(w.scene)) => InStep(v, View(v.scene))
      /\ Shown(w) => Shown(v)
      /\ Woken(w) => Woken(v)
  BY <1>1 DEF Serves, Keeps
<1> QED
  BY <1>1, <1>2, <1>3, <1>4, DisplayedOk DEF v

\* What the service believes changes with the outcome.
LEMMA KeepOk ==
    ASSUME NEW w, IsWorld(w)
    PROVE  LET v == [w EXCEPT !.svc.desync = @ \/ ~w.ok]
           IN  Serves(w, v) /\ v.ok = w.ok /\ v.scene = w.scene /\ v.del = w.del
               /\ v.topo = w.topo /\ v.now = w.now
<1> DEFINE v == [w EXCEPT !.svc.desync = @ \/ ~w.ok]
<1>1. DOMAIN w = WorldFields /\ DOMAIN w.svc = DOMAIN NoService
  BY DEF IsWorld
<1>2. /\ DOMAIN v = WorldFields /\ \A f \in WorldFields \ {"svc"} : v[f] = w[f]
      /\ DOMAIN v.svc = DOMAIN NoService
      /\ \A f \in DOMAIN NoService \ {"desync"} : v.svc[f] = w.svc[f]
      /\ ~v.svc.desync => ~w.svc.desync
  BY <1>1
<1> HIDE DEF v
<1>3. /\ v.now = w.now /\ v.topo = w.topo /\ v.scene = w.scene /\ v.sess = w.sess
      /\ v.del = w.del /\ v.posted = w.posted /\ v.x = w.x /\ v.drags = w.drags
      /\ v.flushed = w.flushed /\ v.told = w.told /\ v.note = w.note /\ v.bad = w.bad
      /\ v.calls = w.calls /\ v.ok = w.ok
  BY <1>2
<1>4. /\ v.svc.captured = w.svc.captured /\ v.svc.mixed = w.svc.mixed
      /\ v.svc.sessions = w.svc.sessions /\ v.svc.opened = w.svc.opened
      /\ v.svc.closed = w.svc.closed /\ v.svc.lapsed = w.svc.lapsed
  BY <1>2
<1>5. IsWorld(v)
  BY <1>2, <1>3, <1>4 DEF IsWorld
<1>6. Eases(w, v)
  BY <1>3, <1>4, <1>5 DEF Eases, Beyond, NoWindow
<1>7. Keeps(w, v)
  BY <1>2, <1>3 DEF Keeps, InStep, Shown, Woken
<1> QED
  BY <1>3, <1>6, <1>7 DEF Serves, v

\* What flush() reports is all it changes besides.
LEMMA ReportOk ==
    ASSUME NEW w, IsWorld(w), NEW o
    PROVE  LET v == [w EXCEPT !.flushed = o]
           IN  /\ IsWorld(v) /\ v.now = w.now /\ v.svc = w.svc /\ v.flushed = o
               /\ v.del = w.del /\ v.scene = w.scene /\ v.topo = w.topo
               /\ Keeps(w, v) /\ (Owned(w) => Owned(v))
<1> DEFINE v == [w EXCEPT !.flushed = o]
<1>1. DOMAIN w = WorldFields
  BY DEF IsWorld
<1>2. /\ DOMAIN v = WorldFields /\ \A f \in WorldFields \ {"flushed"} : v[f] = w[f]
      /\ v.flushed = o
  BY <1>1
<1> HIDE DEF v
<1>3. /\ v.now = w.now /\ v.topo = w.topo /\ v.scene = w.scene /\ v.sess = w.sess
      /\ v.del = w.del /\ v.posted = w.posted /\ v.x = w.x /\ v.drags = w.drags
      /\ v.told = w.told /\ v.note = w.note /\ v.bad = w.bad
      /\ v.calls = w.calls /\ v.ok = w.ok /\ v.svc = w.svc
  BY <1>2
<1>4. IsWorld(v)
  BY <1>2, <1>3 DEF IsWorld
<1>5. Keeps(w, v)
  BY <1>3 DEF Keeps, InStep, Shown, Woken
<1>6. Owned(w) => Owned(v)
  BY <1>3, HeldSame, OwedBy DEF Owned
<1> QED
  BY <1>2, <1>3, <1>4, <1>5, <1>6 DEF v

\* How many turns drain_events() has.
LEMMA QueueLength ==
    ASSUME NEW w, IsWorld(w)
    PROVE  All(w) \in Nat
<1>1. w.x.queue \in Seq(ServerEvents)
  BY DEF IsWorld
<1> QED
  BY <1>1 DEF All

\* Of what was in step and woken, a step that Serves makes such again.
Sound(w) == InStep(w, View(w.scene)) /\ Shown(w) /\ Woken(w)

\* Time, a wakeup and when one was looked for: the rest is as it was.
LEMMA TimeOk ==
    ASSUME NEW w, IsWorld(w), NEW v, DOMAIN v = WorldFields,
           DOMAIN v.del = DOMAIN ClosedDelegate, v.now \in 0 .. MaxTime, w.now <= v.now,
           \A f \in WorldFields \ {"now", "del"} : v[f] = w[f],
           \A f \in DOMAIN ClosedDelegate \ {"wake", "looked"} : v.del[f] = w.del[f],
           v.del.wake \in Nat, v.del.looked \in Nat, v.del.looked <= v.now
    PROVE  /\ IsWorld(v)
           /\ InStep(w, View(w.scene)) => InStep(v, View(v.scene))
           /\ Shown(w) => Shown(v)
           /\ Owned(w) => Owned(v)
           /\ Hushed(w) => Hushed(v)
<1>1. /\ v.topo = w.topo /\ v.scene = w.scene /\ v.svc = w.svc
      /\ v.sess = w.sess /\ v.posted = w.posted /\ v.drags = w.drags
      /\ v.flushed = w.flushed /\ v.told = w.told /\ v.note = w.note /\ v.bad = w.bad
      /\ v.calls = w.calls /\ v.ok = w.ok /\ v.x = w.x
  OBVIOUS
<1>2. /\ v.del.state = w.del.state /\ v.del.shapes = w.del.shapes
      /\ v.del.epoch = w.del.epoch /\ v.del.revision = w.del.revision
      /\ v.del.mapped = w.del.mapped /\ v.del.presented = w.del.presented
      /\ v.del.dirty = w.del.dirty /\ v.del.screen = w.del.screen
      /\ v.del.revived = w.del.revived /\ v.del.surface = w.del.surface
      /\ v.del.grabbed = w.del.grabbed /\ v.del.region = w.del.region
      /\ v.del.handler = w.del.handler /\ v.del.window = w.del.window
  OBVIOUS
<1>3. w.now \in 0 .. MaxTime
  BY DEF IsWorld
<1>4. AtRest(v.scene, v.now)
  <2>1. AtRest(w.scene, w.now)
    BY DEF IsWorld
  <2>2. w.scene.pending = <<>> /\ Len(w.scene.pending) = 0
    BY <2>1 DEF AtRest
  <2>3. \A id \in DOMAIN w.scene.live : w.scene.live[id].start <= v.now
    BY <2>1, <1>3, OverlayAssumption DEF AtRest, IsScene
  <2> QED
    BY <2>1, <2>2, <2>3, <1>1 DEF AtRest, IsScene
<1>5. IsShapes(v.del.shapes, v.now)
  <2>1. IsShapes(w.del.shapes, w.now)
    BY DEF IsWorld
  <2> QED
    BY <2>1, <1>2, <1>3, OverlayAssumption DEF IsShapes
<1>6. IsWorld(v)
  BY <1>1, <1>2, <1>4, <1>5 DEF IsWorld
<1>7. InStep(w, View(w.scene)) => InStep(v, View(v.scene))
  BY <1>1, <1>2 DEF InStep, Mirrors
<1>8. Shown(w) => Shown(v)
  <2>1. 0 .. w.now \subseteq 0 .. v.now
    BY <1>3, OverlayAssumption
  <2> QED
    BY <2>1, <1>2 DEF Shown
<1>9. Held(w) => Held(v)
  BY <1>1, <1>2 DEF Held, Claims, SessOk, NoWindow, Excused, GrabClaim, RegionClaim,
                    HandlerClaim
<1>10. Owned(w) => Owned(v)
  BY <1>1, <1>9, OwedBy DEF Owned
<1>11. Hushed(w) => Hushed(v)
  BY <1>1, Zenon DEF Hushed
<1> QED
  BY <1>6, <1>7, <1>8, <1>10, <1>11

\* The clock is read again: what has expired meanwhile has a wakeup that stands.
LEMMA LaterOk ==
    ASSUME NEW w, IsWorld(w), NEW t \in 0 .. MaxTime, w.now <= t
    PROVE  LET v == [w EXCEPT !.now = t]
           IN  /\ IsWorld(v) /\ v.now = t /\ \A f \in WorldFields \ {"now"} : v[f] = w[f]
               /\ Keeps(w, v) /\ (Owned(w) => Owned(v)) /\ (Hushed(w) => Hushed(v))
<1> DEFINE v == [w EXCEPT !.now = t]
<1>1. DOMAIN w = WorldFields /\ DOMAIN w.del = DOMAIN ClosedDelegate /\ w.now \in 0 .. MaxTime
      /\ w.del.wake \in Nat /\ w.del.looked \in Nat /\ w.del.looked <= w.now
  BY DEF IsWorld
<1>2. /\ DOMAIN v = WorldFields /\ v.now = t /\ \A f \in WorldFields \ {"now"} : v[f] = w[f]
  BY <1>1
<1> HIDE DEF v
<1>3. v.del = w.del /\ v.del.looked <= v.now
  BY <1>1, <1>2, OverlayAssumption
<1>4. /\ IsWorld(v) /\ (InStep(w, View(w.scene)) => InStep(v, View(v.scene)))
      /\ (Shown(w) => Shown(v)) /\ (Owned(w) => Owned(v)) /\ (Hushed(w) => Hushed(v))
  BY <1>1, <1>2, <1>3, TimeOk
<1>5. Woken(w) => Woken(v)
  <2>1. \A id \in DOMAIN w.del.shapes : Deadline(w.del.shapes[id]) \in Nat
    BY OverlayAssumption DEF IsWorld, IsShapes, Deadline, Never
  <2>2. \A id \in DOMAIN w.del.shapes : v.now < Deadline(w.del.shapes[id]) =>
            w.now < Deadline(w.del.shapes[id])
    BY <2>1, <1>1, <1>2, OverlayAssumption
  <2> QED
    BY <2>2, <1>3 DEF Woken
<1> QED
  BY <1>2, <1>4, <1>5 DEF Keeps, v

\* What a handler keeps that lets time pass.
Carried(w, v) ==
    /\ IsWorld(v) /\ Keeps(w, v) /\ (Owned(w) => Owned(v))
    /\ v.svc.opened = w.svc.opened

\* It is closed under composition,
LEMMA CarriedTrans ==
    ASSUME NEW w, NEW v, NEW u, Carried(w, v), Carried(v, u)
    PROVE  Carried(w, u)
BY DEF Carried, Keeps

\* and holds of everything that Tends or Serves.
LEMMA TendsCarried ==
    ASSUME NEW w, NEW v
    PROVE  (Tends(w, v) => Carried(w, v)) /\ (IsWorld(w) /\ Serves(w, v) => Carried(w, v))
<1>1. Tends(w, v) => Carried(w, v)
  BY TendsWorld DEF Tends, Data, Carried
<1> QED
  BY <1>1, ServesTends

\* flush(): recover, fence, retry once; if it reports success the scene is displayed.
LEMMA FlushVerbOk ==
    ASSUME NEW w, IsWorld(w), NEW seen \in Nat, NEW later \in 0 .. MaxTime, w.now <= later
    PROVE  LET v == Flush(w, seen, later)
           IN  /\ IsWorld(v) /\ v.svc.opened = w.svc.opened
               /\ Keeps(w, v) /\ (Owned(w) => Owned(v)) /\ Hushed(v)
               /\ v.flushed # Never /\ Sound(w) => Displayed(v, v.flushed)
<1> DEFINE e == RefreshEdit(w)
           s == Snapshot(e)
           y == IF s.svc.desync THEN Recover(s) ELSE Done(s)
           l == [y EXCEPT !.now = later]
           f == DelegateFlush(l, seen, y.scene.revision)
           h == Recover(f)
           m == [h EXCEPT !.now = later]
           g == DelegateFlush(m, All(h), h.scene.revision)
           k == [g EXCEPT !.svc.desync = @ \/ ~g.ok]
           t == IF y.ok THEN (IF f.ok THEN f ELSE IF h.ok THEN k ELSE h) ELSE y
           o == IF t.ok THEN w.now ELSE Never
           z == [t EXCEPT !.flushed = o]
           v == Flush(w, seen, later)
<1>1. v = Tell(z)
  BY Zenon DEF Flush, Then, OrElse
<1>2. Tends(w, e) /\ IsWorld(e) /\ e.now = w.now
  BY RefreshOk, TendsWorld
<1>a. w.now \in 0 .. MaxTime /\ w.now \in 0 .. later
  BY OverlayAssumption DEF IsWorld
<1> HIDE DEF e, v
<1>3. Serves(e, s) /\ Fresh(s)
  BY <1>2, SnapshotOk
<1>4. IsWorld(s) /\ s.now = w.now
  BY <1>2, <1>3 DEF Serves, Eases, Beyond
<1> HIDE DEF s
<1>5. /\ Serves(s, y) /\ y.scene = s.scene /\ y.ok => ~y.svc.desync
      /\ Serves(s, y) /\ y.scene = s.scene
  <2>1. /\ Serves(s, Recover(s)) /\ Recover(s).scene = s.scene
        /\ Recover(s).svc.desync = ~Recover(s).ok
    BY <1>4, RecoverOk
  <2>2. /\ Serves(s, Done(s)) /\ Done(s).scene = s.scene /\ Done(s).svc = s.svc
    BY <1>4, DoneOk, RequestServes DEF Idle, SameFrame
  <2>3. y = Recover(s) \/ (y = Done(s) /\ ~s.svc.desync)
    OBVIOUS
  <2> HIDE DEF y
  <2> QED
    BY <2>1, <2>2, <2>3
<1>6. IsWorld(y) /\ y.now = w.now
  BY <1>4, <1>5 DEF Serves, Eases, Beyond
<1> HIDE DEF y
<1>7. /\ IsWorld(l) /\ l.now = later /\ Carried(y, l) /\ l.scene = y.scene /\ l.svc = y.svc
  BY <1>6, LaterOk DEF Carried
<1>8. FreshAt(l, w.now)
  BY <1>3, <1>4, <1>5, <1>7 DEF Fresh, FreshAt
<1> HIDE DEF l
<1>9. /\ Serves(l, f) /\ IsWorld(f) /\ f.scene = l.scene
      /\ f.ok /\ FreshAt(l, w.now) /\ ~l.svc.desync /\ Sound(l) => Displayed(f, w.now)
  BY <1>a, <1>7, FenceOk DEF Sound
<1> HIDE DEF f
<1>10. f.now = later
  BY <1>7, <1>9 DEF Serves, Eases, Beyond
<1>11. /\ Serves(f, h) /\ h.scene = f.scene /\ h.svc.desync = ~h.ok
       /\ IsWorld(h) /\ h.now = later
  BY <1>9, <1>10, RecoverOk DEF Serves, Eases, Beyond
<1> HIDE DEF h
<1>12. /\ IsWorld(m) /\ m.now = later /\ Carried(h, m) /\ m.scene = h.scene /\ m.svc = h.svc
  <2>1. h.now <= later
    BY <1>11
  <2> QED
    BY <1>11, <2>1, LaterOk DEF Carried
<1>13. FreshAt(m, w.now)
  BY <1>8, <1>9, <1>11, <1>12 DEF FreshAt
<1> HIDE DEF m
<1>14. /\ Serves(m, g) /\ IsWorld(g) /\ g.scene = m.scene
       /\ g.ok /\ FreshAt(m, w.now) /\ ~m.svc.desync /\ Sound(m) => Displayed(g, w.now)
  BY <1>a, <1>11, <1>12, QueueLength, FenceOk DEF Sound
<1> HIDE DEF g
<1>15. /\ Serves(g, k) /\ k.ok = g.ok
       /\ Displayed(g, w.now) => Displayed(k, w.now)
  <2>1. /\ Serves(g, k) /\ k.ok = g.ok /\ k.scene = g.scene /\ k.del = g.del
        /\ k.topo = g.topo /\ k.now = g.now
    BY <1>14, KeepOk
  <2> HIDE DEF k
  <2> QED
    BY <2>1 DEF Displayed
<1> HIDE DEF k
<1>16. /\ Carried(w, y) /\ Carried(w, l) /\ Carried(w, f) /\ Carried(w, h) /\ Carried(w, m)
       /\ Carried(w, k)
  <2>1. Carried(w, e) /\ Carried(e, s) /\ Carried(s, y)
    BY <1>2, <1>3, <1>4, <1>5, TendsCarried
  <2>2. Carried(l, f) /\ Carried(f, h) /\ Carried(m, g) /\ Carried(g, k)
    BY <1>7, <1>9, <1>11, <1>12, <1>14, <1>15, TendsCarried
  <2>3. Carried(w, y) /\ Carried(w, l)
    BY <2>1, <1>7, CarriedTrans
  <2>4. Carried(w, f) /\ Carried(w, h)
    BY <2>2, <2>3, CarriedTrans
  <2>5. Carried(w, m)
    BY <2>4, <1>12, CarriedTrans
  <2> QED
    BY <2>2, <2>3, <2>4, <2>5, CarriedTrans
<1>17. /\ Carried(w, t)
       /\ t.ok => y.ok /\ (t = f \/ (t = k /\ h.ok /\ k.ok))
  BY <1>16
<1> HIDE DEF t
<1>18. ASSUME Sound(w), t.ok PROVE Displayed(t, w.now)
  <2>1. Sound(l) /\ Sound(m)
    BY <1>16, <1>18 DEF Carried, Keeps, Sound
  <2>2. y.ok /\ ~l.svc.desync
    BY <1>5, <1>7, <1>17, <1>18
  <2>3. CASE t = f
    BY <2>1, <2>2, <2>3, <1>8, <1>9, <1>18
  <2>4. CASE t = k /\ h.ok /\ k.ok
    BY <2>1, <2>4, <1>11, <1>12, <1>13, <1>14, <1>15
  <2> QED
    BY <2>3, <2>4, <1>17, <1>18
<1>19. w.now # Never
  BY <1>a, OverlayAssumption DEF Never
<1>20. o # Never => t.ok /\ o = w.now
  BY <1>19
<1> HIDE DEF o
<1>21. /\ IsWorld(z) /\ z.now = t.now /\ z.svc = t.svc /\ z.flushed = o
       /\ z.del = t.del /\ z.scene = t.scene /\ z.topo = t.topo
       /\ Keeps(t, z) /\ (Owned(t) => Owned(z))
  BY <1>17, ReportOk DEF Carried
<1> HIDE DEF z
<1>22. /\ Tends(z, v) /\ Hushed(v) /\ IsWorld(v)
       /\ v.svc = z.svc /\ v.del = z.del
       /\ v.scene = z.scene /\ v.flushed = z.flushed /\ v.topo = z.topo
  BY <1>1, <1>21, TellOk
<1>23. v.svc.opened = w.svc.opened /\ Keeps(w, v) /\ (Owned(w) => Owned(v))
  <2>1. Keeps(z, v) /\ (Owned(z) => Owned(v))
    BY <1>22 DEF Tends, Data
  <2> QED
    BY <2>1, <1>17, <1>21, <1>22 DEF Carried, Keeps
<1>24. v.flushed # Never /\ Sound(w) => Displayed(v, v.flushed)
  <2>1. v.now = t.now
    BY <1>21, <1>22, TendsWorld
  <2> QED
    BY <2>1, <1>18, <1>20, <1>21, <1>22 DEF Displayed
<1> QED
  BY <1>22, <1>23, <1>24 DEF v

-----------------------------------------------------------------------------
(* start_edit(), capture_pointer() and release_pointer().                  *)

\* A handler that has nothing to tell.
LEMMA SameNoteAnswers ==
    ASSUME NEW w, NEW v, Tends(w, v), v.note = w.note
    PROVE  Answers(w, v)
<1>1. Hushed(w) => Hushed(v)
  BY Zenon DEF Hushed
<1> QED
  BY <1>1 DEF Answers

\* A new session, where there was none.
LEMMA SessionOk ==
    ASSUME NEW w, IsWorld(w), w.sess.id = 0, NEW ids
    PROVE  LET v == [w EXCEPT !.svc.sessions = @ + 1,
                              !.sess = [NoSession EXCEPT !.id = w.svc.sessions + 1,
                                           !.editable = ids, !.handler = TRUE]]
           IN  /\ Answers(w, v) /\ v.sess.id # 0 /\ v.sess.handler
               /\ v.sess.target = None /\ IsWorld(v) /\ v.del = w.del
               /\ ~v.sess.grabbed /\ ~v.sess.region
               /\ Data(w, v) /\ v.drags = w.drags /\ v.note = w.note
               /\ Held(w) => /\ w.sess.target = None /\ Held(v)
                             /\ Excused(v) \/ v.del.handler = 0
<1> DEFINE n == [NoSession EXCEPT !.id = w.svc.sessions + 1, !.editable = ids,
                                  !.handler = TRUE]
           v == [w EXCEPT !.svc.sessions = @ + 1, !.sess = n]
<1>1. DOMAIN w = WorldFields /\ DOMAIN w.svc = DOMAIN NoService /\ w.svc.sessions \in Nat
  BY DEF IsWorld
<1>2. /\ DOMAIN n = DOMAIN NoSession /\ n.id = w.svc.sessions + 1 /\ n.handler = TRUE
      /\ n.target = None /\ n.live = FALSE /\ n.grabbed = FALSE /\ n.region = FALSE
  OBVIOUS
<1> HIDE DEF n
<1>3. /\ DOMAIN v = WorldFields /\ \A f \in WorldFields \ {"sess", "svc"} : v[f] = w[f]
      /\ v.sess = n /\ DOMAIN v.svc = DOMAIN NoService
      /\ v.svc.sessions = w.svc.sessions + 1
      /\ \A f \in DOMAIN NoService \ {"sessions"} : v.svc[f] = w.svc[f]
  BY <1>1
<1> HIDE DEF v
<1>4. /\ v.drags = w.drags /\ v.note = w.note
      /\ v.svc.desync = w.svc.desync /\ v.svc.opened = w.svc.opened
      /\ v.svc.captured = w.svc.captured /\ v.svc.lapsed = w.svc.lapsed
      /\ v.svc.mixed = w.svc.mixed
  BY <1>3
<1>5. v.sess.id \in Nat /\ v.svc.sessions \in Nat /\ v.sess.id # 0
  BY <1>1, <1>2, <1>3
<1>6. \A f \in WorldFields \ {"sess", "drags", "note", "svc"} : v[f] = w[f]
  BY <1>3
<1>7. Data(w, v) /\ v.del = w.del /\ v.x = w.x
  BY <1>2, <1>3, <1>4, <1>5, <1>6, SessSet
<1>8. Held(w) => /\ w.sess.target = None /\ Held(v)
                 /\ Excused(v) \/ v.del.handler = 0
  BY <1>2, <1>3, <1>4, <1>5, <1>7 DEF Held, Claims, SessOk, NoWindow, Excused, GrabClaim,
                                      RegionClaim, HandlerClaim
<1>9. v.sess.target = None
  BY <1>2, <1>3
<1>10. Tends(w, v)
  BY <1>4, <1>7, <1>8, <1>9, OwedBy DEF Tends, Owned
<1>11. /\ Answers(w, v) /\ v.sess.id # 0 /\ v.sess.handler /\ v.sess.target = None
       /\ IsWorld(v) /\ ~v.sess.grabbed /\ ~v.sess.region
  BY <1>2, <1>3, <1>4, <1>5, <1>9, <1>10, SameNoteAnswers, TendsWorld
<1> QED
  BY <1>4, <1>7, <1>8, <1>11, Zenon DEF v, n

\* set_edit_handler() for the session that is responsible for it.
LEMMA HandlerSetOk ==
    ASSUME NEW w, IsWorld(w), w.sess.handler
    PROVE  LET v == SetEditHandler(w, w.sess.id)
           IN  /\ Answers(w, v) /\ v.sess = w.sess /\ IsWorld(v)
               /\ Data(w, v) /\ v.drags = w.drags /\ v.note = w.note /\ v.svc = w.svc
               /\ Held(w) => Held(v)
               /\ ~v.ok => v.del.handler = w.del.handler
               /\ v.ok => v.del.surface # "bogus"
<1> DEFINE v == SetEditHandler(w, w.sess.id)
<1>1. w.sess.id \in Nat
  BY DEF IsWorld
<1>2. /\ Data(w, v) /\ v.svc = w.svc /\ v.sess = w.sess /\ v.drags = w.drags
      /\ v.note = w.note /\ v.del.surface = w.del.surface
      /\ v.del.region = w.del.region /\ v.del.grabbed = w.del.grabbed
      /\ v.x = w.x /\ v.del.screen = w.del.screen
      /\ v.ok => v.del.handler = w.sess.id /\ v.del.surface # "bogus"
      /\ ~v.ok => v.del.handler = w.del.handler
  BY <1>1, SetHandlerOk
<1> HIDE DEF v
<1>3. Held(w) => Held(v)
  BY <1>2 DEF Held, Claims, SessOk, NoWindow, Excused, GrabClaim, RegionClaim, HandlerClaim
<1>4. Tends(w, v)
  BY <1>2, <1>3, OwedBy DEF Tends, Owned
<1> QED
  BY <1>2, <1>3, <1>4, SameNoteAnswers, TendsWorld DEF v

\* The session is live; whether a capture is mixed with it is remembered.
LEMMA LiveOk ==
    ASSUME NEW w, IsWorld(w), w.sess.id # 0, NEW captured
    PROVE  Answers(w, [w EXCEPT !.sess.live = TRUE, !.svc.mixed = @ \/ captured])
<1> DEFINE v == [w EXCEPT !.sess.live = TRUE, !.svc.mixed = @ \/ captured]
<1>1. DOMAIN w = WorldFields /\ DOMAIN w.svc = DOMAIN NoService /\ w.svc.sessions \in Nat
      /\ DOMAIN w.sess = DOMAIN NoSession /\ w.sess.id \in Nat
  BY DEF IsWorld
<1>2. /\ DOMAIN v = WorldFields /\ \A f \in WorldFields \ {"sess", "svc"} : v[f] = w[f]
      /\ DOMAIN v.sess = DOMAIN NoSession /\ v.sess.live = TRUE
      /\ \A f \in DOMAIN NoSession \ {"live"} : v.sess[f] = w.sess[f]
      /\ DOMAIN v.svc = DOMAIN NoService /\ (w.svc.mixed => v.svc.mixed)
      /\ \A f \in DOMAIN NoService \ {"mixed"} : v.svc[f] = w.svc[f]
  BY <1>1
<1> HIDE DEF v
<1>3. /\ v.drags = w.drags /\ v.note = w.note
      /\ v.sess.id = w.sess.id /\ v.sess.target = w.sess.target
      /\ v.sess.grabbed = w.sess.grabbed /\ v.sess.region = w.sess.region
      /\ v.sess.handler = w.sess.handler
      /\ v.svc.desync = w.svc.desync /\ v.svc.opened = w.svc.opened
      /\ v.svc.captured = w.svc.captured /\ v.svc.lapsed = w.svc.lapsed
      /\ v.svc.sessions = w.svc.sessions
  BY <1>2
<1>4. \A f \in WorldFields \ {"sess", "drags", "note", "svc"} : v[f] = w[f]
  BY <1>2
<1>5. Data(w, v) /\ v.del = w.del /\ v.x = w.x
  BY <1>1, <1>2, <1>3, <1>4, SessSet
<1>6. Held(w) => Held(v)
  BY <1>2, <1>3, <1>5 DEF Held, Claims, SessOk, NoWindow, Excused, GrabClaim,
                          RegionClaim, HandlerClaim
<1>7. Tends(w, v)
  BY <1>3, <1>5, <1>6, OwedBy DEF Tends, Owned
<1> QED
  BY <1>3, <1>7, SameNoteAnswers DEF v

\* A session taken back in the middle of start_edit() leaves nothing: it holds nothing
\* any more, or its window is bogus and it never held anything.
LEMMA TakeBackOk ==
    ASSUME NEW w, NEW m, IsWorld(m), Data(w, m), m.drags = w.drags, m.note = w.note,
           m.sess.target = None, Held(w) => Held(m) /\ w.sess.target = None,
           m.del.surface = "bogus" => /\ ~m.sess.grabbed /\ ~m.sess.region
                                      /\ Held(w) => Excused(m) \/ m.del.handler = 0
    PROVE  Answers(w, [OrElse(Stop(m), Stop) EXCEPT !.sess = NoSession])
<1> DEFINE b == OrElse(Stop(m), Stop)
           v == [b EXCEPT !.sess = NoSession]
<1>1. /\ Minds(m, b) /\ IsWorld(b)
      /\ b.ok \/ m.del.surface = "bogus"
      /\ b.ok => ~b.sess.grabbed /\ ~b.sess.region /\ ~b.sess.handler
      /\ b.sess.grabbed => m.sess.grabbed
      /\ b.sess.region => m.sess.region
      /\ b.del.handler \in {0, m.del.handler}
  BY StopTwiceOk, MindsWorld
<1> HIDE DEF b
<1>2. ~b.sess.grabbed /\ ~b.sess.region
  BY <1>1
<1>3. /\ Data(b, v) /\ v.sess = NoSession /\ v.drags = b.drags /\ v.note = b.note
      /\ ~b.sess.handler => Minds(b, v)
      /\ Held(b) /\ (Excused(b) \/ b.del.handler = 0) => Held(v)
  BY <1>1, <1>2, ForgetOk
<1> HIDE DEF v
<1>4. Data(w, v) /\ v.drags = w.drags /\ v.note = w.note /\ v.sess.target = None
  BY <1>1, <1>3, DataTrans DEF Minds
<1>5. ASSUME Held(w) PROVE Held(v)
  <2>1. Held(b)
    BY <1>1, <1>5 DEF Minds
  <2>2. CASE b.ok
    BY <1>1, <1>3, <2>1, <2>2 DEF Minds
  <2>3. CASE ~b.ok
    <3>1. Excused(b) \/ b.del.handler = 0
      BY <1>1, <1>5, <2>3 DEF Minds, Excused
    <3> QED
      BY <1>3, <2>1, <3>1
  <2> QED
    BY <2>2, <2>3
<1>6. Tends(w, v)
  BY <1>4, <1>5, OwedBy DEF Tends, Owned
<1> QED
  BY <1>4, <1>6, SameNoteAnswers DEF v, b

\* start_edit().
LEMMA StartEditOk ==
    ASSUME NEW w, IsWorld(w), NEW ids
    PROVE  Answers(w, StartEdit(w, ids))
<1> DEFINE t == Terminate(w)
           r == RecoverBestEffort(t)
           s == Snapshot(r)
           fit == /\ ids \subseteq DOMAIN s.scene.live
                  /\ \A id \in ids : s.scene.live[id].shape.kind \notin {"animated", "foreign"}
           q == [s EXCEPT !.svc.sessions = @ + 1,
                          !.sess = [NoSession EXCEPT !.id = s.svc.sessions + 1,
                                       !.editable = ids, !.handler = TRUE]]
           h == SetEditHandler(q, q.sess.id)
           m == IF h.ok THEN RefreshRegion(h) ELSE h
           on == [m EXCEPT !.sess.live = TRUE, !.svc.mixed = @ \/ w.svc.captured]
           back == [OrElse(Stop(m), Stop) EXCEPT !.sess = NoSession]
           z == IF fit THEN (IF m.ok THEN on ELSE back) ELSE s
           v == StartEdit(w, ids)
<1>1. v = IF w.sess.live THEN w ELSE IF t.ok THEN z ELSE t
  BY Zenon DEF StartEdit, Then, Either
<1> HIDE DEF v
<1>2. CASE w.sess.live
  BY <1>1, <1>2, ServesSelf, ServesAnswers DEF v
<1>3. CASE ~w.sess.live
  <2>1. Answers(w, t) /\ IsWorld(t) /\ (t.ok => t.sess.id = 0)
    <3>1. Held(w) => w.sess.target = None
      BY <1>3 DEF Held, SessOk
    <3>2. Tends(w, t)
      BY <3>1, TerminateTends
    <3>3. t.note = w.note /\ (t.ok => t.sess.id = 0)
      BY TerminateOk DEF Minds
    <3> QED
      BY <3>2, <3>3, SameNoteAnswers, TendsWorld
  <2> HIDE DEF t
  <2>2. Serves(t, r)
    BY <2>1, RecoverBestOk
  <2>3. Answers(t, r) /\ IsWorld(r) /\ r.sess = t.sess
    BY <2>2, ServesAnswers, AnswersWorld, ServesTends
  <2> HIDE DEF r
  <2>4. Serves(r, s)
    BY <2>3, SnapshotOk
  <2>5. Answers(r, s) /\ IsWorld(s) /\ s.sess = r.sess
    BY <2>4, ServesAnswers, AnswersWorld, ServesTends
  <2> HIDE DEF s
  <2>6. Answers(w, s)
    BY <2>1, <2>3, <2>5, AnswersTrans
  <2>7. ASSUME t.ok, fit PROVE Answers(s, IF m.ok THEN on ELSE back)
    <3>1. s.sess.id = 0
      BY <2>1, <2>3, <2>5, <2>7
    <3>2. /\ Answers(s, q) /\ q.sess.id # 0 /\ q.sess.handler
          /\ q.sess.target = None /\ IsWorld(q) /\ q.del = s.del
          /\ ~q.sess.grabbed /\ ~q.sess.region
          /\ Data(s, q) /\ q.drags = s.drags /\ q.note = s.note
          /\ Held(s) => /\ s.sess.target = None /\ Held(q)
                        /\ Excused(q) \/ q.del.handler = 0
      BY <2>5, <3>1, SessionOk, ZenonT(60)
    <3> HIDE DEF q, fit
    <3>3. /\ Answers(q, h) /\ h.sess = q.sess /\ IsWorld(h)
          /\ Data(q, h) /\ h.drags = q.drags /\ h.note = q.note /\ h.svc = q.svc
          /\ Held(q) => Held(h)
          /\ ~h.ok => h.del.handler = q.del.handler
          /\ h.ok => h.del.surface # "bogus"
      BY <3>2, HandlerSetOk
    <3> HIDE DEF h
    <3>4. CASE ~h.ok
      <4>1. m = h
        BY <3>4
      <4>2. Data(s, h) /\ h.drags = s.drags /\ h.note = s.note
        BY <3>2, <3>3, DataTrans
      <4>3. Held(s) => /\ s.sess.target = None /\ Held(h)
                       /\ Excused(h) \/ h.del.handler = 0
        BY <3>2, <3>3, <3>4 DEF Excused
      <4>4. Answers(s, [OrElse(Stop(h), Stop) EXCEPT !.sess = NoSession])
        BY <3>2, <3>3, <4>2, <4>3, TakeBackOk
      <4>5. back = [OrElse(Stop(h), Stop) EXCEPT !.sess = NoSession]
        BY <4>1
      <4> HIDE DEF m, back, on
      <4> QED
        BY <3>4, <4>1, <4>4, <4>5
    <3>5. CASE h.ok
      <4>1. /\ Minds(h, RefreshRegion(h))
            /\ RefreshRegion(h).sess.id = h.sess.id
            /\ RefreshRegion(h).sess.target = h.sess.target
            /\ RefreshRegion(h).del.surface = h.del.surface
        BY <3>2, <3>3, RefreshRegionOk
      <4>2. m = RefreshRegion(h)
        BY <3>5
      <4> HIDE DEF m
      <4>3. Tends(h, m) /\ m.note = h.note /\ IsWorld(m)
        BY <4>1, <4>2, <3>3, MindsTends, MindsWorld DEF Minds
      <4>4. Answers(s, m)
        BY <3>2, <3>3, <4>3, SameNoteAnswers, AnswersTrans
      <4>5. Answers(m, on)
        BY <3>2, <3>3, <4>1, <4>2, <4>3, LiveOk, Zenon
      <4>6. Data(m, m) /\ m.sess.target = None /\ m.del.surface # "bogus"
        BY <3>2, <3>3, <3>5, <4>1, <4>2, <4>3, TendsSelf DEF Tends
      <4>7. Answers(m, back)
        BY <4>3, <4>6, TakeBackOk, Zenon
      <4> HIDE DEF on, back
      <4> QED
        BY <4>4, <4>5, <4>7, AnswersTrans
    <3> QED
      BY <3>4, <3>5
  <2> HIDE DEF on, back, fit, m
  <2>8. t.ok => Answers(w, z)
    BY <2>6, <2>7, AnswersTrans
  <2> HIDE DEF z
  <2> QED
    BY <1>1, <1>3, <2>1, <2>8 DEF v
<1> QED
  BY <1>2, <1>3

\* release_pointer_locked() of a capture.
LEMMA ReleaseCaptureOk ==
    ASSUME NEW w, IsWorld(w)
    PROVE  Answers(w, ReleaseCapture(w))
<1> DEFINE u == UngrabPointer(w)
           r == SetInputRegion(u, "none")
           a == [r EXCEPT !.ok = r.ok /\ u.ok]
           d == [a EXCEPT !.svc.captured = FALSE, !.svc.lapsed = @ \/ ~a.ok]
           v == ReleaseCapture(w)
<1>1. v = IF ~w.svc.captured THEN w ELSE d
  BY Zenon DEF ReleaseCapture, Also
<1>2. /\ Input(w, u) /\ u.del.handler = w.del.handler /\ u.del.region = w.del.region
      /\ u.x.region = w.x.region /\ u.del.screen = w.del.screen
      /\ u.x.grab => w.x.grab /\ u.del.grabbed = w.del.grabbed
      /\ u.ok /\ (w.x.grab => w.del.grabbed) => ~u.x.grab
  BY UngrabOk
<1>3. IsWorld(u) /\ u.ok \in BOOLEAN
  BY <1>2 DEF Input, Data, IsWorld
<1> HIDE DEF u, v
<1>4. /\ Input(u, r) /\ r.del.handler = u.del.handler /\ r.del.grabbed = u.del.grabbed
      /\ r.x.grab = u.x.grab
      /\ NoWindow(u) => NoWindow(r)
      /\ r.ok => r.del.region = "none" /\ (NoWindow(u) => r.x.region = "none")
      /\ ~r.ok => r.del.region = u.del.region /\ r.x.region = u.x.region
  BY <1>3, SetRegionOk
<1>5. IsWorld(r) /\ r.ok \in BOOLEAN
  BY <1>4 DEF Input, Data, IsWorld
<1> HIDE DEF r
<1>6. /\ Minds(r, a) /\ a.ok = (r.ok /\ u.ok) /\ a.sess = r.sess /\ a.del = r.del
      /\ a.x = r.x /\ IsWorld(a)
  BY <1>3, <1>5, OutcomeMinds, MindsWorld
<1> HIDE DEF a
<1>7. /\ Data(a, d) /\ d.del = a.del /\ d.x = a.x /\ d.sess = a.sess /\ d.drags = a.drags
      /\ d.note = a.note /\ d.svc.captured = FALSE
      /\ d.svc.lapsed = (a.svc.lapsed \/ ~a.ok) /\ d.svc.mixed = a.svc.mixed
  <2>1. DOMAIN a = WorldFields /\ DOMAIN a.svc = DOMAIN NoService /\ a.svc.sessions \in Nat
        /\ DOMAIN a.sess = DOMAIN NoSession /\ a.sess.id \in Nat
    BY <1>6 DEF IsWorld
  <2>2. /\ DOMAIN d = WorldFields /\ \A f \in WorldFields \ {"svc"} : d[f] = a[f]
        /\ DOMAIN d.svc = DOMAIN NoService /\ d.svc.captured = FALSE
        /\ d.svc.lapsed = (a.svc.lapsed \/ ~a.ok)
        /\ \A f \in DOMAIN NoService \ {"captured", "lapsed"} : d.svc[f] = a.svc[f]
    BY <2>1
  <2> HIDE DEF d
  <2>3. /\ d.svc.sessions = a.svc.sessions /\ d.svc.desync = a.svc.desync
        /\ d.svc.opened = a.svc.opened /\ d.svc.mixed = a.svc.mixed
        /\ d.sess = a.sess /\ d.drags = a.drags /\ d.note = a.note
    BY <2>2
  <2>4. \A f \in WorldFields \ {"sess", "drags", "note", "svc"} : d[f] = a[f]
    BY <2>2
  <2>5. Data(a, d) /\ d.del = a.del /\ d.x = a.x
    BY <1>6, <2>1, <2>2, <2>3, <2>4, SessSet
  <2> QED
    BY <2>2, <2>3, <2>5
<1> HIDE DEF d
<1>8. Data(w, d)
  BY <1>2, <1>4, <1>6, <1>7, DataTrans DEF Input, Minds
<1>9. /\ d.sess = w.sess /\ d.drags = w.drags /\ d.note = w.note
      /\ d.svc.mixed = w.svc.mixed /\ (w.svc.lapsed => d.svc.lapsed)
      /\ d.del = r.del /\ d.x = r.x /\ r.del.surface = w.del.surface
      /\ ~d.svc.lapsed => r.ok /\ u.ok
  <2>1. u.svc = w.svc /\ u.sess = w.sess /\ u.drags = w.drags /\ u.note = w.note
        /\ u.del.surface = w.del.surface
    BY <1>2 DEF Input
  <2>2. r.svc = u.svc /\ r.sess = u.sess /\ r.drags = u.drags /\ r.note = u.note
        /\ r.del.surface = u.del.surface
    BY <1>4 DEF Input
  <2>3. a.svc = r.svc /\ a.drags = r.drags /\ a.note = r.note
    BY <1>6 DEF Minds
  <2> QED
    BY <2>1, <2>2, <2>3, <1>6, <1>7
<1>10. ASSUME Held(w) PROVE Held(d)
  <2>1. NoWindow(w) /\ SessOk(w)
    BY <1>10 DEF Held, Claims
  <2>2. NoWindow(u)
    BY <1>2, <2>1 DEF NoWindow, Input
  <2>3. NoWindow(d) /\ SessOk(d)
    BY <1>4, <1>9, <2>1, <2>2 DEF NoWindow, SessOk
  <2>4. ASSUME ~Excused(d) PROVE GrabClaim(d) /\ RegionClaim(d) /\ HandlerClaim(d)
    <3>1. ~Excused(w) /\ r.ok /\ u.ok
      BY <1>9, <2>4 DEF Excused
    <3>2. GrabClaim(w) /\ HandlerClaim(w)
      BY <3>1, <1>10 DEF Held, Claims
    <3>3. ~d.x.grab
      BY <3>1, <3>2, <1>2, <1>4, <1>9 DEF GrabClaim
    <3>4. d.del.region = "none" /\ d.x.region = "none"
      BY <3>1, <2>2, <1>4, <1>9
    <3>5. d.del.handler = w.del.handler
      BY <1>2, <1>4, <1>9
    <3> QED
      BY <3>2, <3>3, <3>4, <3>5, <1>9 DEF GrabClaim, RegionClaim, HandlerClaim
  <2> QED
    BY <2>3, <2>4 DEF Held, Claims
<1>11. Tends(w, d)
  BY <1>8, <1>9, <1>10, OwedBy DEF Tends, Owned
<1>12. Answers(w, d)
  BY <1>9, <1>11, SameNoteAnswers
<1> QED
  BY <1>1, <1>12, ServesSelf, ServesAnswers DEF v

\* capture_pointer().
LEMMA CaptureOk ==
    ASSUME NEW w, IsWorld(w)
    PROVE  Answers(w, Capture(w))
<1> DEFINE i == SetInputRegion(w, "full")
           b == [i EXCEPT !.svc.captured = TRUE, !.svc.mixed = @ \/ w.sess.id # 0]
           g == GrabPointer(b)
           v == Capture(w)
<1>1. v = IF w.svc.captured THEN w ELSE
              IF i.ok THEN (IF g.ok THEN g ELSE ReleaseCapture(g)) ELSE i
  BY Zenon DEF Capture, Then, OrElse
<1>2. /\ Data(w, i) /\ i.svc = w.svc /\ i.sess = w.sess /\ i.drags = w.drags
      /\ i.note = w.note /\ i.del.surface = w.del.surface
      /\ i.del.handler = w.del.handler /\ i.del.grabbed = w.del.grabbed
      /\ i.x.grab = w.x.grab
      /\ NoWindow(w) => NoWindow(i)
      /\ ~i.ok => i.del.region = w.del.region /\ i.x.region = w.x.region
  BY SetRegionOk
<1>3. IsWorld(i)
  BY <1>2 DEF Data
<1> HIDE DEF i, v
<1>4. ~i.ok => Answers(w, i)
  <2>1. ~i.ok /\ Held(w) => Held(i)
    BY <1>2 DEF Held, Claims, SessOk, NoWindow, Excused, GrabClaim, RegionClaim, HandlerClaim
  <2>2. ~i.ok => Tends(w, i)
    BY <2>1, <1>2, OwedBy DEF Tends, Owned
  <2> QED
    BY <2>2, <1>2, SameNoteAnswers
<1>5. /\ Data(i, b) /\ b.del = i.del /\ b.x = i.x /\ b.sess = i.sess /\ b.drags = i.drags
      /\ b.note = i.note /\ b.svc.captured = TRUE
      /\ b.svc.lapsed = i.svc.lapsed /\ (i.svc.mixed => b.svc.mixed)
  <2>1. DOMAIN i = WorldFields /\ DOMAIN i.svc = DOMAIN NoService /\ i.svc.sessions \in Nat
        /\ DOMAIN i.sess = DOMAIN NoSession /\ i.sess.id \in Nat
    BY <1>3 DEF IsWorld
  <2>2. /\ DOMAIN b = WorldFields /\ \A f \in WorldFields \ {"svc"} : b[f] = i[f]
        /\ DOMAIN b.svc = DOMAIN NoService /\ b.svc.captured = TRUE
        /\ (i.svc.mixed => b.svc.mixed)
        /\ \A f \in DOMAIN NoService \ {"captured", "mixed"} : b.svc[f] = i.svc[f]
    BY <2>1
  <2> HIDE DEF b
  <2>3. /\ b.svc.sessions = i.svc.sessions /\ b.svc.desync = i.svc.desync
        /\ b.svc.opened = i.svc.opened /\ b.svc.lapsed = i.svc.lapsed
        /\ b.sess = i.sess /\ b.drags = i.drags /\ b.note = i.note
    BY <2>2
  <2>4. \A f \in WorldFields \ {"sess", "drags", "note", "svc"} : b[f] = i[f]
    BY <2>2
  <2>5. Data(i, b) /\ b.del = i.del /\ b.x = i.x
    BY <1>3, <2>1, <2>2, <2>3, <2>4, SessSet
  <2> QED
    BY <2>2, <2>3, <2>5
<1> HIDE DEF b
<1>6. IsWorld(b)
  BY <1>5 DEF Data
<1>7. Held(w) => Held(b)
  BY <1>2, <1>5 DEF Held, Claims, SessOk, NoWindow, Excused, GrabClaim, RegionClaim,
                    HandlerClaim
<1>8. /\ Data(b, g) /\ g.svc = b.svc /\ g.sess = b.sess /\ g.drags = b.drags
      /\ g.note = b.note /\ g.del.surface = b.del.surface
      /\ g.del.handler = b.del.handler /\ g.del.region = b.del.region
      /\ g.x.region = b.x.region /\ g.del.screen = b.del.screen
      /\ (b.x.grab => b.del.grabbed) => (g.x.grab => g.del.grabbed)
  BY <1>6, GrabOk
<1> HIDE DEF g
<1>9. Held(b) => Held(g)
  BY <1>5, <1>8 DEF Held, Claims, SessOk, NoWindow, Excused, GrabClaim, RegionClaim,
                    HandlerClaim
<1>10. Answers(w, g) /\ IsWorld(g)
  <2>1. Data(w, g)
    BY <1>2, <1>5, <1>8, DataTrans
  <2>2. g.drags = w.drags /\ g.note = w.note /\ g.sess = w.sess
    BY <1>2, <1>5, <1>8
  <2>3. Tends(w, g)
    BY <2>1, <2>2, <1>7, <1>9, OwedBy DEF Tends, Owned
  <2> QED
    BY <2>2, <2>3, SameNoteAnswers, TendsWorld
<1>11. Answers(w, ReleaseCapture(g))
  BY <1>10, ReleaseCaptureOk, AnswersTrans
<1> QED
  BY <1>1, <1>4, <1>10, <1>11, ServesSelf, ServesAnswers DEF v

-----------------------------------------------------------------------------
(* handle_wakeup().                                                        *)

\* The wakeup is spent; the delegate has to set another one.
LEMMA SpentWakeOk ==
    ASSUME NEW w, IsWorld(w)
    PROVE  LET a == [w EXCEPT !.del.wake = Never]
           IN  /\ IsWorld(a) /\ a.now = w.now /\ a.bad = w.bad /\ a.flushed = w.flushed
               /\ a.svc = w.svc /\ a.x = w.x
               /\ InStep(w, View(w.scene)) => InStep(a, View(a.scene))
               /\ Shown(w) => Shown(a)
               /\ Owned(w) => Owned(a)
               /\ Hushed(w) => Hushed(a)
<1> DEFINE a == [w EXCEPT !.del.wake = Never]
<1>1. DOMAIN w = WorldFields /\ DOMAIN w.del = DOMAIN ClosedDelegate
  BY DEF IsWorld
<1>2. /\ DOMAIN a = WorldFields /\ \A f \in WorldFields \ {"del"} : a[f] = w[f]
      /\ DOMAIN a.del = DOMAIN ClosedDelegate /\ a.del.wake = Never
      /\ \A f \in DOMAIN ClosedDelegate \ {"wake"} : a.del[f] = w.del[f]
  BY <1>1
<1> HIDE DEF a
<1>3. /\ a.now = w.now /\ a.topo = w.topo /\ a.scene = w.scene /\ a.sess = w.sess
      /\ a.posted = w.posted /\ a.x = w.x /\ a.drags = w.drags /\ a.flushed = w.flushed
      /\ a.told = w.told /\ a.note = w.note /\ a.bad = w.bad
      /\ a.calls = w.calls /\ a.ok = w.ok /\ a.svc = w.svc
  BY <1>2
<1>4. /\ a.del.state = w.del.state /\ a.del.shapes = w.del.shapes
      /\ a.del.epoch = w.del.epoch /\ a.del.revision = w.del.revision
      /\ a.del.mapped = w.del.mapped /\ a.del.presented = w.del.presented
      /\ a.del.dirty = w.del.dirty /\ a.del.screen = w.del.screen
      /\ a.del.revived = w.del.revived /\ a.del.surface = w.del.surface
      /\ a.del.grabbed = w.del.grabbed /\ a.del.region = w.del.region
      /\ a.del.handler = w.del.handler /\ a.del.window = w.del.window
      /\ a.del.looked = w.del.looked
  BY <1>2
<1>5. IsWorld(a)
  BY <1>2, <1>3, <1>4 DEF IsWorld, Never
<1>6. /\ InStep(w, View(w.scene)) => InStep(a, View(a.scene))
      /\ Shown(w) => Shown(a)
  BY <1>3, <1>4 DEF InStep, Mirrors, Shown
<1>7. Held(w) => Held(a)
  BY <1>3, <1>4 DEF Held, Claims, SessOk, NoWindow, Excused, GrabClaim, RegionClaim,
                    HandlerClaim
<1>8. Owned(w) => Owned(a)
  BY <1>3, <1>7, OwedBy DEF Owned
<1>9. Hushed(w) => Hushed(a)
  BY <1>3, Zenon DEF Hushed
<1> QED
  BY <1>3, <1>5, <1>6, <1>8, <1>9 DEF a

\* The look for the next wakeup after a frame, at a later reading of the clock.
LEMMA NextOk ==
    ASSUME NEW w, IsWorld(w), NEW t \in 0 .. MaxTime, w.now <= t, w.del.state = "synced",
           ~w.del.dirty, w.del.screen = Render(w.del.shapes, w.now)
    PROVE  LET v == ScheduleNext(w, t)
           IN  /\ Carried(w, v) /\ Woken(v) /\ (Hushed(w) => Hushed(v))
               /\ v.flushed = w.flushed
<1> DEFINE n == [w EXCEPT !.now = t, !.del.looked = t]
           v == ScheduleNext(w, t)
<1>1. DOMAIN w = WorldFields /\ DOMAIN w.del = DOMAIN ClosedDelegate /\ w.del.wake \in Nat
      /\ t \in Nat
  BY OverlayAssumption DEF IsWorld
<1>2. /\ DOMAIN n = WorldFields /\ n.now = t /\ DOMAIN n.del = DOMAIN ClosedDelegate
      /\ \A f \in WorldFields \ {"now", "del"} : n[f] = w[f]
      /\ \A f \in DOMAIN ClosedDelegate \ {"looked"} : n.del[f] = w.del[f]
      /\ n.del.looked = t
  BY <1>1
<1>3. v = ScheduleWakeup(n)
  BY DEF ScheduleNext
<1> HIDE DEF n, v
<1>4. n.del.wake \in Nat /\ n.del.looked \in Nat /\ n.del.looked <= n.now
  BY <1>1, <1>2
<1>5. IsWorld(n)
  BY <1>2, <1>4, TimeOk
<1>6. /\ Outside(n, v) /\ DOMAIN v = WorldFields /\ DOMAIN v.del = DOMAIN n.del
      /\ \A f \in DOMAIN n.del \ {"wake"} : v.del[f] = n.del[f]
      /\ v.del.wake \in Nat
      /\ n.del.state # "closed" =>
            /\ n.del.dirty => v.del.wake # Never
            /\ \A id \in DOMAIN n.del.shapes :
                  n.now < Deadline(n.del.shapes[id]) /\ Deadline(n.del.shapes[id]) # Never
                      => v.del.wake # Never
  BY <1>3, <1>5, ScheduleOk
<1>7. /\ v.now = t /\ v.del.looked = t /\ v.svc = w.svc /\ v.flushed = w.flushed
      /\ v.del.shapes = w.del.shapes /\ v.del.screen = w.del.screen
      /\ v.del.dirty = w.del.dirty /\ v.del.state = w.del.state
      /\ n.del.shapes = w.del.shapes /\ n.del.state = w.del.state
  BY <1>2, <1>6 DEF Outside
<1>8. /\ \A f \in WorldFields \ {"now", "del"} : v[f] = w[f]
      /\ \A f \in DOMAIN ClosedDelegate \ {"wake", "looked"} : v.del[f] = w.del[f]
      /\ v.del.looked \in Nat /\ v.del.looked <= v.now /\ v.now \in 0 .. MaxTime
      /\ w.now <= v.now /\ DOMAIN v.del = DOMAIN ClosedDelegate
  BY <1>1, <1>2, <1>6, <1>7 DEF Outside
<1>9. /\ IsWorld(v) /\ (InStep(w, View(w.scene)) => InStep(v, View(v.scene)))
      /\ (Shown(w) => Shown(v)) /\ (Owned(w) => Owned(v)) /\ (Hushed(w) => Hushed(v))
  BY <1>6, <1>8, TimeOk
<1>10. Woken(v)
  <2>1. \A id \in DOMAIN w.del.screen :
            id \in DOMAIN w.del.shapes /\ w.del.screen[id] = w.del.shapes[id]
    BY DEF Render, Restrict
  <2>2. \A id \in DOMAIN w.del.shapes :
            t < Deadline(w.del.shapes[id]) /\ Deadline(w.del.shapes[id]) # Never
                => v.del.wake # Never
    BY <1>2, <1>6, <1>7
  <2> QED
    BY <2>1, <2>2, <1>7 DEF Woken
<1> QED
  BY <1>7, <1>9, <1>10 DEF Carried, Keeps, v

\* handle_wakeup(): the frame it shows, or the one it schedules.
LEMMA WakeupOk ==
    ASSUME NEW w, IsWorld(w), NEW later \in 0 .. MaxTime, w.now <= later
    PROVE  LET v == Wakeup(w, later)
           IN  /\ IsWorld(v) /\ Keeps(w, v) /\ (Owned(w) => Owned(v))
               /\ (Hushed(w) => Hushed(v))
               /\ v.svc.opened = w.svc.opened /\ v.flushed = w.flushed
<1> DEFINE a == [w EXCEPT !.del.wake = Never]
           d == DrainEvents(a, All(w), DrainDirect)
           p == PresentTick(d)
           s == ScheduleNext(p, later)
           v == Wakeup(w, later)
           Well(u) == /\ Carried(a, u) /\ Woken(u) /\ (Hushed(a) => Hushed(u))
                      /\ u.flushed = a.flushed
<1>1. v = IF d.del.state # "synced" THEN d ELSE IF p.ok THEN s ELSE Desync(p)
  BY Zenon DEF Wakeup, Either
<1>2. /\ IsWorld(a) /\ a.now = w.now /\ a.flushed = w.flushed
      /\ a.svc = w.svc
      /\ InStep(w, View(w.scene)) => InStep(a, View(a.scene))
      /\ Shown(w) => Shown(a)
      /\ Owned(w) => Owned(a)
      /\ Hushed(w) => Hushed(a)
  BY SpentWakeOk
<1> HIDE DEF a, v
<1>3. Answers(a, d) /\ IsWorld(d)
  BY <1>2, QueueLength, DrainAloud
<1> HIDE DEF d
<1>4. d.now = w.now /\ d.flushed = a.flushed /\ Carried(a, d) /\ (Hushed(a) => Hushed(d))
  BY <1>2, <1>3, TendsCarried DEF Answers, Tends, Data
<1>5. /\ Serves(d, p) /\ p.del.state = d.del.state /\ p.del.shapes = d.del.shapes
      /\ p.ok => ~p.del.dirty /\ p.del.screen = Render(d.del.shapes, d.now)
  BY <1>3, PresentOk
<1> HIDE DEF p
<1>6. /\ IsWorld(p) /\ p.now = d.now /\ p.flushed = a.flushed /\ Carried(a, p)
      /\ (Hushed(a) => Hushed(p))
  <2>1. IsWorld(p) /\ p.now = d.now /\ p.flushed = d.flushed
    BY <1>5 DEF Serves, Eases, Beyond
  <2>2. Carried(a, p)
    BY <1>3, <1>4, <1>5, TendsCarried, CarriedTrans
  <2>3. Hushed(d) => Hushed(p)
    BY <1>3, <1>5, ServesAnswers DEF Answers
  <2> QED
    BY <1>4, <2>1, <2>2, <2>3
<1>7. Well(Desync(p))
  <2>1. /\ Desync(p).del.state = "desynced" /\ Serves(p, Desync(p))
    BY <1>6, DesyncOk, DesyncServes
  <2>2. Woken(Desync(p))
    BY <2>1 DEF Woken
  <2>3. Desync(p).flushed = p.flushed
    BY <2>1 DEF Serves, Eases, Beyond
  <2>4. Carried(a, Desync(p))
    BY <1>6, <2>1, TendsCarried, CarriedTrans
  <2>5. Hushed(p) => Hushed(Desync(p))
    BY <1>6, <2>1, ServesAnswers DEF Answers
  <2> QED
    BY <1>6, <2>2, <2>3, <2>4, <2>5
<1>8. ASSUME p.ok, d.del.state = "synced" PROVE Well(s)
  <2>1. /\ p.now <= later /\ p.del.state = "synced" /\ ~p.del.dirty
        /\ p.del.screen = Render(p.del.shapes, p.now)
    BY <1>4, <1>5, <1>6, <1>8
  <2>2. Carried(p, s) /\ Woken(s) /\ (Hushed(p) => Hushed(s)) /\ s.flushed = p.flushed
    BY <1>6, <2>1, NextOk
  <2> HIDE DEF s
  <2> QED
    BY <1>6, <2>2, CarriedTrans
<1>9. ASSUME d.del.state # "synced" PROVE Well(d)
  <2>1. Woken(d)
    BY <1>9 DEF Woken
  <2> QED
    BY <1>4, <2>1
<1> HIDE DEF s
<1>10. Well(v)
  BY <1>1, <1>7, <1>8, <1>9
<1> QED
  BY <1>2, <1>10 DEF Carried, Keeps, v

-----------------------------------------------------------------------------
(* create() and ~OverlayService().                                         *)

\* Until create() has succeeded and after the end there is nothing to show,
Asleep(w) ==
    ~w.svc.opened => /\ ~w.svc.desync /\ w.del.epoch = None /\ w.del.state = "closed"
                     /\ w.del.wake = Never /\ ~w.sess.live

\* and between two handlers no window to show it on.
Unopened(w) ==
    Asleep(w) /\ (~w.svc.opened => w.del.screen = <<>> /\ w.x.region = "none")

\* create() before the delegate is open.
LEMMA BareUnopened ==
    ASSUME NEW w, NEW v, Bare(w, v), w.del.state # "synced"
    PROVE  /\ Serves(w, v)
           /\ Asleep(w) => Asleep(v)
<1>1. Keeps(w, v)
  BY DEF Bare, Keeps, InStep, Mirrors, Shown, Woken
<1>2. Asleep(w) => Asleep(v)
  BY DEF Bare, Asleep, Eases, Beyond
<1> QED
  BY <1>1, <1>2 DEF Serves, Bare

\* A delegate that has had no delta holds no record.
LEMMA NothingYet ==
    ASSUME NEW w, IsWorld(w), ~w.svc.desync, w.del.epoch = None, InStep(w, View(w.scene))
    PROVE  Mirrors(w.del, View(w.scene)) /\ w.del.shapes = Resolved(w.scene.live, w.topo)
<1>1. Mirrors(w.del, View(w.scene))
  BY DEF InStep
<1>2. w.scene.epoch \in Nat
  BY DEF IsWorld, AtRest, IsScene
<1>3. w.scene.live = <<>> /\ DOMAIN w.del.shapes = {}
  BY <1>1, <1>2, OverlayAssumption DEF Mirrors, View
<1>4. w.del.shapes = [id \in DOMAIN w.del.shapes |-> w.del.shapes[id]]
  BY DEF IsWorld, IsShapes
<1>5. w.del.shapes = Resolved(w.scene.live, w.topo)
  BY <1>3, <1>4 DEF Resolved
<1> QED
  BY <1>1, <1>5

\* open() has a mapped window, and the first frame is due.
LEMMA OpenedOk ==
    ASSUME NEW w, IsWorld(w), w.del.mapped
    PROVE  LET v == ScheduleWakeup([w EXCEPT !.del.state = "synced", !.del.dirty = TRUE,
                                             !.svc.opened = TRUE])
           IN  /\ IsWorld(v) /\ v.now = w.now /\ v.flushed = w.flushed /\ v.note = w.note
               /\ v.svc.opened /\ (Owned(w) => Owned(v))
               /\ Asleep(w) /\ ~w.svc.opened /\ InStep(w, View(w.scene)) => Sound(v)
<1> DEFINE o == [w EXCEPT !.del.state = "synced", !.del.dirty = TRUE, !.svc.opened = TRUE]
           v == ScheduleWakeup(o)
<1>1. DOMAIN w = WorldFields /\ DOMAIN w.del = DOMAIN ClosedDelegate
      /\ DOMAIN w.svc = DOMAIN NoService
  BY DEF IsWorld
<1>2. /\ DOMAIN o = WorldFields /\ \A f \in WorldFields \ {"del", "svc"} : o[f] = w[f]
      /\ DOMAIN o.del = DOMAIN ClosedDelegate /\ o.del.state = "synced"
      /\ o.del.dirty = TRUE
      /\ \A f \in DOMAIN ClosedDelegate \ {"state", "dirty"} : o.del[f] = w.del[f]
      /\ DOMAIN o.svc = DOMAIN NoService /\ o.svc.opened = TRUE
      /\ \A f \in DOMAIN NoService \ {"opened"} : o.svc[f] = w.svc[f]
  BY <1>1
<1> HIDE DEF o
<1>3. /\ o.now = w.now /\ o.topo = w.topo /\ o.scene = w.scene /\ o.sess = w.sess
      /\ o.posted = w.posted /\ o.x = w.x /\ o.drags = w.drags /\ o.flushed = w.flushed
      /\ o.told = w.told /\ o.note = w.note /\ o.bad = w.bad
      /\ o.calls = w.calls /\ o.ok = w.ok
  BY <1>2
<1>4. /\ o.del.shapes = w.del.shapes /\ o.del.wake = w.del.wake
      /\ o.del.epoch = w.del.epoch /\ o.del.revision = w.del.revision
      /\ o.del.mapped = w.del.mapped /\ o.del.presented = w.del.presented
      /\ o.del.screen = w.del.screen
      /\ o.del.revived = w.del.revived /\ o.del.surface = w.del.surface
      /\ o.del.grabbed = w.del.grabbed /\ o.del.region = w.del.region
      /\ o.del.handler = w.del.handler /\ o.del.window = w.del.window
      /\ o.del.looked = w.del.looked
  BY <1>2
<1>5. /\ o.svc.desync = w.svc.desync /\ o.svc.captured = w.svc.captured
      /\ o.svc.lapsed = w.svc.lapsed /\ o.svc.mixed = w.svc.mixed
      /\ o.svc.sessions = w.svc.sessions
  BY <1>2
<1>6. IsWorld(o)
  BY <1>2, <1>3, <1>4, <1>5 DEF IsWorld
<1>7. Held(w) => Held(o)
  BY <1>3, <1>4, <1>5 DEF Held, Claims, SessOk, NoWindow, Excused, GrabClaim, RegionClaim,
                          HandlerClaim
<1>8. Owned(w) => Owned(o)
  BY <1>3, <1>7, OwedBy DEF Owned
<1>9. /\ Eases(o, v) /\ Woken(v) /\ v.scene = o.scene
      /\ Shown(o) => Shown(v)
      /\ \A a : InStep(o, a) => InStep(v, a)
  BY <1>2, <1>6, AwakeOk
<1> HIDE DEF v
<1>10. Shown(o)
  BY <1>2, <1>4 DEF Shown
<1>11. ASSUME Asleep(w), ~w.svc.opened, InStep(w, View(w.scene))
       PROVE  InStep(o, View(o.scene))
  <2>1. Mirrors(w.del, View(w.scene)) /\ w.del.shapes = Resolved(w.scene.live, w.topo)
    BY <1>11, NothingYet DEF Asleep
  <2>2. Mirrors(o.del, View(o.scene))
    BY <2>1, <1>3, <1>4 DEF Mirrors
  <2>3. o.del.shapes = Resolved(View(o.scene).live, o.topo)
    BY <2>1, <1>3, <1>4 DEF View
  <2> QED
    BY <2>2, <2>3 DEF InStep
<1>12. Owned(o) => Owned(v)
  BY <1>9, EasesHeld, OwedBy DEF Owned, Eases, Beyond
<1>13. IsWorld(v) /\ v.now = w.now /\ v.flushed = w.flushed /\ v.note = w.note
       /\ v.svc.opened
  BY <1>2, <1>3, <1>9 DEF Eases, Beyond
<1> QED
  BY <1>8, <1>9, <1>10, <1>11, <1>12, <1>13 DEF Sound, v, o

\* A handler that has neither opened nor closed anything, or has opened it.
LEMMA CreateVerbOk ==
    ASSUME NEW w, IsWorld(w), ~w.svc.opened, Unopened(w), Sound(w), Owned(w), Hushed(w)
    PROVE  LET v == Create(w)
           IN  /\ IsWorld(v) /\ v.now = w.now /\ v.flushed = w.flushed
               /\ Sound(v) /\ Owned(v) /\ Hushed(v) /\ Unopened(v)
<1> DEFINE p == Request(w)
           c == CreateSurface(p)
           q == IF c.ok THEN Request(c) ELSE c
           m == IF q.ok THEN MapSurface(q) ELSE q
           o == ScheduleWakeup([m EXCEPT !.del.state = "synced", !.del.dirty = TRUE,
                                         !.svc.opened = TRUE])
           d == DestroySurface(m)
           v == Create(w)
<1>1. v = IF p.ok THEN (IF p.x.comp THEN (IF m.ok THEN o ELSE d) ELSE Fail(p)) ELSE p
  BY Zenon DEF Create, Then, Either
<1>2. Bare(w, p) /\ IsWorld(p) /\ p.del = w.del /\ p.x = w.x
  BY RequestBare, RequestOk, BareWorld
<1> HIDE DEF p, v
<1>3. Bare(p, c) /\ IsWorld(c)
  <2>1. p.del.screen = <<>> /\ p.x.region = "none"
    BY <1>2 DEF Unopened
  <2> QED
    BY <1>2, <2>1, CreateOk, BareWorld DEF Made
<1> HIDE DEF c
<1>4. Bare(c, q) /\ IsWorld(q)
  BY <1>3, RequestBare, SelfBare, BareWorld
<1> HIDE DEF q
<1>5. Bare(q, m) /\ IsWorld(m) /\ (q.ok /\ m.ok => m.del.mapped)
  BY <1>4, MapOk, SelfBare, BareWorld
<1>6. m.ok => m.del.mapped
  <2>1. ~q.ok => m = q
    OBVIOUS
  <2> HIDE DEF m
  <2> QED
    BY <2>1, <1>5
<1> HIDE DEF m
<1>7. Bare(m, d) /\ d.del.screen = <<>> /\ d.x.region = "none"
  BY <1>5, DestroyOk
<1>8. Bare(p, Fail(p)) /\ Fail(p).del = p.del /\ Fail(p).x = p.x
  BY <1>2, FailOk, IdleBare
<1> HIDE DEF d
<1>9. Bare(w, m) /\ Bare(w, d) /\ Bare(w, Fail(p))
  BY <1>2, <1>3, <1>4, <1>5, <1>7, <1>8, BareTrans
<1>10. ASSUME NEW u, Bare(w, u)
       PROVE  /\ IsWorld(u) /\ u.now = w.now /\ u.flushed = w.flushed
              /\ Sound(u) /\ Owned(u) /\ Hushed(u) /\ Asleep(u)
              /\ u.svc.opened = w.svc.opened /\ u.note = w.note
  <2>1. w.del.state # "synced" /\ Asleep(w)
    BY DEF Unopened, Asleep
  <2>2. Serves(w, u) /\ Asleep(u)
    BY <2>1, <1>10, BareUnopened
  <2>3. Sound(u)
    BY <2>2 DEF Sound, Serves, Keeps
  <2>4. Owned(u) /\ Hushed(u) /\ u.note = w.note
    BY <2>2, ServesTends, ServesAnswers DEF Answers, Tends
  <2> QED
    BY <2>2, <2>3, <2>4 DEF Serves, Eases, Beyond
<1>11. m.ok => /\ IsWorld(o) /\ o.now = w.now /\ o.flushed = w.flushed
               /\ Sound(o) /\ Owned(o) /\ Hushed(o) /\ Unopened(o)
  <2>1. /\ IsWorld(m) /\ m.now = w.now /\ m.flushed = w.flushed
        /\ Sound(m) /\ Owned(m) /\ Hushed(m) /\ Asleep(m) /\ ~m.svc.opened
    BY <1>9, <1>10
  <2>2. m.ok => /\ IsWorld(o) /\ o.now = m.now /\ o.flushed = m.flushed /\ o.note = m.note
                /\ o.svc.opened /\ (Owned(m) => Owned(o))
                /\ Asleep(m) /\ ~m.svc.opened /\ InStep(m, View(m.scene)) => Sound(o)
    BY <2>1, <1>6, OpenedOk, Zenon
  <2> HIDE DEF o
  <2>3. o.note = m.note => Hushed(o)
    BY <2>1, Zenon DEF Hushed
  <2> QED
    BY <2>1, <2>2, <2>3 DEF Sound, Unopened, Asleep
<1> HIDE DEF o
<1>12. Unopened(p) /\ Unopened(Fail(p)) /\ Unopened(d)
  BY <1>2, <1>7, <1>8, <1>9, <1>10 DEF Unopened
<1> QED
  BY <1>1, <1>2, <1>9, <1>10, <1>11, <1>12 DEF v

\* The empty scene.
LEMMA EmptySceneOk ==
    ASSUME NEW t \in Nat
    PROVE  AtRest(EmptyScene, t)
<1>1. /\ DOMAIN EmptyScene = SceneFields /\ EmptyScene.epoch = 0 /\ EmptyScene.revision = 0
      /\ EmptyScene.next = 1 /\ EmptyScene.live = <<>> /\ EmptyScene.pending = <<>>
  BY DEF EmptyScene, SceneFields
<1>2. IsSeq(<<>>) /\ Len(<<>>) = 0
  BY DEF IsSeq
<1>3. DOMAIN <<>> = {} /\ <<>> = [id \in {} |-> <<>>[id]]
  OBVIOUS
<1>4. IsFiniteSet({})
  BY FS_EmptySet
<1> QED
  BY <1>1, <1>2, <1>3, <1>4 DEF AtRest, IsScene

\* The state of a service that is not there.
LEMMA NothingOk ==
    ASSUME NEW v, DOMAIN v = WorldFields, v.now \in 0 .. MaxTime, v.scene = EmptyScene,
           v.sess = NoSession, v.del = ClosedDelegate, DOMAIN v.x = ServerFields,
           v.x.queue = <<>>, ~v.x.grab, v.x.region = "none", DOMAIN v.svc = DOMAIN NoService,
           ~v.svc.desync, v.svc.sessions \in Nat,
           v.posted \in Seq(EditEvents), v.told \in Seq(EditEvents),
           v.calls \in Nat, v.ok \in BOOLEAN, \E b \in Nat : v.bad \subseteq {b},
           v.drags = 0, Hushed(v)
    PROVE  IsWorld(v) /\ Sound(v) /\ Owned(v) /\ Unopened(v)
<1>1. /\ v.del.shapes = <<>> /\ v.del.revision = 0 /\ v.del.epoch = None
      /\ v.del.state = "closed" /\ v.del.wake = Never /\ v.del.handler = 0
      /\ v.del.window = 0 /\ v.del.region = "none" /\ v.del.grabbed = FALSE
      /\ v.del.looked = 0 /\ v.del.screen = <<>> /\ v.del.surface = "none"
  OBVIOUS
<1>2. /\ v.sess.id = 0 /\ ~v.sess.live /\ v.sess.target = None /\ ~v.sess.grabbed
      /\ ~v.sess.region /\ ~v.sess.handler
  OBVIOUS
<1>3. v.now \in Nat
  BY OverlayAssumption
<1>4. AtRest(v.scene, v.now)
  BY <1>3, EmptySceneOk
<1>5. IsShapes(v.del.shapes, v.now)
  BY <1>1 DEF IsShapes
<1>6. IsWorld(v)
  <2>1. Never \in Nat /\ <<>> \in Seq(ServerEvents)
    BY DEF Never
  <2>2. DOMAIN v.sess = DOMAIN NoSession /\ DOMAIN v.del = DOMAIN ClosedDelegate
    OBVIOUS
  <2> QED
    BY <1>1, <1>2, <1>4, <1>5, <2>1, <2>2 DEF IsWorld
<1>7. Mirrors(v.del, View(v.scene))
  <2>1. View(v.scene).live = <<>> /\ View(v.scene).revision = 0
    BY DEF View, EmptyScene
  <2>2. DOMAIN <<>> = {}
    OBVIOUS
  <2> QED
    BY <1>1, <2>1, <2>2 DEF Mirrors
<1>8. Sound(v)
  BY <1>1, <1>7 DEF Sound, InStep, Shown, Woken
<1>9. Held(v)
  BY <1>1, <1>2 DEF Held, Claims, SessOk, NoWindow, GrabClaim, RegionClaim, HandlerClaim
<1>10. Owed(v)
  BY <1>2 DEF Owed
<1> QED
  BY <1>1, <1>2, <1>6, <1>8, <1>9, <1>10 DEF Owned, Unopened, Asleep

\* ~OverlayService(): nothing is left on the server, and no report untold.
LEMMA DestroyVerbOk ==
    ASSUME NEW w, IsWorld(w), Owned(w)
    PROVE  LET v == Destroy(w)
           IN  /\ IsWorld(v) /\ v.now = w.now /\ v.flushed = w.flushed
               /\ Sound(v) /\ Owned(v) /\ Hushed(v) /\ Unopened(v)
<1> DEFINE a == Abandon(w)
           d == DestroySurface(a)
           t == Tell(d)
           v == [t EXCEPT !.del = ClosedDelegate, !.sess = NoSession, !.x.queue = <<>>,
                          !.scene = EmptyScene, !.svc = [NoService EXCEPT !.closed = TRUE]]
<1>1. Destroy(w) = v
  BY Zenon DEF Destroy
<1>2. Tends(w, a) /\ IsWorld(a) /\ a.sess.target = None
  BY AbandonOk, TendsWorld DEF Owned
<1> HIDE DEF a
<1>3. Owned(a) /\ a.now = w.now /\ a.flushed = w.flushed
  BY <1>2 DEF Tends, Data
<1>4. /\ Bare(a, d) /\ ~d.x.grab /\ d.x.region = "none"
  BY <1>2, DestroyOk
<1> HIDE DEF d
<1>5. /\ IsWorld(d) /\ d.now = a.now /\ d.flushed = a.flushed /\ d.sess = a.sess /\ Owned(d)
  BY <1>3, <1>4, EasesHeld, OwedBy DEF Bare, Eases, Beyond, Owned
<1>6. /\ Tends(d, t) /\ Hushed(t) /\ IsWorld(t) /\ t.sess = d.sess /\ t.x = d.x
      /\ t.flushed = d.flushed
  BY <1>5, TellOk
<1> HIDE DEF t
<1>7. Owned(t) /\ t.now = d.now
  BY <1>5, <1>6 DEF Tends, Data
<1>8. t.drags = 0
  BY <1>2, <1>5, <1>6, <1>7 DEF Owned, Owed
<1>9. DOMAIN t = WorldFields /\ DOMAIN t.x = ServerFields
  BY <1>6 DEF IsWorld
<1>10. /\ DOMAIN v = WorldFields /\ v.scene = EmptyScene /\ v.sess = NoSession
       /\ v.del = ClosedDelegate /\ v.svc = [NoService EXCEPT !.closed = TRUE]
       /\ \A f \in WorldFields \ {"del", "sess", "x", "scene", "svc"} : v[f] = t[f]
       /\ DOMAIN v.x = ServerFields /\ v.x.queue = <<>>
       /\ v.x.grab = t.x.grab /\ v.x.region = t.x.region
  BY <1>9
<1> HIDE DEF v
<1>11. /\ v.now = t.now /\ v.posted = t.posted /\ v.told = t.told /\ v.calls = t.calls
       /\ v.ok = t.ok /\ v.bad = t.bad /\ v.drags = t.drags /\ v.note = t.note
       /\ v.flushed = t.flushed
  BY <1>10
<1>12. DOMAIN v.svc = DOMAIN NoService /\ ~v.svc.desync /\ v.svc.sessions = 0
  BY <1>10
<1>13. Hushed(v)
  BY <1>6, <1>11, Zenon DEF Hushed
<1>14. /\ t.now \in 0 .. MaxTime /\ t.posted \in Seq(EditEvents) /\ t.told \in Seq(EditEvents)
       /\ t.calls \in Nat /\ t.ok \in BOOLEAN /\ \E b \in Nat : t.bad \subseteq {b}
  BY <1>6 DEF IsWorld
<1>15. /\ v.now \in 0 .. MaxTime /\ v.posted \in Seq(EditEvents) /\ v.told \in Seq(EditEvents)
       /\ v.calls \in Nat /\ v.ok \in BOOLEAN /\ \E b \in Nat : v.bad \subseteq {b}
       /\ v.drags = 0
  BY <1>8, <1>11, <1>14
<1>16. ~v.x.grab /\ v.x.region = "none" /\ v.svc.sessions \in Nat
  BY <1>4, <1>6, <1>10, <1>12
<1>17. v.scene = EmptyScene /\ DOMAIN v = WorldFields /\ DOMAIN v.x = ServerFields
       /\ v.x.queue = <<>> /\ v.sess = NoSession /\ v.del = ClosedDelegate
  BY <1>10
<1>18. IsWorld(v) /\ Sound(v) /\ Owned(v) /\ Unopened(v)
  BY <1>12, <1>13, <1>15, <1>16, <1>17, NothingOk
<1> QED
  BY <1>1, <1>3, <1>5, <1>6, <1>7, <1>11, <1>13, <1>18

-----------------------------------------------------------------------------
(* The invariant, which holds between two handlers.                        *)

OverlayInv ==
    /\ IsWorld(World({})) /\ Sound(World({})) /\ Owned(World({})) /\ Unopened(World({}))
    /\ flushed # Never => Displayed(World({}), flushed)

\* The state between two handlers, as one of them leaves it and the next one finds it.
LEMMA Carries ==
    ASSUME NEW w, NEW u, IsWorld(w), Hushed(w), DOMAIN u = WorldFields,
           \A f \in {"now", "topo", "scene", "svc", "sess", "del", "posted", "x", "drags"} :
               u[f] = w[f],
           u.told = <<>>, Hushed(u), u.calls = 0, u.ok = TRUE,
           \E b \in Nat : u.bad \subseteq {b}
    PROVE  /\ IsWorld(u)
           /\ Sound(w) => Sound(u)
           /\ Owned(w) => Owned(u)
           /\ Unopened(w) => Unopened(u)
           /\ \A s : Displayed(w, s) => Displayed(u, s)
<1>1. /\ u.now = w.now /\ u.topo = w.topo /\ u.scene = w.scene /\ u.svc = w.svc
      /\ u.sess = w.sess /\ u.del = w.del /\ u.posted = w.posted /\ u.x = w.x
      /\ u.drags = w.drags
  OBVIOUS
<1>2. u.told \in Seq(EditEvents) /\ u.calls \in Nat /\ u.ok \in BOOLEAN
  <2>1. <<>> \in Seq(EditEvents)
    OBVIOUS
  <2>2. u.told = <<>>
    OBVIOUS
  <2>3. u.told \in Seq(EditEvents)
    BY <2>1, <2>2, Zenon
  <2>4. 0 \in Nat /\ TRUE \in BOOLEAN
    OBVIOUS
  <2> QED
    BY <2>3, <2>4
<1>3. IsWorld(u)
  BY <1>1, <1>2 DEF IsWorld
<1>4. Sound(w) => Sound(u)
  BY <1>1 DEF Sound, InStep, Shown, Woken
<1>5. Held(w) => Held(u)
  BY <1>1, HeldSame
<1>6. Owed(w) => Owed(u)
  BY <1>1 DEF Owed
<1>7. Unopened(w) => Unopened(u)
  BY <1>1 DEF Unopened, Asleep
<1>8. \A s : Displayed(w, s) => Displayed(u, s)
  BY <1>1 DEF Displayed
<1> QED
  BY <1>3, <1>4, <1>5, <1>6, <1>7, <1>8 DEF Owned

\* The world a handler starts from.
LEMMA WorldIs ==
    ASSUME NEW bad
    PROVE  LET w == World(bad)
           IN  /\ DOMAIN w = WorldFields /\ w.now = now /\ w.topo = topo /\ w.scene = scene
               /\ w.svc = svc /\ w.sess = sess /\ w.del = del /\ w.posted = posted
               /\ w.x = x /\ w.drags = drags /\ w.flushed = Never
               /\ w.told = <<>> /\ Hushed(w) /\ w.calls = 0 /\ w.ok = TRUE /\ w.bad = bad
<1> DEFINE w == World(bad)
<1>1. w.note = ""
  BY Zenon DEF World
<1>2. Hushed(w)
  BY <1>1, Zenon DEF Hushed
<1>3. /\ DOMAIN w = WorldFields /\ w.now = now /\ w.topo = topo /\ w.scene = scene
      /\ w.svc = svc /\ w.sess = sess /\ w.del = del /\ w.posted = posted
      /\ w.x = x /\ w.drags = drags /\ w.flushed = Never
      /\ w.told = <<>> /\ w.calls = 0 /\ w.ok = TRUE /\ w.bad = bad
  BY DEF World
<1> QED
  BY <1>2, <1>3

\* What a handler finds.
Begins(w) ==
    /\ IsWorld(w) /\ Sound(w) /\ Owned(w) /\ Unopened(w) /\ Hushed(w)
    /\ w.now = now /\ w.svc = svc /\ w.del = del /\ w.posted = posted /\ w.x = x
    /\ w.flushed = Never

\* What it leaves is the next state.
Yields(v) ==
    /\ now' = v.now /\ topo' = v.topo
    /\ scene' = v.scene /\ svc' = v.svc /\ sess' = v.sess
    /\ del' = v.del /\ posted' = v.posted /\ x' = v.x /\ drags' = v.drags
    /\ flushed' = v.flushed

\* One request of a handler is refused, or none.
IsRefusal(b) == b = {} \/ \E n : \E i \in 1 .. n : b = {i}

\* Between two handlers the invariant is all a handler needs.
LEMMA Starts ==
    ASSUME OverlayInv, NEW bad, IsRefusal(bad)
    PROVE  Begins(World(bad))
<1> DEFINE w == World({})
           u == World(bad)
<1>1. /\ DOMAIN w = WorldFields /\ w.now = now /\ w.topo = topo /\ w.scene = scene
      /\ w.svc = svc /\ w.sess = sess /\ w.del = del /\ w.posted = posted
      /\ w.x = x /\ w.drags = drags /\ Hushed(w)
  BY WorldIs
<1>2. /\ DOMAIN u = WorldFields /\ u.now = now /\ u.topo = topo /\ u.scene = scene
      /\ u.svc = svc /\ u.sess = sess /\ u.del = del /\ u.posted = posted
      /\ u.x = x /\ u.drags = drags /\ u.flushed = Never
      /\ u.told = <<>> /\ Hushed(u) /\ u.calls = 0 /\ u.ok = TRUE /\ u.bad = bad
  BY WorldIs
<1>3. IsWorld(w) /\ Sound(w) /\ Owned(w) /\ Unopened(w)
  BY DEF OverlayInv
<1> HIDE DEF w, u
<1>4. \E b \in Nat : u.bad \subseteq {b}
  <2>1. CASE bad = {}
    BY <1>2, <2>1
  <2>2. ASSUME NEW n, NEW i \in 1 .. n, bad = {i} PROVE \E b \in Nat : u.bad \subseteq {b}
    BY <1>2, <2>2
  <2> QED
    BY <2>1, <2>2 DEF IsRefusal
<1>5. \A f \in {"now", "topo", "scene", "svc", "sess", "del", "posted", "x", "drags"} :
          u[f] = w[f]
  BY <1>1, <1>2
<1>6. IsWorld(u) /\ Sound(u) /\ Owned(u) /\ Unopened(u)
  BY <1>1, <1>2, <1>3, <1>4, <1>5, Carries
<1> QED
  BY <1>2, <1>6 DEF Begins, u

\* A handler that left the world in order has kept the invariant.
LEMMA Settles ==
    ASSUME NEW v, Yields(v), IsWorld(v), Sound(v), Owned(v),
           Hushed(v), Unopened(v), v.flushed # Never => Displayed(v, v.flushed)
    PROVE  OverlayInv'
<1> DEFINE u == World({})'
<1>1. u.note = ""
  BY Zenon DEF World
<1>2. Hushed(u)
  BY <1>1, Zenon DEF Hushed
<1>3. /\ DOMAIN u = WorldFields /\ u.now = now' /\ u.topo = topo' /\ u.scene = scene'
      /\ u.svc = svc' /\ u.sess = sess' /\ u.del = del' /\ u.posted = posted'
      /\ u.x = x' /\ u.drags = drags'
      /\ u.told = <<>> /\ u.calls = 0 /\ u.ok = TRUE /\ u.bad = {}
  BY DEF World
<1> HIDE DEF u
<1>4. \A f \in {"now", "topo", "scene", "svc", "sess", "del", "posted", "x", "drags"} :
          u[f] = v[f]
  BY <1>3 DEF Yields
<1>5. \E b \in Nat : u.bad \subseteq {b}
  BY <1>3
<1>6. /\ IsWorld(u) /\ Sound(u) /\ Owned(u) /\ Unopened(u)
      /\ \A s : Displayed(v, s) => Displayed(u, s)
  BY <1>2, <1>3, <1>4, <1>5, Carries
<1>7. flushed' # Never => Displayed(u, flushed')
  BY <1>6 DEF Yields
<1> QED
  BY <1>6, <1>7 DEF OverlayInv, u

\* Every handler that Answers, of a service that is open, keeps the invariant.
LEMMA HandlerStep ==
    ASSUME NEW w, NEW v, Begins(w), svc.opened, Answers(w, v), Yields(v)
    PROVE  OverlayInv'
<1>1. IsWorld(v) /\ v.now = now
  BY AnswersWorld DEF Begins
<1>2. Owned(v) /\ Hushed(v)
  BY DEF Begins, Answers, Tends
<1>3. Sound(v)
  BY DEF Begins, Answers, Tends, Data, Keeps, Sound
<1>4. Unopened(v) /\ v.flushed = Never
  BY DEF Begins, Answers, Tends, Data, Unopened, Asleep
<1> QED
  BY <1>1, <1>2, <1>3, <1>4, Settles

-----------------------------------------------------------------------------
(* One step per action.                                                    *)

\* add() and add_many() keep the invariant.
LEMMA DoAddStep ==
    ASSUME OverlayInv, DoAdd
    PROVE  OverlayInv'
<1>1. PICK b, bad :
          b \in Batches /\ IsRefusal(bad) /\ svc.opened /\ Yields(AddMany(World(bad), b))
  BY ZenonT(60) DEF DoAdd, Verb, Run, Refusable, Yields, IsRefusal
<1>2. Begins(World(bad))
  BY <1>1, Starts
<1>3. Answers(World(bad), AddMany(World(bad), b))
  BY <1>1, <1>2, AddManyOk DEF Begins
<1> QED
  BY <1>1, <1>2, <1>3, HandlerStep

\* update() keeps it.
LEMMA DoUpdateStep ==
    ASSUME OverlayInv, DoUpdate
    PROVE  OverlayInv'
<1>1. PICK id, s, bad :
          IsRefusal(bad) /\ svc.opened /\ Yields(Update(World(bad), id, s))
  BY ZenonT(60) DEF DoUpdate, Verb, Run, Refusable, Yields, IsRefusal
<1>2. Begins(World(bad))
  BY <1>1, Starts
<1>3. Answers(World(bad), Update(World(bad), id, s))
  BY <1>2, UpdateOk DEF Begins
<1> QED
  BY <1>1, <1>2, <1>3, HandlerStep

\* remove() keeps it.
LEMMA DoRemoveStep ==
    ASSUME OverlayInv, DoRemove
    PROVE  OverlayInv'
<1>1. PICK id, bad :
          IsRefusal(bad) /\ svc.opened /\ Yields(RemoveShape(World(bad), id))
  BY ZenonT(60) DEF DoRemove, Verb, Run, Refusable, Yields, IsRefusal
<1>2. Begins(World(bad))
  BY <1>1, Starts
<1>3. Answers(World(bad), RemoveShape(World(bad), id))
  BY <1>2, RemoveOk DEF Begins
<1> QED
  BY <1>1, <1>2, <1>3, HandlerStep

\* clear() keeps it.
LEMMA DoClearStep ==
    ASSUME OverlayInv, DoClear
    PROVE  OverlayInv'
<1>1. PICK bad :
          IsRefusal(bad) /\ svc.opened /\ Yields(Clear(World(bad)))
  BY ZenonT(60) DEF DoClear, Verb, Run, Refusable, Yields, IsRefusal
<1>2. Begins(World(bad))
  BY <1>1, Starts
<1>3. Answers(World(bad), Clear(World(bad)))
  BY <1>2, ClearOk DEF Begins
<1> QED
  BY <1>1, <1>2, <1>3, HandlerStep

\* start_edit() keeps it.
LEMMA DoStartEditStep ==
    ASSUME OverlayInv, DoStartEdit
    PROVE  OverlayInv'
<1>1. PICK ids, bad :
          IsRefusal(bad) /\ svc.opened /\ Yields(StartEdit(World(bad), ids))
  BY ZenonT(60) DEF DoStartEdit, Verb, Run, Refusable, Yields, IsRefusal
<1>2. Begins(World(bad))
  BY <1>1, Starts
<1>3. Answers(World(bad), StartEdit(World(bad), ids))
  BY <1>2, StartEditOk DEF Begins
<1> QED
  BY <1>1, <1>2, <1>3, HandlerStep

\* stop_edit() keeps it.
LEMMA DoStopEditStep ==
    ASSUME OverlayInv, DoStopEdit
    PROVE  OverlayInv'
<1>1. PICK bad :
          IsRefusal(bad) /\ svc.opened /\ Yields(StopEdit(World(bad)))
  BY ZenonT(60) DEF DoStopEdit, Verb, Run, Refusable, Yields, IsRefusal
<1>2. Begins(World(bad))
  BY <1>1, Starts
<1>3. Answers(World(bad), StopEdit(World(bad)))
  BY <1>2, StopEditOk DEF Begins
<1> QED
  BY <1>1, <1>2, <1>3, HandlerStep

\* capture_pointer() keeps it.
LEMMA DoCaptureStep ==
    ASSUME OverlayInv, DoCapture
    PROVE  OverlayInv'
<1>1. PICK bad :
          IsRefusal(bad) /\ svc.opened /\ Yields(Capture(World(bad)))
  BY ZenonT(60) DEF DoCapture, Verb, Run, Refusable, Yields, IsRefusal
<1>2. Begins(World(bad))
  BY <1>1, Starts
<1>3. Answers(World(bad), Capture(World(bad)))
  BY <1>2, CaptureOk DEF Begins
<1> QED
  BY <1>1, <1>2, <1>3, HandlerStep

\* release_pointer() keeps it.
LEMMA DoReleaseStep ==
    ASSUME OverlayInv, DoRelease
    PROVE  OverlayInv'
<1>1. PICK bad :
          IsRefusal(bad) /\ svc.opened /\ Yields(ReleaseCapture(World(bad)))
  BY ZenonT(60) DEF DoRelease, Verb, Run, Refusable, Yields, IsRefusal
<1>2. Begins(World(bad))
  BY <1>1, Starts
<1>3. Answers(World(bad), ReleaseCapture(World(bad)))
  BY <1>2, ReleaseCaptureOk DEF Begins
<1> QED
  BY <1>1, <1>2, <1>3, HandlerStep

\* The descriptor's callback keeps it.
LEMMA DoReadStep ==
    ASSUME OverlayInv, DoRead
    PROVE  OverlayInv'
<1>1. PICK bad :
          IsRefusal(bad) /\ svc.opened /\ Yields(ReadEvents(World(bad)))
  BY ZenonT(60) DEF DoRead, Task, Run, Refusable, Yields, IsRefusal
<1>2. Begins(World(bad))
  BY <1>1, Starts
<1>3. Answers(World(bad), ReadEvents(World(bad)))
  BY <1>2, ReadOk DEF Begins
<1> QED
  BY <1>1, <1>2, <1>3, HandlerStep

\* A wakeup is set only for a delegate that was opened.
LEMMA DoWakeupStep ==
    ASSUME OverlayInv, DoWakeup
    PROVE  OverlayInv'
<1>1. PICK later, bad : /\ later \in now .. MaxTime /\ IsRefusal(bad) /\ del.wake <= now
                        /\ Yields(Wakeup(World(bad), later))
  BY ZenonT(60) DEF DoWakeup, Task, Run, Refusable, Yields, IsRefusal
<1> DEFINE w == World(bad)
           v == Wakeup(w, later)
<1>2. Begins(w)
  BY <1>1, Starts
<1>3. now \in 0 .. MaxTime
  BY <1>2 DEF Begins, IsWorld
<1>4. later \in 0 .. MaxTime /\ w.now <= later
  BY <1>1, <1>2, <1>3, OverlayAssumption DEF Begins
<1>5. /\ IsWorld(v) /\ Keeps(w, v) /\ (Owned(w) => Owned(v)) /\ (Hushed(w) => Hushed(v))
      /\ v.svc.opened = w.svc.opened /\ v.flushed = w.flushed
  BY <1>2, <1>4, WakeupOk DEF Begins
<1>6. del.wake # Never
  BY <1>1, <1>3, OverlayAssumption DEF Never
<1>7. svc.opened
  BY <1>2, <1>6 DEF Begins, Unopened, Asleep
<1>8. Yields(v)
  BY <1>1
<1> HIDE DEF v, w
<1>9. Owned(v) /\ Hushed(v) /\ Sound(v) /\ Unopened(v) /\ v.flushed = Never
  BY <1>2, <1>5, <1>7 DEF Begins, Keeps, Sound, Unopened, Asleep
<1> QED
  BY <1>5, <1>8, <1>9, Settles

\* An event that was posted before the service closed finds no live session.
LEMMA DoPostedStep ==
    ASSUME OverlayInv, DoPosted
    PROVE  OverlayInv'
<1>1. PICK bad : IsRefusal(bad) /\ posted # <<>> /\ Yields(RunPosted(World(bad)))
  BY ZenonT(60) DEF DoPosted, Task, Run, Refusable, Yields, IsRefusal
<1> DEFINE w == World(bad)
           v == RunPosted(w)
<1>2. Begins(w)
  BY <1>1, Starts
<1>3. Answers(w, v)
  BY <1>1, <1>2, PostedOk DEF Begins
<1>4. CASE svc.opened
  BY <1>1, <1>2, <1>3, <1>4, HandlerStep
<1>5. CASE ~svc.opened
  <2> DEFINE t == [w EXCEPT !.posted = Tail(@)]
  <2>1. ~w.sess.live /\ Unopened(w)
    BY <1>2, <1>5 DEF Begins, Unopened, Asleep
  <2>2. v = HandleEditEvent(t, Head(w.posted).kind, Head(w.posted).id)
    BY DEF RunPosted
  <2>3. t.sess = w.sess /\ t.svc = w.svc /\ t.del = w.del /\ t.x = w.x
    BY <1>2 DEF Begins, IsWorld, WorldFields
  <2>4. v = t
    BY <2>1, <2>2, <2>3, Zenon DEF HandleEditEvent
  <2>5. Unopened(v)
    BY <2>1, <2>3, <2>4 DEF Unopened, Asleep
  <2> HIDE DEF v, w, t
  <2>6. IsWorld(v) /\ v.now = now
    BY <1>2, <1>3, AnswersWorld DEF Begins
  <2>7. Owned(v) /\ Hushed(v)
    BY <1>2, <1>3 DEF Begins, Answers, Tends
  <2>8. Sound(v) /\ v.flushed = Never
    BY <1>2, <1>3 DEF Begins, Answers, Tends, Data, Keeps, Sound
  <2>9. Yields(v)
    BY <1>1 DEF v, w
  <2> QED
    BY <1>1, <2>5, <2>6, <2>7, <2>8, <2>9, Settles
<1> QED
  BY <1>4, <1>5

\* flush() keeps it, and establishes what it reports.
LEMMA DoFlushStep ==
    ASSUME OverlayInv, DoFlush
    PROVE  OverlayInv'
<1>1. PICK seen, later, bad :
          seen \in 0 .. Len(x.queue) /\ later \in now .. MaxTime /\ IsRefusal(bad) /\ svc.opened /\ Yields(Flush(World(bad), seen, later))
  BY ZenonT(60) DEF DoFlush, Verb, Run, Refusable, Yields, IsRefusal
<1> DEFINE w == World(bad)
           v == Flush(w, seen, later)
<1>2. Begins(w)
  BY <1>1, Starts
<1>3. seen \in Nat
  BY <1>1
<1>4. later \in 0 .. MaxTime /\ w.now <= later
  <2>1. now \in 0 .. MaxTime
    BY <1>2 DEF Begins, IsWorld
  <2> QED
    BY <1>1, <1>2, <2>1, OverlayAssumption DEF Begins
<1>5. /\ IsWorld(v) /\ v.svc.opened = w.svc.opened
      /\ Keeps(w, v) /\ (Owned(w) => Owned(v)) /\ Hushed(v)
      /\ v.flushed # Never /\ Sound(w) => Displayed(v, v.flushed)
  BY <1>2, <1>3, <1>4, FlushVerbOk DEF Begins
<1>6. Yields(v)
  BY <1>1
<1> HIDE DEF v, w
<1>7. /\ Owned(v) /\ Sound(v) /\ Unopened(v)
      /\ v.flushed # Never => Displayed(v, v.flushed)
  BY <1>1, <1>2, <1>5 DEF Begins, Keeps, Sound, Unopened, Asleep
<1> QED
  BY <1>5, <1>6, <1>7, Settles

\* create() keeps it.
LEMMA DoCreateStep ==
    ASSUME OverlayInv, DoCreate
    PROVE  OverlayInv'
<1>1. PICK bad : IsRefusal(bad) /\ ~svc.opened /\ Yields(Create(World(bad)))
  BY ZenonT(60) DEF DoCreate, Task, Run, Refusable, Yields, IsRefusal
<1> DEFINE w == World(bad)
           v == Create(w)
<1>2. Begins(w)
  BY <1>1, Starts
<1>3. /\ IsWorld(v) /\ v.now = w.now /\ v.flushed = w.flushed
      /\ Sound(v) /\ Owned(v) /\ Hushed(v) /\ Unopened(v)
  BY <1>1, <1>2, CreateVerbOk DEF Begins
<1>4. Yields(v)
  BY <1>1
<1> HIDE DEF v, w
<1>5. v.now = now /\ v.flushed = Never
  BY <1>2, <1>3 DEF Begins
<1> QED
  BY <1>1, <1>3, <1>4, <1>5, Settles

\* ~OverlayService() keeps it.
LEMMA DoDestroyStep ==
    ASSUME OverlayInv, DoDestroy
    PROVE  OverlayInv'
<1>1. PICK bad : IsRefusal(bad) /\ Yields(Destroy(World(bad)))
  BY ZenonT(60) DEF DoDestroy, Task, Run, Refusable, Yields, IsRefusal
<1> DEFINE w == World(bad)
           v == Destroy(w)
<1>2. Begins(w)
  BY <1>1, Starts
<1>3. /\ IsWorld(v) /\ v.now = w.now /\ v.flushed = w.flushed
      /\ Sound(v) /\ Owned(v) /\ Hushed(v) /\ Unopened(v)
  BY <1>2, DestroyVerbOk DEF Begins
<1>4. Yields(v)
  BY <1>1
<1> HIDE DEF v, w
<1>5. v.now = now /\ v.flushed = Never
  BY <1>2, <1>3 DEF Begins
<1> QED
  BY <1>1, <1>3, <1>4, <1>5, Settles

\* The server: an event for the delegate to read, and perhaps a grab less.
LEMMA ServerStep ==
    ASSUME OverlayInv,
           NEW kind \in {"press", "motion", "release", "ungrab",
                         "owner", "screen", "raised", "error"},
           NEW window \in Nat, Server(kind, window)
    PROVE  OverlayInv'
<1> DEFINE w == World({})
           v == [w EXCEPT !.x = x']
           e == [kind |-> kind, window |-> window]
<1>1. Begins(w)
  BY Starts DEF IsRefusal
<1>2. /\ DOMAIN w = WorldFields /\ w.now = now /\ w.topo = topo /\ w.scene = scene
      /\ w.svc = svc /\ w.sess = sess /\ w.del = del /\ w.posted = posted
      /\ w.x = x /\ w.drags = drags /\ w.flushed = Never
  BY WorldIs
<1>3. IsWorld(w) /\ Sound(w) /\ Owned(w) /\ Unopened(w) /\ Hushed(w)
  BY <1>1 DEF Begins
<1>4. DOMAIN x = ServerFields /\ x.queue \in Seq(ServerEvents)
  BY <1>2, <1>3 DEF IsWorld
<1>5. e \in ServerEvents
  BY DEF ServerEvents
<1>6. Append(x.queue, e) \in Seq(ServerEvents)
  BY <1>4, <1>5
<1>7. /\ DOMAIN x' = ServerFields /\ x'.queue \in Seq(ServerEvents)
      /\ x'.region = x.region /\ (x'.grab => x.grab)
  BY <1>4, <1>6 DEF Server, ServerFields
<1> HIDE DEF w, e
<1>8. /\ DOMAIN v = WorldFields /\ v.x = x'
      /\ \A f \in WorldFields \ {"x"} : v[f] = w[f]
  BY <1>2 DEF WorldFields
<1> HIDE DEF v
<1>9. /\ v.now = w.now /\ v.topo = w.topo /\ v.scene = w.scene /\ v.svc = w.svc
      /\ v.sess = w.sess /\ v.del = w.del /\ v.posted = w.posted /\ v.drags = w.drags
      /\ v.flushed = w.flushed /\ v.told = w.told /\ v.note = w.note /\ v.bad = w.bad
      /\ v.calls = w.calls /\ v.ok = w.ok
  BY <1>8 DEF WorldFields
<1>10. IsWorld(v)
  BY <1>3, <1>7, <1>8, <1>9 DEF IsWorld
<1>11. Sound(v) /\ Unopened(v)
  BY <1>2, <1>3, <1>7, <1>8, <1>9 DEF Sound, InStep, Shown, Woken, Unopened, Asleep
<1>12. Hushed(v)
  BY <1>3, <1>9, Zenon DEF Hushed
<1>13. Owned(v)
  <2>1. Held(v)
    BY <1>2, <1>3, <1>7, <1>8, <1>9
       DEF Owned, Held, Claims, SessOk, NoWindow, Excused, GrabClaim, RegionClaim, HandlerClaim
  <2>2. Owed(v)
    BY <1>3, <1>9, <1>12 DEF Owned, Owed
  <2> QED
    BY <2>1, <2>2 DEF Owned
<1>14. Yields(v) /\ v.flushed = Never
  BY <1>2, <1>8, <1>9 DEF Yields, Server
<1> QED
  BY <1>10, <1>11, <1>12, <1>13, <1>14, Settles

\* Everything the server and its other clients do keeps it.
LEMMA ServersStep ==
    ASSUME OverlayInv,
           \/ Press \/ Motion \/ ButtonUp \/ BreakGrab
           \/ Compositor \/ ScreenChange \/ OtherRaised \/ XError
    PROVE  OverlayInv'
<1>1. del.window \in Nat
  <2>1. IsWorld(World({})) /\ World({}).del = del
    BY WorldIs DEF OverlayInv
  <2> QED
    BY <2>1 DEF IsWorld
<1>2. CASE Press
  BY <1>1, <1>2, ServerStep DEF Press
<1>3. CASE Motion
  BY <1>1, <1>3, ServerStep DEF Motion
<1>4. CASE ButtonUp
  BY <1>1, <1>4, ServerStep DEF ButtonUp
<1>5. CASE BreakGrab
  BY <1>1, <1>5, ServerStep DEF BreakGrab
<1>6. CASE Compositor
  BY <1>6, ServerStep DEF Compositor
<1>7. CASE ScreenChange
  BY <1>7, ServerStep DEF ScreenChange
<1>8. CASE OtherRaised
  BY <1>8, ServerStep DEF OtherRaised
<1>9. CASE XError
  BY <1>9, ServerStep DEF XError
<1> QED
  BY <1>2, <1>3, <1>4, <1>5, <1>6, <1>7, <1>8, <1>9

\* Time alone: what has expired meanwhile has a wakeup that stands.
LEMMA TickStep ==
    ASSUME OverlayInv, Tick
    PROVE  OverlayInv'
<1> DEFINE w == World({})
           v == [w EXCEPT !.now = now']
<1>1. Begins(w)
  BY Starts DEF IsRefusal
<1>2. /\ DOMAIN w = WorldFields /\ w.now = now /\ w.topo = topo /\ w.scene = scene
      /\ w.svc = svc /\ w.sess = sess /\ w.del = del /\ w.posted = posted
      /\ w.x = x /\ w.drags = drags /\ w.flushed = Never
  BY WorldIs
<1>3. IsWorld(w) /\ Sound(w) /\ Owned(w) /\ Unopened(w) /\ Hushed(w)
  BY <1>1 DEF Begins
<1>4. now \in 0 .. MaxTime
  BY <1>2, <1>3 DEF IsWorld
<1>5. now' \in 0 .. MaxTime /\ w.now <= now'
  BY <1>2, <1>4, OverlayAssumption DEF Tick
<1>6. /\ IsWorld(v) /\ v.now = now' /\ \A f \in WorldFields \ {"now"} : v[f] = w[f]
      /\ Keeps(w, v) /\ (Owned(w) => Owned(v)) /\ (Hushed(w) => Hushed(v))
  BY <1>3, <1>5, LaterOk
<1> HIDE DEF v, w
<1>7. /\ v.topo = w.topo /\ v.scene = w.scene /\ v.svc = w.svc
      /\ v.sess = w.sess /\ v.del = w.del /\ v.posted = w.posted /\ v.drags = w.drags
      /\ v.flushed = w.flushed /\ v.x = w.x
  BY <1>6 DEF WorldFields
<1>8. Sound(v) /\ Owned(v) /\ Hushed(v) /\ Unopened(v)
  BY <1>3, <1>6, <1>7 DEF Sound, Keeps, Unopened, Asleep
<1>9. Yields(v) /\ v.flushed = Never
  BY <1>2, <1>6, <1>7 DEF Yields, Tick
<1> QED
  BY <1>6, <1>8, <1>9, Settles

-----------------------------------------------------------------------------
(* The theorems.                                                           *)

\* It holds before create(),
LEMMA OverlayInitially ==
    ASSUME Init
    PROVE  OverlayInv
<1> DEFINE w == World({})
<1>1. /\ DOMAIN w = WorldFields /\ w.now = now /\ w.topo = topo /\ w.scene = scene
      /\ w.svc = svc /\ w.sess = sess /\ w.del = del /\ w.posted = posted
      /\ w.x = x /\ w.drags = drags /\ w.flushed = Never
      /\ w.told = <<>> /\ Hushed(w) /\ w.calls = 0 /\ w.ok = TRUE /\ w.bad = {}
  BY WorldIs
<1> HIDE DEF w
<1>2. /\ w.scene = EmptyScene /\ w.sess = NoSession /\ w.del = ClosedDelegate
      /\ w.drags = 0 /\ w.posted = <<>> /\ flushed = Never
  BY <1>1 DEF Init
<1>3. /\ DOMAIN w.x = ServerFields /\ w.x.queue = <<>> /\ ~w.x.grab /\ w.x.region = "none"
  BY <1>1 DEF Init, ServerFields
<1>4. DOMAIN w.svc = DOMAIN NoService /\ ~w.svc.desync /\ w.svc.sessions \in Nat
  BY <1>1 DEF Init, NoService
<1>5. w.now \in 0 .. MaxTime
  BY <1>1, OverlayAssumption DEF Init
<1>6. w.posted \in Seq(EditEvents) /\ w.told \in Seq(EditEvents)
  <2>1. <<>> \in Seq(EditEvents)
    OBVIOUS
  <2> QED
    BY <2>1, <1>1, <1>2, Zenon
<1>7. w.calls \in Nat /\ w.ok \in BOOLEAN /\ \E b \in Nat : w.bad \subseteq {b}
  <2>1. w.calls = 0 /\ w.ok = TRUE /\ w.bad = {}
    BY <1>1
  <2>2. \E b \in Nat : {} \subseteq {b}
    OBVIOUS
  <2>3. w.calls \in Nat
    BY <2>1
  <2>4. w.ok \in BOOLEAN
    BY <2>1, Zenon
  <2> QED
    BY <2>1, <2>2, <2>3, <2>4, Zenon
<1>8. IsWorld(w) /\ Sound(w) /\ Owned(w) /\ Unopened(w)
  BY <1>1, <1>2, <1>3, <1>4, <1>5, <1>6, <1>7, NothingOk
<1> QED
  BY <1>2, <1>8 DEF OverlayInv, w

\* Nothing that happens outside the module's actions changes what the invariant reads.
LEMMA OverlayStutters ==
    ASSUME OverlayInv, UNCHANGED vars
    PROVE  OverlayInv'
<1> DEFINE w == World({})
           u == World({})'
<1>1. u = w
  BY DEF vars, World
<1>2. flushed' = flushed
  BY DEF vars
<1>3. /\ IsWorld(w) /\ Sound(w) /\ Owned(w) /\ Unopened(w)
      /\ flushed # Never => Displayed(w, flushed)
  BY DEF OverlayInv
<1> HIDE DEF w, u
<1>4. /\ IsWorld(u) /\ Sound(u) /\ Owned(u) /\ Unopened(u)
      /\ flushed' # Never => Displayed(u, flushed')
  BY <1>1, <1>2, <1>3
<1> QED
  BY <1>4 DEF OverlayInv, u

\* and every step keeps it.
LEMMA OverlayPreserved ==
    ASSUME OverlayInv, [Next]_vars
    PROVE  OverlayInv'
<1>1. CASE DoCreate
  BY <1>1, DoCreateStep
<1>2. CASE DoDestroy
  BY <1>2, DoDestroyStep
<1>3. CASE DoAdd
  BY <1>3, DoAddStep
<1>4. CASE DoUpdate
  BY <1>4, DoUpdateStep
<1>5. CASE DoRemove
  BY <1>5, DoRemoveStep
<1>6. CASE DoClear
  BY <1>6, DoClearStep
<1>7. CASE DoFlush
  BY <1>7, DoFlushStep
<1>8. CASE DoStartEdit
  BY <1>8, DoStartEditStep
<1>9. CASE DoStopEdit
  BY <1>9, DoStopEditStep
<1>10. CASE DoCapture
  BY <1>10, DoCaptureStep
<1>11. CASE DoRelease
  BY <1>11, DoReleaseStep
<1>12. CASE DoWakeup
  BY <1>12, DoWakeupStep
<1>13. CASE DoRead
  BY <1>13, DoReadStep
<1>14. CASE DoPosted
  BY <1>14, DoPostedStep
<1>15. CASE \/ Press \/ Motion \/ ButtonUp \/ BreakGrab
            \/ Compositor \/ ScreenChange \/ OtherRaised \/ XError
  BY <1>15, ServersStep
<1>16. CASE Tick
  BY <1>16, TickStep
<1>17. CASE UNCHANGED vars
  BY <1>17, OverlayStutters
<1> QED
  BY <1>1, <1>2, <1>3, <1>4, <1>5, <1>6, <1>7, <1>8, <1>9, <1>10, <1>11, <1>12, <1>13,
     <1>14, <1>15, <1>16, <1>17 DEF Next

\* The inductive invariant holds in every state between two handlers.
THEOREM OverlayInvariant == Spec => []OverlayInv
BY OverlayInitially, OverlayPreserved, PTL DEF Spec

\* What the invariant says of the variables themselves.
LEMMA OverlayFacts ==
    ASSUME OverlayInv
    PROVE  \E w : /\ IsWorld(w) /\ Sound(w) /\ Owned(w) /\ Hushed(w)
                  /\ w.now = now /\ w.topo = topo /\ w.scene = scene /\ w.svc = svc
                  /\ w.sess = sess /\ w.del = del /\ w.x = x /\ w.drags = drags
                  /\ flushed # Never => Displayed(w, flushed)
BY WorldIs DEF OverlayInv

\* DelegateIsReplica: whenever the delegate believes itself in step and the service
\* agrees, it holds the scene, record by record, of the same epoch and revision, and
\* resolved for the present screens unless a returning compositor revived it.
THEOREM DelegateIsAlwaysReplica == Spec => []DelegateIsReplica
<1>1. OverlayInv => DelegateIsReplica
  <2> SUFFICES ASSUME OverlayInv, del.state = "synced", ~svc.desync
               PROVE  /\ DOMAIN del.shapes = DOMAIN scene.live
                      /\ \A id \in DOMAIN del.shapes :
                            /\ del.shapes[id].shape = scene.live[id].shape
                            /\ del.shapes[id].start = scene.live[id].start
                      /\ del.revision = scene.revision
                      /\ del.epoch \in {None, scene.epoch}
                      /\ del.revived \/ del.shapes = Current
    BY DEF DelegateIsReplica
  <2>1. PICK w : /\ Sound(w) /\ w.topo = topo /\ w.scene = scene /\ w.svc = svc /\ w.del = del
    BY OverlayFacts
  <2>2. /\ Mirrors(del, View(scene))
        /\ del.revived \/ del.shapes = Resolved(View(scene).live, topo)
    BY <2>1 DEF Sound, InStep
  <2> QED
    BY <2>2 DEF Mirrors, View, Resolved, Current
<1> QED
  BY <1>1, OverlayInvariant, PTL

\* ScreenFollows: a flush() that reports success has put the scene, as it was at some time
\* since the call began, on a mapped window (or its next frame is due, if the compositor
\* went and came back); and whatever is still to be drawn, or to be taken away once its
\* wakeup was looked for, has a wakeup.
THEOREM ScreenAlwaysFollows == Spec => []ScreenFollows
<1>1. OverlayInv => ScreenFollows
  <2> SUFFICES ASSUME OverlayInv PROVE FlushShows /\ FrameScheduled
    BY DEF ScreenFollows
  <2>1. PICK w : /\ IsWorld(w) /\ Sound(w) /\ w.now = now /\ w.topo = topo /\ w.scene = scene /\ w.del = del
                 /\ flushed # Never => Displayed(w, flushed)
    BY OverlayFacts
  <2>2. Current = Resolved(scene.live, topo)
    BY DEF Current, Resolved
  <2>3. FlushShows
    BY <2>1, <2>2 DEF FlushShows, Displayed
  <2>4. FrameScheduled
    <3>1. del.looked \in Nat /\ del.looked <= now
      BY <2>1 DEF IsWorld
    <3>2. ASSUME NEW id \in DOMAIN del.screen, Deadline(del.screen[id]) > del.looked
          PROVE  del.looked < Deadline(del.screen[id])
      BY <3>2
    <3> QED
      BY <2>1, <3>1, <3>2 DEF FrameScheduled, Sound, Woken
  <2> QED
    BY <2>3, <2>4
<1> QED
  BY <1>1, OverlayInvariant, PTL

\* EditReleased: a grab, an input region or an edit handler on the server has an owner
\* who will give it back, short of a release that was reported as failed and of a capture
\* mixed with a session; a window that takes all input, because a request to shape it was
\* refused, never shows a frame; and a drag that began is reported to its owner once.
THEOREM EditAlwaysReleased == Spec => []EditReleased
<1>1. OverlayInv => EditReleased
  <2> SUFFICES ASSUME OverlayInv PROVE NothingLeftBehind /\ DragToldOnce
    BY DEF EditReleased
  <2>1. PICK w : /\ Owned(w) /\ Hushed(w) /\ w.svc = svc /\ w.sess = sess /\ w.del = del
                 /\ w.x = x /\ w.drags = drags
    BY OverlayFacts
  <2>2. NothingLeftBehind
    BY <2>1 DEF NothingLeftBehind, Owned, Held, Claims, NoWindow, SessOk, Excused,
                GrabClaim, RegionClaim, HandlerClaim
  <2>3. DragToldOnce
    BY <2>1 DEF DragToldOnce, Owned, Owed
  <2> QED
    BY <2>2, <2>3
<1> QED
  BY <1>1, OverlayInvariant, PTL
=============================================================================
