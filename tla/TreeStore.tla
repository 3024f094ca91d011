------------------------------ MODULE TreeStore ------------------------------
(***************************************************************************)
(* The accessibility/window tree a session keeps for one binding:          *)
(* TreeStore::apply (kernel/graph/tree_store.cpp) stages updates under its *)
(* mutex and one caller at a time publishes them; the SessionCore sink     *)
(* translates the tree events for the bus; attach(), the observation pump, *)
(* start_observation() and resync() feed the store from several threads.   *)
(*                                                                         *)
(* A tree is [nodes |-> facts of each node, rel |-> {<<s, t, kind>>}].     *)
(* Lists of records are sets here: the refusals for a zero or repeated id, *)
(* a repeated property or a reserved relation id are not modelled.  A      *)
(* sink that re-enters apply() stages exactly as another thread would.     *)
(***************************************************************************)
EXTENDS Integers, FiniteSets, Sequences, SequencesExt, FiniteSetsExt, Functions

CONSTANTS
    Pump,           \* the observation pump's tree thread
    Starter,        \* the thread that attaches the runtime, then starts the pump
    Resyncers,      \* threads that call Session::resync()
    Catalogue,      \* the trees the source may show
    None,
    MaxNode,        \* bound: node ids are 1..MaxNode
    MaxVersions,    \* bound: states of the source's tree
    MaxQueue,       \* bound: updates the source holds back before it drops
    MaxResyncs      \* bound: calls of resync()

ASSUME ThreadsAssumption ==
    Pump # Starter /\ Pump \notin Resyncers /\ Starter \notin Resyncers

ASSUME BoundsAssumption ==
    /\ MaxNode \in Nat /\ MaxQueue \in Nat /\ MaxResyncs \in Nat
    /\ MaxVersions \in Nat \ {0}

(* A tree of the source is made of its own nodes: no relation of it names a *)
(* node it does not show.  Nothing is assumed of cycles or of its roots.    *)
ASSUME CatalogueAssumption ==
    \A tree \in Catalogue :
        /\ tree.nodes = [n \in DOMAIN tree.nodes |-> tree.nodes[n]]
        /\ DOMAIN tree.nodes \subseteq 1..MaxNode
        /\ \A r \in tree.rel : {r[1], r[2]} \subseteq DOMAIN tree.nodes

(* None is no generation of a tree. *)
ASSUME NoneAssumption ==
    None \notin [runtime : 1..MaxVersions, epoch : 1..MaxVersions,
                 revision : 1..MaxVersions,
                 graph : {[nodes |-> tree.nodes, rel |-> tree.rel] : tree \in Catalogue}]

Threads == {Pump, Starter} \cup Resyncers

VARIABLES
    versions,       \* external: every state the source's tree has been in
    queue,          \* external: updates next_update() has not handed out yet
    current, previous, pending, retired, last_source_sequence,
    requires_resnapshot, publishing,     \* TreeStore::Impl
    thread,         \* where each thread is, and the update it holds
    batch,          \* per thread: events drain_publications() has left to deliver
    sink,           \* RuntimeBinding: the translation state of the sink
    told,           \* the ActiveChildChanged events of the last batch
    mirror,         \* a consumer's tree, rebuilt from the events alone
    resyncs

store == <<current, previous, pending, retired, last_source_sequence,
           requires_resnapshot, publishing>>
source == <<versions, queue>>
vars == <<source, store, thread, batch, sink, told, mirror, resyncs>>

----------------------------------------------------------------------------
\* Trees

Nodes(g) == DOMAIN g.nodes
Parents(g, n) == {r[1] : r \in {x \in g.rel : x[2] = n /\ x[3] = "contains"}}
CoreRel(g) == {r \in g.rel : r[3] # "extension"}
ExtRel(g)  == {r \in g.rel : r[3] = "extension"}
EmptyTree  == [nodes |-> <<>>, rel |-> {}]

(* Kahn's visit of the contains relation: the nodes visited within k rounds *)
(* are those all of whose parents were visited before.                      *)
Visited(g) ==
    LET round[k \in 0..Cardinality(Nodes(g))] ==
            IF k = 0 THEN {}
            ELSE {n \in Nodes(g) : Parents(g, n) \subseteq round[k - 1]}
    IN  round[Cardinality(Nodes(g))]

validate_and_find_roots(g, supplied_roots) ==
    /\ \A r \in g.rel : {r[1], r[2]} \subseteq Nodes(g) /\ r[1] # r[2]
    /\ \A n \in supplied_roots : n \in Nodes(g) /\ Parents(g, n) = {}
    /\ Visited(g) = Nodes(g)

(* Removing a node erases every relation it takes part in. *)
relations_after_removal(g, removed) ==
    {r \in g.rel : r[1] \notin removed /\ r[2] \notin removed}

DeltaRefused(g, d) ==
    LET rel == relations_after_removal(g, d.removed) IN
    \/ DOMAIN d.added \cap Nodes(g) # {}
    \/ ~ (DOMAIN d.changed \subseteq Nodes(g) \cup DOMAIN d.added)
    \/ ~ (d.removed \subseteq Nodes(g) \cup DOMAIN d.added)
    \/ d.rel_added \cap rel # {}
    \/ ~ (d.rel_removed \subseteq rel)

snapshot_from_delta(g, d) ==
    LET nodes == (Nodes(g) \cup DOMAIN d.added \cup DOMAIN d.changed) \ d.removed IN
    [nodes |-> [n \in nodes |-> IF n \in DOMAIN d.changed THEN d.changed[n]
                               ELSE IF n \in DOMAIN d.added THEN d.added[n]
                               ELSE g.nodes[n]],
     rel   |-> (relations_after_removal(g, d.removed) \ d.rel_removed)
               \cup d.rel_added]

----------------------------------------------------------------------------
\* Events derived from two generations

(* graph_difference() walks nodes and edges in ascending order; within one  *)
(* edge the relation bits ascend (contains is bit 0, active_child bit 5).   *)
NodeOrder == [i \in 1..MaxNode |-> i]

EdgeOrder ==
    [i \in 1..(MaxNode * MaxNode) |->
        <<((i - 1) \div MaxNode) + 1, ((i - 1) % MaxNode) + 1>>]

Kinds == <<"contains", "active_child", "extension">>

RelationOrder ==
    FlattenSeq([i \in DOMAIN EdgeOrder |->
        [k \in DOMAIN Kinds |-> <<EdgeOrder[i][1], EdgeOrder[i][2], Kinds[k]>>]])

Event(kind, revision, node, related, relation) ==
    [kind |-> kind, revision |-> revision, node |-> node, related |-> related,
     relation |-> relation]

NodeEvents(kind, gen, nodes) ==
    LET s == SelectSeq(NodeOrder, LAMBDA n : n \in nodes) IN
    [i \in DOMAIN s |-> Event(kind, gen.revision, s[i], 0, None)]

RelationEvents(kind, gen, rel) ==
    LET s == SelectSeq(RelationOrder, LAMBDA r : r \in rel) IN
    [i \in DOMAIN s |-> Event(kind, gen.revision, s[i][1], s[i][2], s[i][3])]

Edges(rel) == {<<r[1], r[2]>> : r \in rel}
OnEdges(rel, edges) == {r \in rel : <<r[1], r[2]>> \in edges}

(* The edges both sides have, one after the other in ascending order: the   *)
(* bits an edge lost, then the bits it gained.                              *)
ChangedEdgeEvents(before, after) ==
    LET b == CoreRel(before.graph)
        a == CoreRel(after.graph)
        both == SelectSeq(EdgeOrder, LAMBDA e : e \in Edges(b) \cap Edges(a))
    IN  FlattenSeq([i \in DOMAIN both |->
            RelationEvents("RelationRemoved", before,
                           OnEdges(b, {both[i]}) \ OnEdges(a, {both[i]}))
            \o RelationEvents("RelationAdded", after,
                              OnEdges(a, {both[i]}) \ OnEdges(b, {both[i]}))])

derive_same_scope_events(before, after) ==
    LET bg == before.graph   ag == after.graph
        b == CoreRel(bg)     a == CoreRel(ag)
        changed == {n \in Nodes(bg) \cap Nodes(ag) : bg.nodes[n] # ag.nodes[n]}
    IN  NodeEvents("NodeRemoved", before, Nodes(bg) \ Nodes(ag))
        \o NodeEvents("NodeAdded", after, Nodes(ag) \ Nodes(bg))
        \o NodeEvents("NodeChanged", after, changed)
        \o RelationEvents("RelationRemoved", before,
                          OnEdges(b, Edges(b) \ Edges(a)))
        \o RelationEvents("RelationAdded", after, OnEdges(a, Edges(a) \ Edges(b)))
        \o ChangedEdgeEvents(before, after)
        \o RelationEvents("RelationRemoved", before, ExtRel(bg) \ ExtRel(ag))
        \o RelationEvents("RelationAdded", after, ExtRel(ag) \ ExtRel(bg))

Scope(x) == <<x.runtime, x.epoch>>

AllRemoved(gen) ==
    NodeEvents("NodeRemoved", gen, Nodes(gen.graph))
    \o RelationEvents("RelationRemoved", gen, CoreRel(gen.graph))
    \o RelationEvents("RelationRemoved", gen, ExtRel(gen.graph))

AllAdded(gen) ==
    NodeEvents("NodeAdded", gen, Nodes(gen.graph))
    \o RelationEvents("RelationAdded", gen, CoreRel(gen.graph))
    \o RelationEvents("RelationAdded", gen, ExtRel(gen.graph))

derive_replacement_events(before, after) ==
    IF before = None THEN AllAdded(after)
    ELSE IF Scope(before) = Scope(after)
         THEN derive_same_scope_events(before, after)
         ELSE AllRemoved(before) \o AllAdded(after)

----------------------------------------------------------------------------
\* The source (external: an spi::TreeSource as the code calls it)

Version(runtime, epoch, revision, tree) ==
    [runtime |-> runtime, epoch |-> epoch, revision |-> revision,
     graph |-> [nodes |-> tree.nodes, rel |-> tree.rel], roots |-> tree.roots]

Latest == versions[Len(versions)]

Update(kind, v, sequence, complete) ==
    [kind |-> kind, version |-> v, sequence |-> sequence, complete |-> complete]

(* The source's tree changes: in place, in a new epoch (whose revisions may *)
(* go on or begin again) or because the runtime restarted.  It queues a     *)
(* delta or a snapshot, numbered from 1 in each runtime, or has no room     *)
(* left and queues that it dropped.  A restarted runtime has a source, and  *)
(* a queue, of its own.                                                     *)
SourceChange ==
    /\ Len(versions) < MaxVersions
    /\ \E tree \in Catalogue, next \in {
            <<Latest.runtime, Latest.epoch, Latest.revision + 1>>,
            <<Latest.runtime, Latest.epoch + 1, Latest.revision>>,
            <<Latest.runtime, Latest.epoch + 1, 1>>,
            <<Latest.runtime + 1, 1, 1>>} :
        /\ versions' = Append(versions, Version(next[1], next[2], next[3], tree))
        /\ LET v == Len(versions) + 1
                sequence == Cardinality({w \in DOMAIN versions :
                                versions[w].runtime = next[1]}) + 1
                kinds == IF next[1] = Latest.runtime /\ Len(queue) >= MaxQueue
                         THEN {"gap"}
                         ELSE IF <<next[1], next[2]>> = Scope(Latest)
                              THEN {"delta", "snapshot"} ELSE {"snapshot"}
           IN  \E kind \in kinds, complete \in BOOLEAN :
                /\ kind = "snapshot" \/ complete
                /\ queue' = Append(IF next[1] = Latest.runtime THEN queue ELSE <<>>,
                                   Update(kind, v, sequence, complete))
    /\ UNCHANGED <<store, thread, batch, sink, told, mirror, resyncs>>

DeltaOf(v) ==
    LET g == versions[v - 1].graph
        h == versions[v].graph
        gone == Nodes(g) \ Nodes(h)
    IN  [added   |-> Restrict(h.nodes, Nodes(h) \ Nodes(g)),
         changed |-> Restrict(h.nodes, {n \in Nodes(g) \cap Nodes(h) :
                                            g.nodes[n] # h.nodes[n]}),
         removed |-> gone,
         rel_added   |-> h.rel \ g.rel,
         rel_removed |-> {r \in g.rel \ h.rel :
                              r[1] \notin gone /\ r[2] \notin gone}]

----------------------------------------------------------------------------
\* TreeStore::apply

staged_generation == IF pending = <<>> THEN current ELSE Last(pending).generation

Generation(v, graph) ==
    [runtime |-> versions[v].runtime, epoch |-> versions[v].epoch,
     revision |-> versions[v].revision, graph |-> graph]

SameRuntime(u) ==
    staged_generation # None
    /\ versions[u.version].runtime = staged_generation.runtime

(* Refusals that come before the payload is looked at. *)
RefusedAtOnce(u) ==
    \/ versions[u.version].runtime \in retired
    \/ SameRuntime(u) /\ u.sequence # 0 /\ u.sequence <= last_source_sequence

(* The generation an update makes, as a set that is empty when the update   *)
(* is refused.                                                              *)
prepare_snapshot(u) ==
    LET v == versions[u.version] IN
    IF \/ /\ staged_generation # None
          /\ Scope(v) = Scope(staged_generation)
          /\ v.revision <= staged_generation.revision
       \/ ~ validate_and_find_roots(v.graph, v.roots)
    THEN {} ELSE {Generation(u.version, v.graph)}

(* Mutant: the base revision a delta names is not compared. *)
prepare_delta_any_base(u) ==
    LET v == versions[u.version]
        d == DeltaOf(u.version)
    IN  IF \/ staged_generation = None
           \/ Scope(v) # Scope(staged_generation)
           \/ v.revision <= staged_generation.revision
           \/ DeltaRefused(staged_generation.graph, d)
           \/ ~ validate_and_find_roots(
                    snapshot_from_delta(staged_generation.graph, d), {})
        THEN {}
        ELSE {Generation(u.version,
                         snapshot_from_delta(staged_generation.graph, d))}

prepare_delta(u) ==
    LET v == versions[u.version]
        base_revision == versions[u.version - 1].revision
        d == DeltaOf(u.version)
    IN  IF \/ staged_generation = None
           \/ Scope(v) # Scope(staged_generation)
           \/ base_revision # staged_generation.revision
           \/ v.revision <= base_revision
           \/ DeltaRefused(staged_generation.graph, d)
           \/ ~ validate_and_find_roots(
                    snapshot_from_delta(staged_generation.graph, d), {})
        THEN {}
        ELSE {Generation(u.version,
                         snapshot_from_delta(staged_generation.graph, d))}

Prepared(u) ==
    IF requires_resnapshot /\ ~ (u.kind = "snapshot" /\ u.complete) THEN {}
    ELSE IF u.kind = "snapshot" THEN prepare_snapshot(u) ELSE prepare_delta(u)

(* What a thread does once apply() has answered: drain_source() goes on     *)
(* after a success and gives up on a refusal; attach() gives the binding up.*)
Answered(t, ok) ==
    LET th == [thread[t] EXCEPT !.held = None] IN
    CASE th.job = "attach"  -> [th EXCEPT !.pc = IF ok THEN "next" ELSE "failed",
                                          !.drained = TRUE]
      [] th.job = "prime"   -> [th EXCEPT !.pc = IF ok THEN "next" ELSE "failed",
                                          !.job = IF ok THEN "observe" ELSE "prime"]
      [] th.job = "observe" -> [th EXCEPT !.pc = IF ok THEN "next" ELSE "done"]
      [] th.job = "pump"    -> [th EXCEPT !.pc = "next"]
      [] th.job = "resync"  -> [th EXCEPT !.pc = "idle"]

ApplyRefused(t) ==
    LET u == thread[t].held IN
    /\ thread[t].pc = "apply"
    /\ \/ RefusedAtOnce(u)
       \/ /\ u.kind = "gap"
          /\ staged_generation # None
          /\ Scope(versions[u.version]) # Scope(staged_generation)
       \/ u.kind # "gap" /\ Prepared(u) = {}
    /\ thread' = [thread EXCEPT ![t] = Answered(t, FALSE)]
    /\ UNCHANGED <<source, store, batch, sink, told, mirror, resyncs>>

(* A gap is remembered and answered with an error of its own. *)
ApplyGap(t) ==
    LET u == thread[t].held IN
    /\ thread[t].pc = "apply"
    /\ u.kind = "gap"
    /\ ~ RefusedAtOnce(u)
    /\ \/ staged_generation = None
       \/ Scope(versions[u.version]) = Scope(staged_generation)
    /\ requires_resnapshot' = TRUE
    /\ last_source_sequence' =
            IF u.sequence # 0 THEN u.sequence ELSE last_source_sequence
    /\ thread' = [thread EXCEPT ![t] = Answered(t, FALSE)]
    /\ UNCHANGED <<source, current, previous, pending, retired, publishing,
                   batch, sink, told, mirror, resyncs>>

RuntimeChanged(gen) ==
    staged_generation # None /\ staged_generation.runtime # gen.runtime

retired_after(gen) ==
    IF RuntimeChanged(gen) THEN retired \cup {staged_generation.runtime} ELSE retired

(* Mutant: everyone who staged something publishes. *)
should_publish_always == TRUE

should_publish == ~ publishing

ApplyStaged(t) ==
    LET u == thread[t].held IN
    /\ thread[t].pc = "apply"
    /\ ~ RefusedAtOnce(u)
    /\ u.kind # "gap"
    /\ \E gen \in Prepared(u) :
        LET events == IF u.kind = "snapshot"
                      THEN derive_replacement_events(staged_generation, gen)
                      ELSE derive_same_scope_events(staged_generation, gen)
        IN  /\ pending' = Append(pending, [generation |-> gen, events |-> events])
            /\ retired' = retired_after(gen)
            /\ last_source_sequence' =
                    IF u.sequence # 0 \/ RuntimeChanged(gen)
                    THEN u.sequence ELSE last_source_sequence
    /\ requires_resnapshot' =
            (requires_resnapshot /\ ~ (u.kind = "snapshot" /\ u.complete))
    /\ publishing' = TRUE
    /\ thread' = [thread EXCEPT ![t] = IF should_publish
                                       THEN [@ EXCEPT !.pc = "publish"]
                                       ELSE Answered(t, TRUE)]
    /\ UNCHANGED <<source, current, previous, batch, sink, told, mirror, resyncs>>

----------------------------------------------------------------------------
\* drain_publications and the sink

(* Mutant: the publisher leaves without saying so. *)
publishing_when_drained_kept == publishing

publishing_when_drained == FALSE

PublishNext(t) ==
    /\ thread[t].pc = "publish"
    /\ batch[t] = <<>>
    /\ pending # <<>>
    /\ batch' = [batch EXCEPT ![t] = Head(pending).events]
    /\ previous' = current
    /\ current' = Head(pending).generation
    /\ pending' = Tail(pending)
    /\ UNCHANGED <<source, retired, last_source_sequence, requires_resnapshot,
                   publishing, thread, sink, told, mirror, resyncs>>

PublishDone(t) ==
    /\ thread[t].pc = "publish"
    /\ batch[t] = <<>>
    /\ pending = <<>>
    /\ publishing' = publishing_when_drained
    /\ thread' = [thread EXCEPT ![t] = Answered(t, TRUE)]
    /\ UNCHANGED <<source, current, previous, pending, retired,
                   last_source_sequence, requires_resnapshot, batch, sink, told,
                   mirror, resyncs>>

Without(f, x) == Restrict(f, DOMAIN f \ {x})
Put(f, x, y)  == (x :> y) @@ f

(* A consumer's own tree: it adds and drops what the event names and reads  *)
(* a node's facts from the store when the event tells it to.                *)
Replay(g, e) ==
    CASE e.kind \in {"NodeAdded", "NodeChanged"} ->
            [g EXCEPT !.nodes = Put(@, e.node, current.graph.nodes[e.node])]
      [] e.kind = "NodeRemoved" -> [g EXCEPT !.nodes = Without(@, e.node)]
      [] e.kind = "RelationAdded" ->
            [g EXCEPT !.rel = @ \cup {<<e.node, e.related, e.relation>>}]
      [] e.kind = "RelationRemoved" ->
            [g EXCEPT !.rel = @ \ {<<e.node, e.related, e.relation>>}]

(* A batch is told from the one before by the store's revision alone. *)
BatchBegun(s, revision) ==
    IF revision = s.batch_revision THEN s
    ELSE [s EXCEPT !.previous_revision = s.batch_revision,
                   !.batch_revision = revision,
                   !.pending_active = <<>>]

(* Mutant: only a removal seen earlier in the batch names the old child. *)
PreviousActivePending(s, parent) ==
    IF parent \in DOMAIN s.pending_active THEN s.pending_active[parent] ELSE 0

PreviousActive(s, parent) ==
    IF parent \in DOMAIN s.pending_active THEN s.pending_active[parent]
    ELSE IF parent \in DOMAIN s.current_active THEN s.current_active[parent] ELSE 0

(* publish_tree_event(): the sink's state once it has seen the event. *)
Translated(s, e) ==
    LET known == IF e.kind = "NodeRemoved"
                 THEN [s EXCEPT !.current_active = Without(@, e.node)] ELSE s
    IN  CASE e.relation = "active_child" /\ e.kind = "RelationRemoved" ->
                [known EXCEPT
                    !.pending_active = Put(@, e.node, e.related),
                    !.current_active =
                        IF e.node \in DOMAIN @ /\ @[e.node] = e.related
                        THEN Without(@, e.node) ELSE @]
          [] e.relation = "active_child" /\ e.kind = "RelationAdded" ->
                [known EXCEPT
                    !.pending_active = Without(@, e.node),
                    !.current_active = Put(@, e.node, e.related)]
          [] OTHER -> known

publish_tree_event(s, e) ==
    LET b == BatchBegun(s.sink, current.revision) IN
    [sink |-> Translated(b, e),
     told |-> IF e.relation = "active_child" /\ e.kind = "RelationAdded"
              THEN s.told \cup {[parent |-> e.node, child |-> e.related,
                                 previous_active |-> PreviousActive(b, e.node)]}
              ELSE s.told,
     mirror |-> Replay(s.mirror, e)]

(* The events of one batch go to the sink one after the other.  They are one *)
(* step: what other threads do between two of them (take, stage) neither    *)
(* reads nor writes anything the sink uses, and the store's current          *)
(* generation moves only with PublishNext.                                   *)
Deliver(t) ==
    LET s == FoldLeft(publish_tree_event,
                      [sink |-> sink, told |-> {}, mirror |-> mirror], batch[t])
    IN  /\ thread[t].pc = "publish"
        /\ batch[t] # <<>>
        /\ batch' = [batch EXCEPT ![t] = <<>>]
        /\ sink' = s.sink
        /\ told' = s.told
        /\ mirror' = s.mirror
        /\ UNCHANGED <<source, store, thread, resyncs>>

----------------------------------------------------------------------------
\* The threads

(* attach() has set the binding's source: the pump may run, resync() sees it. *)
Attached == thread[Starter].job = "observe"

Draining(t) ==
    /\ thread[t].pc = "next"
    /\ t = Starter \/ Attached

(* drain_source(): the update is taken from the source ... *)
NextUpdate(t) ==
    /\ Draining(t)
    /\ queue # <<>>
    /\ thread' = [thread EXCEPT ![t].held = Head(queue), ![t].pc = "apply"]
    /\ queue' = Tail(queue)
    /\ UNCHANGED <<versions, store, batch, sink, told, mirror, resyncs>>

(* ... or there is none: attach() primes a binding that drained nothing     *)
(* with a snapshot of its own; start_observation() is done.                 *)
NothingQueued ==
    /\ Draining(Starter)
    /\ queue = <<>>
    /\ thread' = [thread EXCEPT ![Starter] =
            CASE @.job = "attach" /\ ~ @.drained ->
                    [@ EXCEPT !.job = "prime", !.pc = "snapshot"]
              [] @.job = "attach" /\ @.drained -> [@ EXCEPT !.job = "observe"]
              [] @.job = "observe" -> [@ EXCEPT !.pc = "done"]]
    /\ UNCHANGED <<source, store, batch, sink, told, mirror, resyncs>>

(* The source's snapshot() for attach() and resync(), without a sequence    *)
(* number; it is applied later, when the source may have moved on.          *)
TakeSnapshot(t) ==
    /\ thread' = [thread EXCEPT ![t].pc = "apply",
            ![t].held = Update("snapshot", Len(versions), 0, TRUE)]
    /\ UNCHANGED <<source, store, batch, sink, told, mirror>>

Prime == thread[Starter].pc = "snapshot" /\ TakeSnapshot(Starter) /\ UNCHANGED resyncs

resync(t) ==
    /\ t \in Resyncers
    /\ thread[t].pc = "idle"
    /\ Attached
    /\ resyncs < MaxResyncs
    /\ resyncs' = resyncs + 1
    /\ TakeSnapshot(t)

ThreadStep(t) ==
    \/ NextUpdate(t)
    \/ ApplyRefused(t)
    \/ ApplyGap(t)
    \/ ApplyStaged(t)
    \/ PublishNext(t)
    \/ PublishDone(t)
    \/ Deliver(t)

Init ==
    /\ \E tree \in Catalogue : versions = <<Version(1, 1, 1, tree)>>
    /\ queue \in {<<>>, <<Update("snapshot", 1, 1, TRUE)>>}
    /\ current = None /\ previous = None /\ pending = <<>>
    /\ retired = {} /\ last_source_sequence = 0
    /\ requires_resnapshot = FALSE /\ publishing = FALSE
    /\ thread = [t \in Threads |->
            [pc |-> IF t \in Resyncers THEN "idle" ELSE "next",
             job |-> IF t = Starter THEN "attach"
                     ELSE IF t = Pump THEN "pump" ELSE "resync",
             held |-> None, drained |-> FALSE]]
    /\ batch = [t \in Threads |-> <<>>]
    /\ sink = [batch_revision |-> 0, previous_revision |-> 0,
               pending_active |-> <<>>, current_active |-> <<>>]
    /\ told = {}
    /\ mirror = EmptyTree
    /\ resyncs = 0

Next ==
    \/ SourceChange
    \/ NothingQueued
    \/ Prime
    \/ \E t \in Resyncers : resync(t)
    \/ \E t \in Threads : ThreadStep(t)

(* Deliver(t) seen from outside, for the fairness below: no other step      *)
(* empties a batch.                                                         *)
Delivered(t) == batch[t] # <<>> /\ batch' = [batch EXCEPT ![t] = <<>>]

(* A publisher is scheduled and the sink returns; the source need not       *)
(* change, the pump may sleep for ever and nobody need call resync().       *)
Spec ==
    /\ Init /\ [][Next]_vars
    /\ \A t \in Threads : WF_vars(PublishNext(t) \/ PublishDone(t))
                         /\ WF_batch(Delivered(t))

----------------------------------------------------------------------------
\* Properties

Generations ==
    {p.generation : p \in ToSet(pending)}
    \cup (IF current = None THEN {} ELSE {current})
    \cup (IF previous = None THEN {} ELSE {previous})

(* A generation the store holds is a tree the source really had at that     *)
(* scope and revision, and a forest of contains: no lost, late or repeated  *)
(* update ever yields a mixture of two trees.                               *)
StoreIsReplica ==
    \A g \in Generations :
        /\ \E v \in ToSet(versions) :
            v.runtime = g.runtime /\ v.epoch = g.epoch /\ v.revision = g.revision
            /\ v.graph = g.graph
        /\ \A S \in (SUBSET Nodes(g.graph)) \ {{}} :
            \E n \in S : Parents(g.graph, n) \cap S = {}

(* A consumer that only follows the events has, once a batch is delivered,  *)
(* exactly the tree snapshot() shows.                                       *)
MirrorFollows ==
    current # None /\ (\A t \in Threads : batch[t] = <<>>)
        => mirror = current.graph

(* No more than one thread delivers events, and never with nothing said     *)
(* about updates still waiting.                                             *)
OnePublisher ==
    /\ Cardinality({t \in Threads : thread[t].pc = "publish"}) <= 1
    /\ publishing <=> \E t \in Threads : thread[t].pc = "publish"
    /\ pending # <<>> => publishing

ActiveOf(gen, parent) ==
    IF gen = None THEN {0}
    ELSE LET c == {r[2] : r \in {x \in gen.graph.rel :
                          x[1] = parent /\ x[3] = "active_child"}}
         IN  IF c = {} THEN {0} ELSE c

(* ActiveChildChanged names the child that was active in the generation     *)
(* before, whichever way round the diff lists the two edges.  The sink      *)
(* knows a new batch by its revision alone, so that must have moved since   *)
(* the last batch it saw.                                                   *)
ActiveChildTrue ==
    [][(told' # told /\ sink.batch_revision # current.revision)
        => \A c \in told' : c.previous_active \in ActiveOf(previous, c.parent)]_vars

(* The generations readers see, oldest first, and those waiting behind. *)
Line ==
    (IF previous = None THEN <<>> ELSE <<previous>>)
    \o (IF current = None THEN <<>> ELSE <<current>>)
    \o [i \in DOMAIN pending |-> pending[i].generation]

(* The tree only moves forward: within a scope the revision grows, and a    *)
(* runtime the store has left for another never comes back.                 *)
ForwardOnly ==
    /\ \A i \in 1..(Len(Line) - 1) :
        Scope(Line[i]) = Scope(Line[i + 1]) => Line[i].revision < Line[i + 1].revision
    /\ \A i, k \in DOMAIN Line : \A j \in i..k :
        Line[i].runtime = Line[k].runtime => Line[j].runtime = Line[i].runtime

(* What readers may see is always a tree that was, and never an older one. *)
StoreSound == StoreIsReplica /\ ForwardOnly

(* Those who live on the events alone are told the truth: the tree that is, *)
(* and which child was active before.                                       *)
EventsTellTree == []MirrorFollows /\ ActiveChildTrue

(* Every update apply() accepted is published: whatever waits is delivered. *)
Published == (pending # <<>> \/ publishing) ~> (pending = <<>> /\ ~ publishing)

============================================================================
