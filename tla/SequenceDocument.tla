------------------------- MODULE SequenceDocument -------------------------
(***************************************************************************)
(* A sequence document as the loader sees it and as the player gets it.    *)
(*                                                                         *)
(* A raw document is a sequence of steps.  A step is a record              *)
(*   given   whether the step carries an `after` field at all;             *)
(*   after   the document positions that field names;                      *)
(*   op      what the step does, by the class of its command;              *)
(*   of      the button, key or pointer capture it is about;               *)
(*   policy  "Abort", "Continue" or "Goto", and                            *)
(*   target  the position a Goto names.                                    *)
(* Labels are the positions themselves: the loader resolves every label to *)
(* a position before anything else looks at it.  A position outside the    *)
(* document stands for a label no step carries or an index out of range.   *)
(***************************************************************************)
EXTENDS Naturals, Sequences, FiniteSets, SequencesExt

Ids(doc) == [i \in 1..Len(doc) |-> i]

(***************************************************************************)
(* A step with no `after` depends on the step before it, the first step on *)
(* nothing.  An entry that names no step, or the step itself, is refused:  *)
(* the graph drops a self-loop silently, so the sort would not see it.     *)
(***************************************************************************)
parse_after(doc, i) == IF doc[i].given THEN doc[i].after ELSE {i - 1} \ {0}

AfterAccepted(doc, i) == parse_after(doc, i) \subseteq (1..Len(doc)) \ {i}

parse_error_policy(doc, i) == doc[i].policy = "Goto" => doc[i].target \in 1..Len(doc)

(* The document with the `after` relation spelled out. *)
Resolved(doc) ==
    [i \in 1..Len(doc) |-> [doc[i] EXCEPT !.given = TRUE, !.after = parse_after(doc, i)]]

(***************************************************************************)
(* Kahn's algorithm.  walk[c] is the state after the cursor has passed the *)
(* first c entries of the order; a cursor that catches up with the order   *)
(* stops it.  Nodes and out-edges are walked in ascending key order.       *)
(***************************************************************************)
topological_order(doc) ==
    LET n == Len(doc)
        walk[c \in 0..n] ==
            IF c = 0
            THEN [order     |-> SelectSeq(Ids(doc), LAMBDA i : doc[i].after = {}),
                  remaining |-> [i \in 1..n |-> Cardinality(doc[i].after)]]
            ELSE LET w == walk[c - 1] IN
                 IF c > Len(w.order) THEN w
                 ELSE LET Opens(i) == w.order[c] \in doc[i].after
                          left     == [i \in 1..n |-> IF Opens(i) THEN w.remaining[i] - 1
                                                                  ELSE w.remaining[i]]
                      IN  [order     |-> w.order \o SelectSeq(Ids(doc),
                                              LAMBDA i : Opens(i) /\ left[i] = 0),
                           remaining |-> left]
    IN  walk[n].order

(* Mutant: a sort that got started is taken for one that finished. *)
build_StartedOnly(doc) == topological_order(doc) # <<>> \/ doc = <<>>

(* Sequence::build refuses a document its sort cannot linearise. *)
build(doc) == Len(topological_order(doc)) = Len(doc)

parse_document(doc) ==
    /\ \A i \in 1..Len(doc) : AfterAccepted(doc, i) /\ parse_error_policy(doc, i)
    /\ build(Resolved(doc))

(* Every step `id` depends on, directly or through others. *)
ancestors_of(doc, id) ==
    LET grow[k \in 0..Len(doc)] ==
            IF k = 0 THEN doc[id].after
                     ELSE grow[k - 1] \cup UNION {doc[j].after : j \in grow[k - 1]}
    IN  grow[Len(doc)]

=============================================================================
