------------------------ MODULE MCSequencePlayer ------------------------
EXTENDS SequencePlayer

Step(op, of, after, policy, target) ==
    [given |-> TRUE, after |-> after, op |-> op, of |-> of, policy |-> policy, target |-> target]

(* Every shape of three steps: each depends on the step before it by      *)
(* default, or on any set of positions, itself and a missing one included. *)
Shapes == [1..3 -> {[given |-> FALSE, after |-> {}]} \cup [given : {TRUE}, after : SUBSET (1..4)]]

Shaped(shape, cast) ==
    [i \in 1..3 |-> [cast[i] EXCEPT !.given = shape[i].given, !.after = shape[i].after]]

Cast == << Step("press", "B1", {}, "Continue", 0),
           Step("drag",  "B2", {}, "Goto", 3),
           Step("lift",  "B1", {}, "Abort", 0) >>

Chord == << Step("press", "B1", {}, "Abort", 0),
            Step("press", "K", {1}, "Abort", 0),
            Step("click", "B2", {2}, "Continue", 0),
            Step("lift", "K", {3}, "Continue", 0),
            Step("lift", "B1", {3}, "Abort", 0) >>

Carry == << Step("grab", "G", {}, "Goto", 5),
            Step("move", "none", {1}, "Abort", 0),
            Step("capture", "none", {1}, "Continue", 0),
            Step("ungrab", "G", {2, 3}, "Abort", 0),
            Step("converge", "none", {}, "Goto", 4) >>

Fork == << Step("wait", "none", {}, "Abort", 0),
           Step("drag", "B1", {}, "Goto", 3),
           Step("instant", "none", {1}, "Abort", 0) >>

Lost == << Step("instant", "none", {}, "Goto", 2) >>

MCDocuments == {Shaped(s, Cast) : s \in Shapes} \cup {Chord, Carry, Fork, Lost}

=============================================================================
