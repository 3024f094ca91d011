---------------------------- MODULE MCTreeStore ----------------------------
EXTENDS TreeStore

Tree(facts, rel) ==
    [nodes |-> facts, rel |-> rel,
     roots |-> {n \in DOMAIN facts : \A r \in rel : r[3] = "contains" => r[2] # n}]

(* From one to the other a node and its relations go, another's facts and *)
(* an extension relation change, and the active child moves: one way the  *)
(* diff lists its removal first, the other way its addition.              *)
Trees ==
    {Tree(<<0, 0, 0>>, {<<1, 2, "contains">>, <<1, 3, "contains">>,
                        <<1, 3, "active_child">>}),
     Tree(<<0, 1>>, {<<1, 2, "contains">>, <<1, 2, "active_child">>,
                     <<2, 1, "extension">>})}

Cycle == [nodes |-> <<0, 0>>, rel |-> {<<1, 2, "contains">>, <<2, 1, "contains">>},
          roots |-> {}]

TreesAndCycle == Trees \cup {Cycle}
=============================================================================
