---------------------------- MODULE MCRpcService ----------------------------
(* Four serving threads for two slots and a queue of two, so that two calls  *)
(* wait and the later one may give up first.  One thread is asked to stream, *)
(* one to push events, the others to do anything else.                       *)
EXTENDS RpcService, TLC

CONSTANTS c1, c2, c3, c4

MCCalls    == {c1, c2, c3, c4}
MCRequests == (c1 :> {"Subscribe"}) @@ (c2 :> {"PushEvent"}) @@ (c3 :> {"Query"}) @@
              (c4 :> {"Query"})
=============================================================================
