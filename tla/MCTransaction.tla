---------------------------- MODULE MCTransaction ----------------------------
(* Two routes, of which the first breaks the promise about its errors, and   *)
(* one barrier.                                                              *)
EXTENDS Transaction

MCRoutes   == <<"activate", "pointer">>
MCBarriers == {"b"}
MCLax      == {"activate"}
=============================================================================
