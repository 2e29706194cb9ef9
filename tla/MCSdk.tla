--------------------------------- MODULE MCSdk ---------------------------------
(* An instance of SdkCalls for TLC: two calls of any client. *)
EXTENDS SdkCalls, TLC

CONSTANTS c1, c2

MCMenu ==
  (c1 :> {"once", "unique", "merge"}) @@ (c2 :> {"new", "once", "unique", "remove", "batch", "merge", "rewrite"})
================================================================================
