---------------------------- MODULE MCPodTracker ----------------------------
(* Values of the constants of PodTracker for model checking. *)
EXTENDS PodTracker, TLC

CONSTANTS p1, p2, p3, a, b, c

DistinctNames == (p1 :> a) @@ (p2 :> b) @@ (p3 :> c)
=============================================================================
