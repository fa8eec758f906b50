----------------------------- MODULE MCExporter -----------------------------
(* Values of the constants of Exporter for model checking. *)
EXTENDS Exporter, TLC

CONSTANTS n1, n2, p1, p2, a, b, w1, w2, t1, t2, t3, t4

OnePod == p1 :> a

\* Workers, and addresses of trackers, are interchangeable.
Symmetric == Permutations(Workers) \cup Permutations(TrackerIds)
=============================================================================
