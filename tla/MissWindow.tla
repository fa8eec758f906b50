----------------------------- MODULE MissWindow -----------------------------
(***************************************************************************)
(* What the doc comment of EvictStalePods promises for one node, with no   *)
(* miss counts in it: a pod's series stays until the pod has been absent   *)
(* from Tolerance consecutive stats summaries, and not one scrape longer.  *)
(* scrapes numbers the summaries processed since the node was last         *)
(* evicted; lastIn[p] is the last of them that reported p, 0 for none.     *)
(***************************************************************************)
EXTENDS Integers

CONSTANTS Pods, Tolerance

VARIABLES
  scrapes,    \* summaries processed since the last eviction of the node
  lastIn,     \* lastIn[p]: the last summary that reported pod p
  exported    \* the pods with a series on the node

vars == <<scrapes, lastIn, exported>>

Init ==
  /\ scrapes = 0
  /\ lastIn = [p \in Pods |-> 0]
  /\ exported = {}

\* Pod p has been absent from the last Tolerance summaries, the k-th included.
Absent(p, k, last) == k - last[p] >= Tolerance

\* A summary reports the pods present, measured of them with usage figures.
Scrape(present, measured) ==
  /\ scrapes' = scrapes + 1
  /\ lastIn' = [p \in Pods |-> IF p \in present THEN scrapes' ELSE lastIn[p]]
  /\ exported' = {p \in exported : ~Absent(p, scrapes', lastIn')} \cup measured

\* The node stops answering or leaves the cluster: all its series go.
EvictNode ==
  /\ scrapes' = 0
  /\ lastIn' = [p \in Pods |-> 0]
  /\ exported' = {}

Next ==
  \/ \E present \in SUBSET Pods : \E measured \in SUBSET present :
        Scrape(present, measured)
  \/ EvictNode

Spec == Init /\ [][Next]_vars
=============================================================================
