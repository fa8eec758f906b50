--------------------------- MODULE AtomicScrapes ---------------------------
(***************************************************************************)
(* What the tracker and the pod series of one node would be if every       *)
(* scrape and every eviction of the node took effect at once: the abstract *)
(* specification of Exporter, seen from one node.  Exporter's workers and  *)
(* watcher take many steps for each of these, with nothing locked across.  *)
(***************************************************************************)
EXTENDS StaleTracking

VARIABLES
  lastSeen,   \* the counts of the node's podTracker
  exported    \* pods with a series on the node

vars == <<lastSeen, exported>>

Init ==
  /\ lastSeen = EmptyTracker
  /\ exported = {}

Without(names) == {p \in exported : NameOf[p] \notin names}

\* A summary of the names current: the stale go, the pods measured are set.
Scrape(current, measured) ==
  /\ lastSeen' = AfterScrape(lastSeen, current)
  /\ exported' = Without(StaleNames(lastSeen, current)) \cup measured

EvictNode ==
  /\ lastSeen' = EmptyTracker
  /\ exported' = {}

\* Series of a name go for another reason: the name is stale on another node,
\* a pod was deleted, or the eviction of the node ran into the next scrape.
\* The count stays, so they can come back only with a summary.
Lose(q, lost) ==
  /\ \A p \in lost : NameOf[p] = q
  /\ exported' = exported \ lost
  /\ UNCHANGED lastSeen

\* Lose for each of the names: a scrape of another node, when it is one step.
LoseNames(names) ==
  /\ exported' = Without(names)
  /\ UNCHANGED lastSeen

Next ==
  \/ \E current \in SUBSET PodNames :
       \E measured \in SUBSET {p \in Pods : NameOf[p] \in current} : Scrape(current, measured)
  \/ EvictNode
  \/ \E q \in PodNames : \E lost \in SUBSET Pods : Lose(q, lost)

Spec == Init /\ [][Next]_vars
=============================================================================
