----------------------------- MODULE PodTracker -----------------------------
(***************************************************************************)
(* One node's podTracker and the pod series exported for that node, driven *)
(* by whole scrapes: setMetricsFromSummary runs EvictStalePods and then    *)
(* sets the gauges of every pod that has figures, before the next summary  *)
(* of the node is looked at.  (Exporter drops that last assumption.)       *)
(*                                                                         *)
(* scrapes and lastIn are history: the code has neither.  They say what    *)
(* the miss counts mean, and map this machine to MissWindow.               *)
(***************************************************************************)
EXTENDS StaleTracking

CONSTANT MaxScrapes   \* bound on the summaries of one monitoring period

ASSUME MaxScrapesAssumption == MaxScrapes \in Nat

VARIABLES
  lastSeen,   \* tracker.lastSeen of the node
  exported,   \* pods with a series labelled with this node
  scrapes,    \* history: summaries processed since the tracker was created
  lastIn      \* history: the last summary that reported each pod, 0 for none

vars == <<lastSeen, exported, scrapes, lastIn>>

TypeOK ==
  /\ lastSeen \in LastSeen
  /\ exported \subseteq Pods
  /\ scrapes \in Nat
  /\ lastIn \in [Pods -> Nat]

Init ==
  /\ lastSeen = EmptyTracker
  /\ exported = {}
  /\ scrapes = 0
  /\ lastIn = [p \in Pods |-> 0]

-----------------------------------------------------------------------------
\* Mutants of the definitions below, named for the bug.
OnlyMeasuredCount(present, measured) == Names(measured)
TrackerKept == lastSeen
-----------------------------------------------------------------------------

\* currentPods: every pod of the summary, those without figures included.
CurrentPods(present, measured) == Names(present)

\* evictPodByName deletes by the label pod_name alone.
EvictPodByName(series, names) == {p \in series : NameOf[p] \notin names}

\* setMetricsFromSummary: EvictStalePods, then SetMetrics for measured pods.
Scrape(present, measured) ==
  LET current == CurrentPods(present, measured)
  IN /\ scrapes < MaxScrapes
     /\ lastSeen' = AfterScrape(lastSeen, current)
     /\ exported' = EvictPodByName(exported, StaleNames(lastSeen, current)) \cup measured
     /\ scrapes' = scrapes + 1
     /\ lastIn' = [p \in Pods |-> IF p \in present THEN scrapes + 1 ELSE lastIn[p]]

\* nodeTrackers.Delete(nodeName): the next scrape starts an empty tracker.
TrackerDeleted == EmptyTracker

\* EvictPodByNode
EvictNode ==
  /\ lastSeen' = TrackerDeleted
  /\ exported' = {}
  /\ scrapes' = 0
  /\ lastIn' = [p \in Pods |-> 0]

Next ==
  \/ \E present \in SUBSET Pods : \E measured \in SUBSET present :
        Scrape(present, measured)
  \/ EvictNode

Spec == Init /\ [][Next]_vars

-----------------------------------------------------------------------------
\* No two pods the node ever reports have the same name.
UniqueNames == \A p, r \in Pods : NameOf[p] = NameOf[r] => p = r

\* The meaning of the miss counts (metrics.go:48-51): the count of a pod's
\* name is the number of consecutive summaries it has been missing from, and
\* the name is forgotten exactly when that number reaches the tolerance.
CountsConsecutiveMisses ==
  \A p \in Pods :
     lastSeen[NameOf[p]] =
       IF lastIn[p] > 0 /\ scrapes - lastIn[p] < scrapeMissTolerance
       THEN scrapes - lastIn[p]
       ELSE NotTracked

\* A series whose name the tracker forgot would never be evicted: every
\* exported pod is still counted.
ExportedAreTracked ==
  \A p \in exported : lastSeen[NameOf[p]] # NotTracked

\* The promise of the doc comment of EvictStalePods, pod by pod.
Promise == INSTANCE MissWindow WITH Tolerance <- scrapeMissTolerance

\* The tracker keeps that promise: pods absent for scrapeMissTolerance
\* consecutive scrapes lose their series, no other pod does.
KeepsPromise == Promise!Spec
=============================================================================
