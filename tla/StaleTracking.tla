--------------------------- MODULE StaleTracking ---------------------------
(***************************************************************************)
(* The arithmetic of pod.EvictStalePods: what one scrape of a node does to *)
(* the miss counts of that node's podTracker.  Pure operators, shared by   *)
(* the single-tracker machine (PodTracker) and the concurrent exporter     *)
(* (Exporter).                                                             *)
(*                                                                         *)
(* The Go map lastSeen map[string]int is a total function on pod names     *)
(* whose value NotTracked stands for "not a key of the map".               *)
(***************************************************************************)
EXTENDS Integers

CONSTANTS
  Pods,            \* pods as the cluster knows them (namespace and name)
  PodNames,        \* metadata.name of a pod, the only part the exporter keys by
  NameOf,          \* NameOf[p]: the name of pod p
  MissTolerance    \* the SCRAPE_MISS_TOLERANCE environment variable

ASSUME NameAssumption == NameOf \in [Pods -> PodNames]
ASSUME MissToleranceAssumption == MissTolerance \in Int

\* NewCollector: anything below 1 (an unparsable value reads as 0) becomes 2.
scrapeMissTolerance == IF MissTolerance < 1 THEN 2 ELSE MissTolerance

NotTracked == -1
LastSeen == [PodNames -> Nat \cup {NotTracked}]
EmptyTracker == [q \in PodNames |-> NotTracked]

Names(S) == {NameOf[p] : p \in S}

-----------------------------------------------------------------------------
\* Mutants of the definitions below, named for the bug.
ToleranceOffByOne(lastSeen, q) == lastSeen[q] + 1 > scrapeMissTolerance
MissForgiven(lastSeen, q) == lastSeen[q] - 1
MissesAccumulate(lastSeen, q) == IF lastSeen[q] = NotTracked THEN 0 ELSE lastSeen[q]
SurvivorsForgotten(lastSeen, current) ==
  [q \in PodNames |-> IF q \in current THEN 0 ELSE NotTracked]
-----------------------------------------------------------------------------

\* misses++; misses >= scrapeMissTolerance
ReachesTolerance(lastSeen, q) == lastSeen[q] + 1 >= scrapeMissTolerance

\* tracker.lastSeen[name] = 0 for a name the summary reports
Reset(lastSeen, q) == 0

\* The names EvictStalePods evicts when the summary reports the names current.
StaleNames(lastSeen, current) ==
  {q \in PodNames \ current :
     lastSeen[q] # NotTracked /\ ReachesTolerance(lastSeen, q)}

\* lastSeen when EvictStalePods returns.
AfterScrape(lastSeen, current) ==
  [q \in PodNames |->
     IF q \in current THEN Reset(lastSeen, q)
     ELSE IF lastSeen[q] = NotTracked \/ q \in StaleNames(lastSeen, current)
          THEN NotTracked
          ELSE lastSeen[q] + 1]
=============================================================================
