------------------------ MODULE AtomicScrapesProofs ------------------------
(***************************************************************************)
(* Exporter implements AtomicScrapes on every node that was not raced, for *)
(* every cluster, every pool of workers and every tolerance.               *)
(***************************************************************************)
EXTENDS ExporterProofs

USE DEF EvictSteps, ScrapeSteps, WatchSteps

\* A step that writes the counts of a summary and anticipates its effect on
\* the series is a scrape of the abstract specification.
LEMMA AtomicScrape ==
  ASSUME NEW n \in Nodes, NEW names \in SUBSET PodNames, NEW pods \in SUBSET Pods,
         \A p \in pods : NameOf[p] \in names,
         NodeTracker(n)' = AfterScrape(NodeTracker(n), names),
         Exported(n)' = {p \in Exported(n) :
                           NameOf[p] \notin StaleNames(NodeTracker(n), names)} \cup pods
  PROVE  Atomic(n)!Next
  <1> DEFINE seen == NodeTracker(n)
  <1>1. Atomic(n)!StaleNames(seen, names) = StaleNames(seen, names)
    BY DEF Atomic!StaleNames, StaleNames, Atomic!ReachesTolerance, ReachesTolerance,
           Atomic!NotTracked, NotTracked, Atomic!scrapeMissTolerance, scrapeMissTolerance
  <1>2. Atomic(n)!AfterScrape(seen, names) = AfterScrape(seen, names)
    BY <1>1 DEF Atomic!AfterScrape, AfterScrape, Atomic!Reset, Reset, Atomic!NotTracked, NotTracked
  <1>3. Atomic(n)!Scrape(names, pods)
    BY <1>1, <1>2 DEF Atomic!Scrape, Atomic!Without
  <1> QED
    BY <1>3 DEF Atomic!Next

\* A step that empties both is an eviction.
LEMMA AtomicEviction ==
  ASSUME NEW n \in Nodes, NodeTracker(n)' = EmptyTracker, Exported(n)' = {}
  PROVE  Atomic(n)!Next
  BY DEF Atomic!Next, Atomic!EvictNode, Atomic!EmptyTracker, EmptyTracker,
         Atomic!NotTracked, NotTracked

\* A step that only takes series of one name away is a loss.
LEMMA AtomicLoss ==
  ASSUME NEW n \in Nodes, NEW q \in PodNames, NodeTracker(n)' = NodeTracker(n),
         Exported(n) \subseteq Pods, Exported(n)' \subseteq Exported(n),
         \A p \in Exported(n) \ Exported(n)' : NameOf[p] = q
  PROVE  Atomic(n)!Next
  <1> DEFINE lost == Exported(n) \ Exported(n)'
  <1>1. Atomic(n)!Lose(q, lost)
    <2>1. Exported(n)' = Exported(n) \ lost
      OBVIOUS
    <2> QED
      BY <2>1 DEF Atomic!Lose
  <1>2. lost \in SUBSET Pods
    OBVIOUS
  <1> QED
    BY <1>1, <1>2 DEF Atomic!Next

-----------------------------------------------------------------------------
(***************************************************************************)
(* LoadTracker stores an empty tracker where there was none, which the     *)
(* mapping does not tell apart: a tracker nobody refers to is empty.       *)
(***************************************************************************)
UnheldEmpty == \A t \in TrackerIds \ Held : trackers[t] = EmptyTracker

\* Every step keeps it: a tracker that loses its last reference is emptied.
LEMMA UnheldEmptyStep ==
  ASSUME TypeOK, UnheldEmpty, [Next]_vars
  PROVE  UnheldEmpty'
  <1> USE DEF UnheldEmpty, Held, treeVars, workVars
  <1>1. ASSUME UNCHANGED <<tracker, treeVars>>
        PROVE  UnheldEmpty'
    BY <1>1
  <1>2. ASSUME trackers' = Swept(trackers)
        PROVE  UnheldEmpty'
    BY <1>2 DEF Swept
  <1>3. CASE Cluster
    BY <1>1, <1>3, ClusterFrame
  <1>4. ASSUME NEW x \in Procs, Evict(x)
        PROVE  UnheldEmpty'
    BY <1>1, <1>2, <1>4 DEF Evict, EvictSet, EvictNodeGauges, EvictTracker, EvictPods
  <1>5. CASE Watch \/ Poll \/ UNCHANGED vars
    BY <1>1, <1>4, <1>5, ConstantTypes
    DEF Watch, NodeReady, StoreEndpoint, NodeNotReady, NodeDeleted, DropEndpoint, Poll, vars, Procs
  <1>6. ASSUME NEW q \in PodNames, PodDeleted(q)
        PROVE  UnheldEmpty'
    BY <1>1, <1>6 DEF PodDeleted
  <1>7. ASSUME NEW w \in Workers, NEW n \in Nodes, Invoke(w, n)
        PROVE  UnheldEmpty'
    BY <1>1, <1>7 DEF Invoke
  <1>8. ASSUME NEW w \in Workers, NEW t \in TrackerIds, LoadTracker(w, t)
        PROVE  UnheldEmpty'
    <2>1. /\ tracker' = [tracker EXCEPT ![w] = t] /\ UNCHANGED trackers
          /\ nodeTrackers' = [nodeTrackers EXCEPT ![on[w]] = t]
          /\ nodeTrackers[on[w]] \in {t, NoTracker} /\ tracker[w] = NoTracker
      BY <1>8 DEF LoadTracker, TypeOK
    <2>2. \A u \in TrackerIds \ Held' : u \notin Held
      BY <2>1, ConstantTypes DEF TypeOK
    <2> QED
      BY <2>1, <2>2
  <1>9. ASSUME NEW w \in Workers, CountMisses(w)
        PROVE  UnheldEmpty'
    <2>1. /\ trackers' = [trackers EXCEPT ![tracker[w]] = AfterScrape(trackers[tracker[w]], current[w])]
          /\ UNCHANGED <<tracker, nodeTrackers>>
      BY <1>9 DEF CountMisses
    <2>2. \A u \in TrackerIds \ Held : u # tracker[w] /\ trackers'[u] = trackers[u]
      BY <2>1 DEF TypeOK
    <2> QED
      BY <2>1, <2>2
  <1>10. ASSUME NEW w \in Workers, Unlock(w)
         PROVE  UnheldEmpty'
    BY <1>2, <1>10 DEF Unlock
  <1>11. ASSUME NEW w \in Workers,
                \/ QuerySucceeds(w) \/ QueryGarbled(w) \/ QueryGivesUp(w)
                \/ SetNodeGauges(w) \/ SetPollingRate(w)
         PROVE  UnheldEmpty'
    BY <1>1, <1>11 DEF QuerySucceeds, QueryGarbled, QueryGivesUp, SetNodeGauges, SetPollingRate
  <1>12. ASSUME NEW w \in Workers, NEW q \in PodNames, EvictStaleName(w, q)
         PROVE  UnheldEmpty'
    BY <1>1, <1>12 DEF EvictStaleName
  <1>13. ASSUME NEW w \in Workers, NEW p \in Pods, SetPodGauges(w, p)
         PROVE  UnheldEmpty'
    BY <1>1, <1>13 DEF SetPodGauges
  <1> QED
    BY <1>3, <1>4, <1>5, <1>6, <1>7, <1>8, <1>9, <1>10, <1>11, <1>12, <1>13
    DEF Next, Work, Procs

-----------------------------------------------------------------------------
(***************************************************************************)
(* The steps.  A step that leaves the following alone leaves the node      *)
(* alone, or can only take series from it.                                 *)
(***************************************************************************)
StepOf(n) == [Atomic(n)!Next]_<<NodeTracker(n), Exported(n)>>

SeriesOf(n) == {p \in Pods : <<p, n>> \in podSeries}

SameTracker(n) ==
  /\ nodeTrackers'[n] = nodeTrackers[n]
  /\ nodeTrackers[n] # NoTracker => trackers'[nodeTrackers[n]] = trackers[nodeTrackers[n]]

SameWork(n) ==
  /\ Setting(n)' = Setting(n)
  /\ Deleting(n)' = Deleting(n)
  /\ Evicting(n, {"evictPods"})' <=> Evicting(n, {"evictPods"})

\* The mapping shows pods of the constant Pods.
LEMMA ExportedTypes ==
  ASSUME TypeOK, NEW n \in Nodes
  PROVE  Setting(n) \subseteq Pods /\ Exported(n) \subseteq Pods
  BY DEF TypeOK, Setting, Exported

\* The workers and evictions of a node do not notice a step in which none of
\* them moves.
LEMMA WorkFrame ==
  ASSUME NEW n \in Nodes,
         \A w \in Workers :
            /\ At(w, n, {"evictStale", "setNode", "setPod"})' <=>
                 At(w, n, {"evictStale", "setNode", "setPod"})
            /\ At(w, n, {"evictStale"})' <=> At(w, n, {"evictStale"})
            /\ At(w, n, {"evictStale", "setNode", "setPod"}) => todo'[w] = todo[w]
            /\ At(w, n, {"evictStale"}) => stale'[w] = stale[w],
         \A x \in Procs : At(x, n, {"evictPods"})' <=> At(x, n, {"evictPods"})
  PROVE  SameWork(n)
  <1>1. Setting(n)' = Setting(n)
    BY DEF Setting
  <1>2. Deleting(n)' = Deleting(n)
    BY DEF Deleting
  <1>3. Evicting(n, {"evictPods"})' <=> Evicting(n, {"evictPods"})
    BY DEF Evicting
  <1> QED
    BY <1>1, <1>2, <1>3 DEF SameWork

\* A step that changes nothing about node n is a stutter.
LEMMA QuietFrame ==
  ASSUME NEW n \in Nodes, SameTracker(n), SameWork(n), SeriesOf(n)' = SeriesOf(n)
  PROVE  StepOf(n)
  <1>1. NodeTracker(n)' = NodeTracker(n)
    BY DEF SameTracker, NodeTracker
  <1>2. \A p \in Pods : <<p, n>> \in podSeries' <=> <<p, n>> \in podSeries
    BY DEF SeriesOf
  <1>3. Exported(n)' = Exported(n)
    BY <1>2 DEF Exported, SameWork
  <1> QED
    BY <1>1, <1>3 DEF StepOf

\* A step that only deletes series of name q is a loss, or a stutter.
LEMMA LossFrame ==
  ASSUME TypeOK, NEW n \in Nodes, NEW q \in PodNames, SameTracker(n), SameWork(n),
         podSeries' = {s \in podSeries : NameOf[s[1]] # q}
  PROVE  StepOf(n)
  <1>1. NodeTracker(n)' = NodeTracker(n)
    BY DEF SameTracker, NodeTracker
  <1>2. \A p \in Pods :
          <<p, n>> \in podSeries' <=> <<p, n>> \in podSeries /\ NameOf[p] # q
    OBVIOUS
  <1>3. Exported(n)' \subseteq Exported(n) /\ \A p \in Exported(n) \ Exported(n)' : NameOf[p] = q
    BY <1>2 DEF Exported, SameWork
  <1> QED
    BY <1>1, <1>3, ExportedTypes, AtomicLoss DEF StepOf

\* nodeTrackers.Delete is the abstract eviction of its node.
LEMMA EvictTrackerAtomic ==
  ASSUME TypeOK, NEW x \in Procs, EvictTracker(x), NEW n \in Nodes, n \notin raced'
  PROVE  StepOf(n)
  <1>0. /\ pc[x] = "evictTracker" /\ on[x] \in Nodes
        /\ UNCHANGED <<on, todo, stale, podSeries>>
        /\ pc' = [pc EXCEPT ![x] = "evictPods"]
        /\ nodeTrackers' = [nodeTrackers EXCEPT ![on[x]] = NoTracker]
    BY DEF EvictTracker, Go, TypeOK, workVars, gauges
  <1>1. /\ pc'[x] = "evictPods" /\ nodeTrackers'[on[x]] = NoTracker
        /\ \A y \in Procs \ {x} : pc'[y] = pc[y]
        /\ \A m \in Nodes \ {on[x]} : nodeTrackers'[m] = nodeTrackers[m]
    BY <1>0 DEF TypeOK
  <1>2. CASE n = on[x]
    <2>1. \A w \in Workers : ~At(w, n, {"evictStale", "setNode", "setPod"})'
      BY <1>0, <1>1, <1>2 DEF EvictTracker, At, Procs
    <2>2. Setting(n)' = {}
      BY <2>1 DEF Setting
    <2>3. Evicting(n, {"evictPods"})'
      BY <1>0, <1>1, <1>2 DEF Evicting, At
    <2>4. NodeTracker(n)' = EmptyTracker
      BY <1>1, <1>2 DEF NodeTracker
    <2> QED
      BY <2>2, <2>3, <2>4, AtomicEviction DEF Exported, StepOf
  <1>3. CASE n # on[x]
    <2>1. SameTracker(n)
      BY <1>1, <1>3 DEF EvictTracker, Swept, Held, TypeOK, SameTracker
    <2>2. SameWork(n)
      BY <1>0, <1>1, <1>3, WorkFrame DEF At, Procs
    <2> QED
      BY <1>0, <2>1, <2>2, QuietFrame DEF SeriesOf
  <1> QED
    BY <1>2, <1>3

\* The mapping has hidden the series EvictPods deletes since EvictTracker.
LEMMA EvictPodsAtomic ==
  ASSUME TypeOK, NEW x \in Procs, EvictPods(x), NEW n \in Nodes
  PROVE  StepOf(n)
  <1>0. /\ pc[x] = "evictPods" /\ on[x] \in Nodes
        /\ UNCHANGED <<todo, stale, trackers, nodeTrackers>>
        /\ podSeries' = {s \in podSeries : s[2] # on[x]}
        /\ pc'[x] \in {"idle", "dropEndpoint"}
        /\ \A y \in Procs \ {x} : pc'[y] = pc[y] /\ on'[y] = on[y]
    BY DEF EvictPods, Go, Start, Finish, TypeOK, workVars, treeVars
  <1>1. SameTracker(n)
    BY <1>0 DEF SameTracker
  <1>2. CASE n = on[x]
    <2>1. Setting(n)' = Setting(n)
      <3>1. \A w \in Workers :
              At(w, n, {"evictStale", "setNode", "setPod"})' <=>
                At(w, n, {"evictStale", "setNode", "setPod"})
        BY <1>0 DEF At, Procs
      <3> QED
        BY <1>0, <3>1 DEF Setting
    <2>2. Exported(n) = Setting(n)
      BY <1>0, <1>2 DEF Exported, Evicting, At
    <2>3. Exported(n)' = Setting(n)'
      BY <1>0, <1>2 DEF Exported
    <2>4. NodeTracker(n)' = NodeTracker(n)
      BY <1>1 DEF SameTracker, NodeTracker
    <2> QED
      BY <2>1, <2>2, <2>3, <2>4 DEF StepOf
  <1>3. CASE n # on[x]
    <2>1. on'[x] # n
      BY <1>0, <1>3, ConstantTypes DEF EvictPods, Go, Start, Finish, TypeOK
    <2>2. SameWork(n)
      BY <1>0, <1>3, <2>1, WorkFrame DEF At, Procs
    <2>3. SeriesOf(n)' = SeriesOf(n)
      BY <1>0, <1>3 DEF SeriesOf
    <2> QED
      BY <1>1, <2>2, <2>3, QuietFrame
  <1> QED
    BY <1>2, <1>3

\* LoadTracker stores what the mapping says was there already.
LEMMA LoadTrackerAtomic ==
  ASSUME TypeOK, UnheldEmpty, NEW w \in Workers, NEW t \in TrackerIds, LoadTracker(w, t),
         NEW n \in Nodes
  PROVE  StepOf(n)
  <1>0. /\ pc[w] = "load" /\ on[w] \in Nodes /\ w \in Procs
        /\ UNCHANGED <<on, todo, stale, trackers, podSeries>>
        /\ pc' = [pc EXCEPT ![w] = "count"]
        /\ nodeTrackers' = [nodeTrackers EXCEPT ![on[w]] = t]
    BY DEF LoadTracker, Go, TypeOK, gauges, Procs
  <1>1. SameWork(n)
    BY <1>0, WorkFrame DEF At, TypeOK
  <1>2. NodeTracker(n)' = NodeTracker(n)
    <2>1. CASE n = on[w]
      BY <1>0, <2>1, ConstantTypes DEF LoadTracker, NodeTracker, UnheldEmpty, TypeOK
    <2>2. CASE n # on[w]
      BY <1>0, <2>2 DEF NodeTracker, TypeOK
    <2> QED
      BY <2>1, <2>2
  <1>3. Exported(n)' = Exported(n)
    BY <1>0, <1>1 DEF Exported, SameWork
  <1> QED
    BY <1>2, <1>3 DEF StepOf

\* The counting of EvictStalePods is the abstract scrape.
LEMMA CountMissesAtomic ==
  ASSUME TypeOK, NoOrphan, NEW w \in Workers, CountMisses(w), NEW n \in Nodes, n \notin raced'
  PROVE  StepOf(n)
  <1> DEFINE t == tracker[w]
             gone == StaleNames(trackers[t], current[w])
  <1>0. /\ pc[w] = "count" /\ on[w] \in Nodes /\ w \in Procs /\ t \in TrackerIds
        /\ UNCHANGED <<on, todo, nodeTrackers, podSeries>>
        /\ pc' = [pc EXCEPT ![w] = "evictStale"]
        /\ stale' = [stale EXCEPT ![w] = gone]
        /\ trackers' = [trackers EXCEPT ![t] = AfterScrape(trackers[t], current[w])]
        /\ raced' = IF gone \cap Exposing(on[w], w) # {} THEN raced \cup {on[w]} ELSE raced
    BY DEF CountMisses, Go, TypeOK, gauges, Procs
  <1>1. /\ pc'[w] = "evictStale" /\ stale'[w] = gone
        /\ \A y \in Procs \ {w} : pc'[y] = pc[y]
        /\ \A v \in Workers \ {w} : stale'[v] = stale[v]
        /\ trackers'[t] = AfterScrape(trackers[t], current[w])
        /\ \A u \in TrackerIds \ {t} : trackers'[u] = trackers[u]
    BY <1>0 DEF TypeOK
  <1>2. CASE n = on[w]
    <2>1. nodeTrackers[n] = t /\ t # NoTracker
      BY <1>0, <1>2, ConstantTypes DEF NoOrphan, CountsInNodeTracker
    <2>2. NodeTracker(n) = trackers[t] /\ NodeTracker(n)' = AfterScrape(trackers[t], current[w])
      BY <1>0, <1>1, <2>1 DEF NodeTracker
    <2>3. Setting(n)' = Setting(n) \cup todo[w]
      <3>1. \A v \in Workers :
              At(v, n, {"evictStale", "setNode", "setPod"})' <=>
                v = w \/ At(v, n, {"evictStale", "setNode", "setPod"})
        BY <1>0, <1>1, <1>2 DEF At, Procs
      <3> QED
        BY <1>0, <3>1 DEF Setting
    <2>4. Deleting(n)' = Deleting(n) \cup gone
      <3>1. \A v \in Workers :
              At(v, n, {"evictStale"})' <=> v = w \/ At(v, n, {"evictStale"})
        BY <1>0, <1>1, <1>2 DEF At, Procs
      <3>2. ~At(w, n, {"evictStale"})
        BY <1>0 DEF At
      <3> QED
        BY <1>0, <1>1, <3>1, <3>2 DEF Deleting
    <2>5. Evicting(n, {"evictPods"})' <=> Evicting(n, {"evictPods"})
      BY <1>0, <1>1 DEF Evicting, At
    <2>6. \A p \in Setting(n) : NameOf[p] \notin gone
      <3>1. gone \cap Exposing(n, w) = {}
        BY <1>0, <1>2
      <3> QED
        BY <1>0, <3>1 DEF Setting, Exposing, Names, At
    <2>7. Exported(n)' = {p \in Exported(n) : NameOf[p] \notin gone} \cup todo[w]
      BY <1>0, <2>3, <2>4, <2>5, <2>6 DEF Exported
    <2>8. \A p \in todo[w] : NameOf[p] \in current[w]
      BY <1>0 DEF NoOrphan, TodoInSummary
    <2>9. current[w] \in SUBSET PodNames /\ todo[w] \in SUBSET Pods
      BY DEF TypeOK
    <2> QED
      BY <2>2, <2>7, <2>8, <2>9, AtomicScrape DEF StepOf
  <1>3. CASE n # on[w]
    <2>1. nodeTrackers[n] # t
      BY <1>0, <1>3, ConstantTypes DEF NoOrphan, TrackersOwned
    <2>2. SameTracker(n)
      BY <1>0, <1>1, <2>1 DEF SameTracker, TypeOK
    <2>3. SameWork(n)
      BY <1>0, <1>1, <1>3, WorkFrame DEF At, Procs
    <2> QED
      BY <1>0, <2>2, <2>3, QuietFrame DEF SeriesOf
  <1> QED
    BY <1>2, <1>3

\* evictPodByName deletes what the mapping has hidden since the counting, and
\* what other nodes lose.
LEMMA EvictStaleNameAtomic ==
  ASSUME TypeOK, NEW w \in Workers, NEW q \in PodNames, EvictStaleName(w, q), NEW n \in Nodes
  PROVE  StepOf(n)
  <1>0. /\ pc[w] = "evictStale" /\ q \in stale[w]
        /\ UNCHANGED <<on, pc, todo, trackers, nodeTrackers>>
        /\ podSeries' = {s \in podSeries : NameOf[s[1]] # q}
        /\ stale' = [stale EXCEPT ![w] = @ \ {q}]
    BY DEF EvictStaleName, treeVars
  <1>1. /\ stale'[w] = stale[w] \ {q}
        /\ \A v \in Workers \ {w} : stale'[v] = stale[v]
    BY <1>0 DEF TypeOK
  <1>2. SameTracker(n)
    BY <1>0 DEF SameTracker
  <1>3. CASE n = on[w]
    <2>1. NodeTracker(n)' = NodeTracker(n)
      BY <1>2 DEF SameTracker, NodeTracker
    <2>2. Setting(n)' = Setting(n) /\ (Evicting(n, {"evictPods"})' <=> Evicting(n, {"evictPods"}))
      BY <1>0 DEF Setting, Evicting, At
    <2>3. q \in Deleting(n) /\ \A r : r # q => (r \in Deleting(n)' <=> r \in Deleting(n))
      BY <1>0, <1>1, <1>3 DEF Deleting, At
    <2>4. \A p \in Pods :
            <<p, n>> \in podSeries' <=> <<p, n>> \in podSeries /\ NameOf[p] # q
      BY <1>0
    <2>5. Exported(n)' = Exported(n)
      BY <2>2, <2>3, <2>4 DEF Exported
    <2> QED
      BY <2>1, <2>5 DEF StepOf
  <1>4. CASE n # on[w]
    <2>1. SameWork(n)
      BY <1>0, <1>1, <1>4, WorkFrame DEF At
    <2> QED
      BY <1>0, <1>2, <2>1, LossFrame
  <1> QED
    BY <1>3, <1>4

\* Pod.SetMetrics sets what the mapping has anticipated, or what an eviction
\* of its name or node is about to delete again.
LEMMA SetPodGaugesAtomic ==
  ASSUME TypeOK, NEW w \in Workers, NEW p \in Pods, SetPodGauges(w, p), NEW n \in Nodes
  PROVE  StepOf(n)
  <1>0. /\ pc[w] = "setPod" /\ p \in todo[w] /\ on[w] \in Nodes /\ w \in Procs
        /\ UNCHANGED <<on, stale, trackers, nodeTrackers>>
        /\ podSeries' = podSeries \cup {<<p, on[w]>>}
        /\ todo' = [todo EXCEPT ![w] = @ \ {p}]
        /\ pc' = [pc EXCEPT ![w] = "setNode"]
    BY DEF SetPodGauges, Go, treeVars, TypeOK, Procs
  <1>1. /\ todo'[w] = todo[w] \ {p} /\ pc'[w] = "setNode"
        /\ \A v \in Workers \ {w} : todo'[v] = todo[v]
        /\ \A y \in Procs \ {w} : pc'[y] = pc[y]
    BY <1>0 DEF TypeOK
  <1>2. SameTracker(n)
    BY <1>0 DEF SameTracker
  <1>3. \A v \in Workers :
          /\ At(v, n, {"evictStale", "setNode", "setPod"})' <=>
               At(v, n, {"evictStale", "setNode", "setPod"})
          /\ At(v, n, {"evictStale"})' <=> At(v, n, {"evictStale"})
    BY <1>0, <1>1 DEF At, Procs
  <1>4. \A x \in Procs : At(x, n, {"evictPods"})' <=> At(x, n, {"evictPods"})
    BY <1>0, <1>1 DEF At
  <1>5. CASE n = on[w]
    <2>1. NodeTracker(n)' = NodeTracker(n)
      BY <1>2 DEF SameTracker, NodeTracker
    <2>2. Deleting(n)' = Deleting(n) /\ (Evicting(n, {"evictPods"})' <=> Evicting(n, {"evictPods"}))
      BY <1>0, <1>3, <1>4 DEF Deleting, Evicting
    <2>3. /\ p \in Setting(n) /\ Setting(n)' \subseteq Setting(n)
          /\ Setting(n) \subseteq Setting(n)' \cup {p}
      BY <1>0, <1>1, <1>3, <1>5 DEF Setting, At
    <2>4. \A r \in Pods : <<r, n>> \in podSeries' <=> <<r, n>> \in podSeries \/ r = p
      BY <1>0, <1>5
    <2>5. Exported(n)' \subseteq Exported(n) /\ Exported(n) \ Exported(n)' \subseteq {p}
      BY <2>2, <2>3, <2>4, ExportedTypes DEF Exported
    <2>6. NameOf[p] \in PodNames
      BY ConstantTypes
    <2> QED
      BY <2>1, <2>5, <2>6, ExportedTypes, AtomicLoss DEF StepOf
  <1>6. CASE n # on[w]
    <2>1. SameWork(n)
      BY <1>0, <1>1, <1>3, <1>4, <1>6, WorkFrame DEF At
    <2>2. SeriesOf(n)' = SeriesOf(n)
      BY <1>0, <1>6 DEF SeriesOf
    <2> QED
      BY <1>2, <2>1, <2>2, QuietFrame
  <1> QED
    BY <1>5, <1>6

\* Every step is an abstract step, or a stutter, of each node not raced.
LEMMA AtomicStep ==
  ASSUME TypeOK, NoOrphan, UnheldEmpty, [Next]_vars, NEW n \in Nodes, n \notin raced'
  PROVE  StepOf(n)
  <1>0. /\ \A w \in Workers : w \in Procs /\ w # Watcher
        /\ Watcher \in Procs /\ pc[Watcher] \notin ScrapeSteps
        /\ pc \in [Procs -> {"idle"} \cup EvictSteps \cup ScrapeSteps \cup WatchSteps]
        /\ on \in [Procs -> Nodes \cup {NoNode}]
        /\ todo \in [Workers -> SUBSET Pods]
    BY ConstantTypes DEF TypeOK, Procs
  <1>1. ASSUME NEW x \in Procs, UNCHANGED <<podSeries, treeVars, stale>>,
               \A y \in Procs \ {x} : UNCHANGED <<pc[y], on[y]>>,
               \A w \in Workers \ {x} : todo'[w] = todo[w],
               \A y \in {x} : pc[y] \notin {"evictStale", "setNode", "setPod", "evictPods"},
               \A y \in {x} : pc'[y] \notin {"evictStale", "setNode", "setPod", "evictPods"}
        PROVE  StepOf(n)
    <2>1. SameWork(n)
      BY <1>0, <1>1, WorkFrame DEF At
    <2>2. SameTracker(n) /\ SeriesOf(n)' = SeriesOf(n)
      BY <1>1 DEF SameTracker, SeriesOf, treeVars
    <2> QED
      BY <2>1, <2>2, QuietFrame
  <1>2. ASSUME UNCHANGED <<podSeries, treeVars, workVars, pc, on>>
        PROVE  StepOf(n)
    <2>1. SameWork(n)
      BY <1>2, WorkFrame DEF At, workVars
    <2>2. SameTracker(n) /\ SeriesOf(n)' = SeriesOf(n)
      BY <1>2 DEF SameTracker, SeriesOf, treeVars
    <2> QED
      BY <2>1, <2>2, QuietFrame
  <1> USE DEF Go, Start, Finish, workVars, treeVars, gauges
  <1>3. CASE Cluster \/ UNCHANGED vars \/ NodeNotReady \/ Poll
    BY <1>2, <1>3, ClusterFrame DEF vars, NodeNotReady, Poll
  <1>4. ASSUME NEW x \in Procs, Evict(x)
        PROVE  StepOf(n)
    <2>1. CASE EvictSet(x) \/ EvictNodeGauges(x)
      BY <1>0, <1>1, <2>1 DEF EvictSet, EvictNodeGauges
    <2> QED
      BY <1>4, <2>1, EvictTrackerAtomic, EvictPodsAtomic DEF Evict
  <1>5. CASE NodeReady \/ StoreEndpoint \/ NodeDeleted \/ DropEndpoint
    <2>1. /\ UNCHANGED <<podSeries, treeVars, workVars>>
          /\ \A y \in Procs \ {Watcher} : UNCHANGED <<pc[y], on[y]>>
          /\ pc[Watcher] \notin {"evictStale", "setNode", "setPod", "evictPods"}
          /\ pc'[Watcher] \notin {"evictStale", "setNode", "setPod", "evictPods"}
      BY <1>0, <1>5 DEF NodeReady, StoreEndpoint, NodeDeleted, DropEndpoint, TakeEvent
    <2> QED
      BY <1>0, <1>1, <2>1
  <1>6. ASSUME NEW q \in PodNames, PodDeleted(q)
        PROVE  StepOf(n)
    <2>1. SameWork(n)
      BY <1>6, WorkFrame DEF PodDeleted, At
    <2>2. SameTracker(n) /\ podSeries' = {s \in podSeries : NameOf[s[1]] # q}
      BY <1>6 DEF SameTracker, PodDeleted
    <2> QED
      BY <2>1, <2>2, LossFrame
  <1>7. ASSUME NEW w \in Workers, NEW m \in Nodes, Invoke(w, m)
        PROVE  StepOf(n)
    BY <1>0, <1>1, <1>7 DEF Invoke
  <1>8. ASSUME NEW w \in Workers, QuerySucceeds(w) \/ QueryGarbled(w) \/ QueryGivesUp(w)
        PROVE  StepOf(n)
    BY <1>0, <1>1, <1>8 DEF QuerySucceeds, QueryGarbled, QueryGivesUp
  <1>9. ASSUME NEW w \in Workers, Unlock(w)
        PROVE  StepOf(n)
    <2>1. /\ pc[w] = "evictStale" /\ pc'[w] = "setNode" /\ stale[w] = {}
          /\ \A y \in Procs \ {w} : pc'[y] = pc[y]
          /\ UNCHANGED <<on, todo, stale, nodeTrackers, podSeries>>
      BY <1>0, <1>9 DEF Unlock
    <2>2. Setting(n)' = Setting(n)
      <3>1. \A v \in Workers :
              At(v, n, {"evictStale", "setNode", "setPod"})' <=>
                At(v, n, {"evictStale", "setNode", "setPod"})
        BY <1>0, <2>1 DEF At
      <3> QED
        BY <2>1, <3>1 DEF Setting
    <2>3. Deleting(n)' = Deleting(n)
      <3>1. \A v \in Workers \ {w} : At(v, n, {"evictStale"})' <=> At(v, n, {"evictStale"})
        BY <1>0, <2>1 DEF At
      <3> QED
        BY <2>1, <3>1 DEF Deleting
    <2>4. Evicting(n, {"evictPods"})' <=> Evicting(n, {"evictPods"})
      BY <1>0, <2>1 DEF Evicting, At
    <2>5. SameTracker(n)
      BY <1>9, <2>1 DEF SameTracker, Unlock, Swept, Held, TypeOK
    <2>6. SeriesOf(n)' = SeriesOf(n)
      BY <2>1 DEF SeriesOf
    <2> QED
      BY <2>2, <2>3, <2>4, <2>5, <2>6, QuietFrame DEF SameWork
  <1>10. ASSUME NEW w \in Workers, SetNodeGauges(w) \/ SetPollingRate(w)
         PROVE  StepOf(n)
    <2>1. /\ pc[w] = "setNode"
          /\ \/ pc'[w] = "setPod" /\ on'[w] = on[w]
             \/ pc'[w] = "idle" /\ todo[w] = {}
          /\ \A y \in Procs \ {w} : UNCHANGED <<pc[y], on[y]>>
          /\ UNCHANGED <<todo, stale, treeVars, podSeries>>
      BY <1>0, <1>10 DEF SetNodeGauges, SetPollingRate
    <2>2. Setting(n)' = Setting(n)
      <3>1. \A v \in Workers :
              todo[v] # {} =>
                (At(v, n, {"evictStale", "setNode", "setPod"})' <=>
                   At(v, n, {"evictStale", "setNode", "setPod"}))
        BY <1>0, <2>1 DEF At
      <3> QED
        BY <2>1, <3>1 DEF Setting
    <2>3. Deleting(n)' = Deleting(n)
      <3>1. \A v \in Workers : At(v, n, {"evictStale"})' <=> At(v, n, {"evictStale"})
        BY <1>0, <2>1 DEF At
      <3> QED
        BY <2>1, <3>1 DEF Deleting
    <2>4. Evicting(n, {"evictPods"})' <=> Evicting(n, {"evictPods"})
      BY <1>0, <2>1 DEF Evicting, At
    <2>5. SameTracker(n) /\ SeriesOf(n)' = SeriesOf(n)
      BY <2>1 DEF SameTracker, SeriesOf
    <2> QED
      BY <2>2, <2>3, <2>4, <2>5, QuietFrame DEF SameWork
  <1>11. ASSUME NEW w \in Workers,
                \/ \E t \in TrackerIds : LoadTracker(w, t)
                \/ CountMisses(w)
                \/ \E q \in PodNames : EvictStaleName(w, q)
                \/ \E p \in Pods : SetPodGauges(w, p)
         PROVE  StepOf(n)
    BY <1>11, LoadTrackerAtomic, CountMissesAtomic, EvictStaleNameAtomic, SetPodGaugesAtomic
  <1> QED
    BY <1>0, <1>3, <1>4, <1>5, <1>6, <1>7, <1>8, <1>9, <1>10, <1>11 DEF Next, Watch, Work

\* However many workers, nodes and pods there are: seen from a node that was not
\* raced, the steps of getMetrics' workers, of the informers' handlers and of
\* evictions add up to whole scrapes and whole evictions.
THEOREM ScrapesAreAtomic == Spec => ScrapesAtomic
  <1>1. Init => UnheldEmpty
    BY DEF Init, UnheldEmpty
  <1>2. TypeOK /\ UnheldEmpty /\ [Next]_vars => UnheldEmpty'
    BY UnheldEmptyStep
  <1>3. TypeOK /\ NoOrphan /\ UnheldEmpty /\ [Next]_vars =>
          [\A n \in Nodes :
             n \notin raced' => [Atomic(n)!Next]_<<NodeTracker(n), Exported(n)>>]_vars
    BY AtomicStep DEF StepOf
  <1> QED
    BY <1>1, <1>2, <1>3, TypeCorrect, NoOrphanInvariant, PTL DEF Spec, ScrapesAtomic
=============================================================================
