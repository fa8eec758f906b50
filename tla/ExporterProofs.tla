--------------------------- MODULE ExporterProofs ---------------------------
(***************************************************************************)
(* Safety of Exporter for every cluster, every pool of workers, every      *)
(* tolerance and every mix of disturbances.                                *)
(***************************************************************************)
EXTENDS Exporter, TLAPS

USE DEF EvictSteps, ScrapeSteps, WatchSteps

\* The assumptions on the constants, together.
LEMMA ConstantTypes ==
  /\ NameOf \in [Pods -> PodNames]
  /\ Watcher \notin Workers
  /\ NoNode \notin Nodes /\ NoTracker \notin TrackerIds
  /\ CurrentNode \in Nodes
  BY NameAssumption, ProcAssumption, SentinelAssumption, ConfigAssumption

\* What EvictStalePods makes of a tracker is a tracker.
LEMMA TrackerTypes ==
  /\ EmptyTracker \in LastSeen
  /\ \A seen \in LastSeen, names \in SUBSET PodNames :
       /\ AfterScrape(seen, names) \in LastSeen
       /\ StaleNames(seen, names) \in SUBSET PodNames
  BY DEF EmptyTracker, LastSeen, NotTracked, AfterScrape, StaleNames, Reset

Event == [node : Nodes, status : {"ready", "notReady", "deleted"}]

\* The handlers' queue holds notifications, and hands out the first.
LEMMA NotifyType ==
  ASSUME events \in Seq(Event), NEW n \in Nodes,
         NEW status \in {"ready", "notReady", "deleted"}, Notify(n, status)
  PROVE  events' \in Seq(Event)
  <1>1. [node |-> n, status |-> status] \in Event
    BY DEF Event
  <1> QED
    BY <1>1 DEF Notify

\* The rest of the queue is one too.
LEMMA TakeEventType ==
  ASSUME events \in Seq(Event), NEW status, TakeEvent(status)
  PROVE  events' \in Seq(Event) /\ Head(events).node \in Nodes
  <1>1. Head(events) \in Event /\ Tail(events) \in Seq(Event)
    BY DEF TakeEvent
  <1> QED
    BY <1>1 DEF TakeEvent, Event

\* What the cluster does leaves the exporter's own state alone.
LEMMA ClusterFrame ==
  ASSUME Cluster
  PROVE  UNCHANGED <<nodeVars, snapshot, pc, on, workVars, treeVars, gauges, raced>>
  BY DEF Cluster, NodeJoins, NodeLeaves, ReadinessChanges, Resync, StatsChange,
         PodStarts, PodStops, FiguresChange

\* The state of the workers, the handlers, the trackers and the series is well
\* formed, and a worker holds a tracker exactly while EvictStalePods runs.
THEOREM TypeCorrect == Spec => []TypeOK
  <1>1. Init => TypeOK
    BY ConstantTypes, TrackerTypes DEF Init, TypeOK, Procs
  <1>2. TypeOK /\ [Next]_vars => TypeOK'
    <2> SUFFICES ASSUME TypeOK, [Next]_vars
                 PROVE  TypeOK'
      OBVIOUS
    <2> USE ConstantTypes DEF Procs, Go, Start, Finish
    <2>0. events \in Seq(Event)
      BY DEF TypeOK, Event
    <2>1. CASE Cluster
      <3>1. /\ selected' \subseteq Nodes /\ ready' \subseteq Nodes
            /\ stats' \in [Nodes -> {"ok", "garbled", "down", "hung"}]
            /\ reported' \in [Nodes -> SUBSET Pods]
            /\ measured' \subseteq Pods
        BY <2>1 DEF Cluster, NodeJoins, NodeLeaves, ReadinessChanges, Resync,
                    StatsChange, PodStarts, PodStops, FiguresChange, cluster, TypeOK
      <3>2. events' \in Seq(Event)
        <4>1. \A n \in Nodes : Status(n) \in {"ready", "notReady", "deleted"}
          BY DEF Status
        <4>2. \A n \in Nodes :
                NodeJoins(n) \/ NodeLeaves(n) \/ ReadinessChanges(n) \/ Resync(n)
                  => events' \in Seq(Event)
          BY <2>0, <4>1, NotifyType DEF NodeJoins, NodeLeaves, ReadinessChanges, Resync
        <4> QED
          BY <2>1, <2>0, <4>2 DEF Cluster, StatsChange, PodStarts, PodStops, FiguresChange
      <3> QED
        BY <2>1, <3>1, <3>2, ClusterFrame DEF TypeOK, Event, nodeVars, workVars, treeVars, gauges
    <2>2. ASSUME NEW x \in Procs, EvictSet(x)
          PROVE  TypeOK'
      BY <2>2 DEF EvictSet, TypeOK, cluster, workVars, treeVars, gauges
    <2>3. ASSUME NEW x \in Procs, EvictNodeGauges(x)
          PROVE  TypeOK'
      BY <2>3 DEF EvictNodeGauges, TypeOK, cluster, nodeVars, workVars, treeVars
    <2>4. ASSUME NEW x \in Procs, EvictTracker(x)
          PROVE  TypeOK'
      BY <2>4, TrackerTypes DEF EvictTracker, TypeOK, Swept, cluster, nodeVars, workVars, gauges
    <2>5. ASSUME NEW x \in Procs, EvictPods(x)
          PROVE  TypeOK'
      BY <2>5 DEF EvictPods, TypeOK, cluster, nodeVars, workVars, treeVars
    <2>6. CASE NodeReady
      BY <2>6, <2>0, TakeEventType DEF NodeReady, TypeOK, Event, cluster, workVars, treeVars, gauges
    <2>7. CASE StoreEndpoint
      BY <2>7 DEF StoreEndpoint, TypeOK, cluster, workVars, treeVars, gauges
    <2>8. CASE NodeNotReady
      BY <2>8 DEF NodeNotReady, TakeEvent, TypeOK, cluster, nodeVars, workVars, treeVars, gauges
    <2>9. CASE NodeDeleted
      BY <2>9, <2>0, TakeEventType DEF NodeDeleted, TypeOK, Event, cluster, nodeVars, workVars, treeVars, gauges
    <2>10. CASE DropEndpoint
      BY <2>10 DEF DropEndpoint, TypeOK, cluster, workVars, treeVars, gauges
    <2>11. ASSUME NEW q \in PodNames, PodDeleted(q)
           PROVE  TypeOK'
      BY <2>11 DEF PodDeleted, TypeOK, cluster, nodeVars, workVars, treeVars
    <2>12. CASE Poll
      BY <2>12 DEF Poll, TypeOK, cluster, nodeVars, workVars, treeVars, gauges
    <2>13. ASSUME NEW w \in Workers, NEW n \in Nodes, Invoke(w, n)
           PROVE  TypeOK'
      BY <2>13 DEF Invoke, TypeOK, cluster, nodeVars, workVars, treeVars, gauges
    <2>14. ASSUME NEW w \in Workers, QuerySucceeds(w)
           PROVE  TypeOK'
      BY <2>14 DEF QuerySucceeds, Names, TypeOK, cluster, nodeVars, treeVars, gauges
    <2>15. ASSUME NEW w \in Workers, QueryGarbled(w)
           PROVE  TypeOK'
      BY <2>15 DEF QueryGarbled, TypeOK, cluster, nodeVars, workVars, treeVars, gauges
    <2>16. ASSUME NEW w \in Workers, QueryGivesUp(w)
           PROVE  TypeOK'
      BY <2>16 DEF QueryGivesUp, TypeOK, cluster, nodeVars, workVars, treeVars, gauges
    <2>17. ASSUME NEW w \in Workers, NEW t \in TrackerIds, LoadTracker(w, t)
           PROVE  TypeOK'
      BY <2>17 DEF LoadTracker, TypeOK, cluster, nodeVars, gauges
    <2>18. ASSUME NEW w \in Workers, CountMisses(w)
           PROVE  TypeOK'
      BY <2>18, TrackerTypes DEF CountMisses, TypeOK, cluster, nodeVars, gauges
    <2>19. ASSUME NEW w \in Workers, NEW q \in PodNames, EvictStaleName(w, q)
           PROVE  TypeOK'
      BY <2>19 DEF EvictStaleName, TypeOK, cluster, nodeVars, treeVars
    <2>20. ASSUME NEW w \in Workers, Unlock(w)
           PROVE  TypeOK'
      BY <2>20, TrackerTypes DEF Unlock, TypeOK, Swept, cluster, nodeVars, gauges
    <2>21. ASSUME NEW w \in Workers, SetNodeGauges(w)
           PROVE  TypeOK'
      BY <2>21 DEF SetNodeGauges, TypeOK, cluster, nodeVars, workVars, treeVars
    <2>22. ASSUME NEW w \in Workers, NEW p \in Pods, SetPodGauges(w, p)
           PROVE  TypeOK'
      BY <2>22 DEF SetPodGauges, TypeOK, cluster, nodeVars, treeVars
    <2>23. ASSUME NEW w \in Workers, SetPollingRate(w)
           PROVE  TypeOK'
      BY <2>23 DEF SetPollingRate, TypeOK, cluster, nodeVars, workVars, treeVars
    <2>24. CASE UNCHANGED vars
      BY <2>24 DEF vars, TypeOK, cluster, nodeVars, workVars, treeVars, gauges
    <2> QED
      BY <2>1, <2>2, <2>3, <2>4, <2>5, <2>6, <2>7, <2>8, <2>9, <2>10, <2>11, <2>12,
         <2>13, <2>14, <2>15, <2>16, <2>17, <2>18, <2>19, <2>20, <2>21, <2>22, <2>23,
         <2>24
      DEF Next, Watch, Evict, Work
  <1> QED
    BY <1>1, <1>2, PTL DEF Spec

-----------------------------------------------------------------------------
(***************************************************************************)
(* Evicting a node leaves none of its series behind.  The strengthening    *)
(* says why: as long as a node was not raced, whatever is scraping it, or  *)
(* queued to, does so while the node is monitored.                         *)
(***************************************************************************)
PendingMonitored ==
  \A n \in Nodes \ raced :
    /\ n \in snapshot => n \in monitored
    /\ \A w \in Workers : At(w, n, ScrapeSteps) => n \in monitored

RateIfEnabled == AdjustedPollingRate \/ rateSeries = {}

NoLeak == PendingMonitored /\ RateIfEnabled /\ SeriesMonitored

\* A step keeps NoLeak if it ends no monitoring and no eviction, queues or
\* starts scrapes of monitored nodes only, and sets gauges only in a scrape.
LEMMA NoLeakFrame ==
  ASSUME TypeOK, NoLeak, RateIfEnabled',
         monitored \subseteq monitored', raced \subseteq raced',
         snapshot' \subseteq snapshot \cup monitored,
         \A n \in Nodes, w \in Workers :
            At(w, n, ScrapeSteps)' => At(w, n, ScrapeSteps) \/ n \in snapshot,
         \A n \in Nodes, x \in Procs :
            /\ At(x, n, {"evictNodeGauges"}) => At(x, n, {"evictNodeGauges"})'
            /\ At(x, n, {"evictNodeGauges", "evictTracker", "evictPods"})
                 => At(x, n, {"evictNodeGauges", "evictTracker", "evictPods"})',
         \A n \in Nodes :
            /\ n \in (nodeSeries \cup rateSeries)' =>
                 n \in nodeSeries \cup rateSeries \/ \E w \in Workers : At(w, n, ScrapeSteps)
            /\ \A p \in Pods : <<p, n>> \in podSeries' =>
                 <<p, n>> \in podSeries \/ \E w \in Workers : At(w, n, ScrapeSteps)
  PROVE  NoLeak'
  <1>1. PendingMonitored'
    BY DEF NoLeak, PendingMonitored
  <1>2. SeriesMonitored'
    BY DEF NoLeak, PendingMonitored, SeriesMonitored, Evicting
  <1> QED
    BY <1>1, <1>2 DEF NoLeak

\* The three steps of an eviction that the lemma above does not cover.
LEMMA EvictSetNoLeak ==
  ASSUME TypeOK, NoLeak, NEW x \in Procs, EvictSet(x)
  PROVE  NoLeak'
  <1> DEFINE n == on[x]
  <1>0. /\ n \in Nodes /\ pc' = [pc EXCEPT ![x] = "evictNodeGauges"]
        /\ UNCHANGED <<on, snapshot, podSeries, nodeSeries, rateSeries>>
        /\ monitored' = monitored \ {n} /\ raced \subseteq raced'
    BY DEF TypeOK, EvictSet, Go, gauges
  <1>1. \A m \in Nodes, w \in Workers : At(w, m, ScrapeSteps)' => At(w, m, ScrapeSteps) /\ w # x
    BY <1>0 DEF At, TypeOK, Procs
  <1>2. n \notin raced' => n \notin snapshot /\ \A w \in Workers : ~At(w, n, ScrapeSteps)'
    BY <1>0, <1>1 DEF EvictSet, ScrapePending
  <1>3. PendingMonitored'
    BY <1>0, <1>1, <1>2 DEF PendingMonitored, NoLeak
  <1>4. Evicting(n, {"evictNodeGauges"})'
    BY <1>0 DEF Evicting, At, TypeOK
  <1>5. \A m \in Nodes :
          /\ Evicting(m, {"evictNodeGauges"}) => Evicting(m, {"evictNodeGauges"})'
          /\ Evicting(m, {"evictNodeGauges", "evictTracker", "evictPods"})
               => Evicting(m, {"evictNodeGauges", "evictTracker", "evictPods"})'
    BY <1>0 DEF Evicting, At, TypeOK, EvictSet
  <1>6. Evicting(n, {"evictNodeGauges", "evictTracker", "evictPods"})'
    BY <1>4 DEF Evicting, At
  <1>7. SeriesMonitored'
    BY <1>0, <1>4, <1>5, <1>6 DEF SeriesMonitored, NoLeak
  <1> QED
    BY <1>0, <1>3, <1>7 DEF NoLeak, RateIfEnabled

\* The node gauges go while the eviction is still under way.
LEMMA EvictNodeGaugesNoLeak ==
  ASSUME TypeOK, NoLeak, NEW x \in Procs, EvictNodeGauges(x)
  PROVE  NoLeak'
  <1> DEFINE n == on[x]
  <1>0. /\ n \in Nodes /\ pc' = [pc EXCEPT ![x] = "evictTracker"]
        /\ UNCHANGED <<on, snapshot, podSeries, monitored, raced>>
        /\ nodeSeries' = nodeSeries \ {n} /\ rateSeries' = rateSeries \ {n}
    BY DEF TypeOK, EvictNodeGauges, Go, nodeVars, NoLeak, RateIfEnabled
  <1>1. \A m \in Nodes, w \in Workers : At(w, m, ScrapeSteps)' => At(w, m, ScrapeSteps)
    BY <1>0 DEF At, TypeOK, Procs
  <1>2. PendingMonitored' /\ RateIfEnabled'
    BY <1>0, <1>1 DEF PendingMonitored, RateIfEnabled, NoLeak
  <1>3. \A m \in Nodes :
          /\ m # n /\ Evicting(m, {"evictNodeGauges"}) => Evicting(m, {"evictNodeGauges"})'
          /\ Evicting(m, {"evictNodeGauges", "evictTracker", "evictPods"})
               => Evicting(m, {"evictNodeGauges", "evictTracker", "evictPods"})'
    BY <1>0 DEF Evicting, At, TypeOK
  <1>4. SeriesMonitored'
    BY <1>0, <1>3 DEF SeriesMonitored, NoLeak
  <1> QED
    BY <1>2, <1>4 DEF NoLeak

\* The last step of an eviction leaves no pod series of the node.
LEMMA EvictPodsNoLeak ==
  ASSUME TypeOK, NoLeak, NEW x \in Procs, EvictPods(x)
  PROVE  NoLeak'
  <1> DEFINE n == on[x]
             steps == {"evictNodeGauges", "evictTracker", "evictPods"}
  <1>0. /\ n \in Nodes /\ pc[x] = "evictPods"
        /\ UNCHANGED <<snapshot, nodeSeries, rateSeries, monitored, raced>>
        /\ podSeries' = {s \in podSeries : s[2] # n}
    BY DEF TypeOK, EvictPods, nodeVars
  <1>1. /\ pc'[x] \in {"idle", "dropEndpoint"}
        /\ \A y \in Procs \ {x} : pc'[y] = pc[y] /\ on'[y] = on[y]
    BY DEF EvictPods, Go, Start, Finish, TypeOK
  <1>2. \A m \in Nodes, w \in Workers : At(w, m, ScrapeSteps)' => At(w, m, ScrapeSteps)
    BY <1>0, <1>1 DEF At, Procs
  <1>3. PendingMonitored' /\ RateIfEnabled'
    BY <1>0, <1>2 DEF PendingMonitored, RateIfEnabled, NoLeak
  <1>4. \A m \in Nodes :
          /\ Evicting(m, {"evictNodeGauges"}) => Evicting(m, {"evictNodeGauges"})'
          /\ m # n /\ Evicting(m, steps) => Evicting(m, steps)'
    BY <1>0, <1>1 DEF Evicting, At
  <1>5. \A p \in Pods : <<p, n>> \notin podSeries'
    BY <1>0
  <1>6. SeriesMonitored'
    BY <1>0, <1>4, <1>5 DEF SeriesMonitored, NoLeak
  <1> QED
    BY <1>3, <1>6 DEF NoLeak

\* Every step of the exporter and of the cluster keeps NoLeak.
LEMMA NoLeakStep ==
  ASSUME TypeOK, NoLeak, [Next]_vars
  PROVE  NoLeak'
  <1> USE ConstantTypes, NoLeakFrame
      DEF Procs, Go, Start, Finish, At, cluster, nodeVars, workVars, treeVars, gauges, RateIfEnabled
  <1>0. RateIfEnabled
    BY DEF NoLeak
  <1>1. CASE Cluster
    BY <1>0, <1>1, ClusterFrame
  <1>2. ASSUME NEW x \in Procs, Evict(x)
        PROVE  NoLeak'
    <2>1. CASE EvictTracker(x)
      BY <1>0, <2>1 DEF EvictTracker, TypeOK
    <2> QED
      BY <1>2, <2>1, EvictSetNoLeak, EvictNodeGaugesNoLeak, EvictPodsNoLeak DEF Evict
  <1>3. CASE NodeReady
    <2>1. /\ monitored \subseteq monitored'
          /\ UNCHANGED <<snapshot, gauges, raced>>
          /\ \A y \in Procs :
               \/ UNCHANGED <<pc[y], on[y]>>
               \/ pc[y] = "idle" /\ pc'[y] = "storeEndpoint"
      BY <1>3 DEF NodeReady, TakeEvent, TypeOK
    <2> QED
      BY <1>0, <2>1
  <1>4. CASE StoreEndpoint
    BY <1>0, <1>4 DEF StoreEndpoint, TypeOK
  <1>5. CASE NodeNotReady
    BY <1>0, <1>5 DEF NodeNotReady
  <1>6. CASE NodeDeleted
    BY <1>0, <1>6 DEF NodeDeleted, TakeEvent, TypeOK
  <1>7. CASE DropEndpoint
    BY <1>0, <1>7 DEF DropEndpoint, TypeOK
  <1>8. ASSUME NEW q \in PodNames, PodDeleted(q)
        PROVE  NoLeak'
    BY <1>0, <1>8 DEF PodDeleted
  <1>9. CASE Poll
    BY <1>0, <1>9 DEF Poll
  <1>10. ASSUME NEW w \in Workers, NEW n \in Nodes, Invoke(w, n)
         PROVE  NoLeak'
    BY <1>0, <1>10 DEF Invoke, TypeOK
  <1>11. ASSUME NEW w \in Workers, QuerySucceeds(w) \/ QueryGarbled(w) \/ QueryGivesUp(w)
         PROVE  NoLeak'
    BY <1>0, <1>11 DEF QuerySucceeds, QueryGarbled, QueryGivesUp, TypeOK
  <1>12. ASSUME NEW w \in Workers, NEW t \in TrackerIds, LoadTracker(w, t)
         PROVE  NoLeak'
    BY <1>0, <1>12 DEF LoadTracker, TypeOK
  <1>13. ASSUME NEW w \in Workers, CountMisses(w)
         PROVE  NoLeak'
    BY <1>0, <1>13 DEF CountMisses, TypeOK
  <1>14. ASSUME NEW w \in Workers, NEW q \in PodNames, EvictStaleName(w, q)
         PROVE  NoLeak'
    BY <1>0, <1>14 DEF EvictStaleName
  <1>15. ASSUME NEW w \in Workers, Unlock(w)
         PROVE  NoLeak'
    BY <1>0, <1>15 DEF Unlock, TypeOK
  <1>16. ASSUME NEW w \in Workers, SetNodeGauges(w)
         PROVE  NoLeak'
    BY <1>0, <1>16 DEF SetNodeGauges, TypeOK
  <1>17. ASSUME NEW w \in Workers, NEW p \in Pods, SetPodGauges(w, p)
         PROVE  NoLeak'
    BY <1>0, <1>17 DEF SetPodGauges, TypeOK
  <1>18. ASSUME NEW w \in Workers, SetPollingRate(w)
         PROVE  NoLeak'
    BY <1>0, <1>18 DEF SetPollingRate, TypeOK
  <1>19. CASE UNCHANGED vars
    BY <1>0, <1>19 DEF vars
  <1> QED
    BY <1>1, <1>2, <1>3, <1>4, <1>5, <1>6, <1>7, <1>8, <1>9, <1>10, <1>11, <1>12,
       <1>13, <1>14, <1>15, <1>16, <1>17, <1>18, <1>19
    DEF Next, Watch, Work

\* In every reachable state of every instance, a series of a node that is not
\* monitored is being evicted, unless a scrape raced the node's eviction.
THEOREM NothingLeaks == Spec => []SeriesMonitored
  <1>1. Init => NoLeak
    BY DEF Init, NoLeak, PendingMonitored, RateIfEnabled, SeriesMonitored, At, Procs
  <1>2. TypeOK /\ NoLeak /\ [Next]_vars => NoLeak'
    BY NoLeakStep
  <1>3. NoLeak => SeriesMonitored
    BY DEF NoLeak
  <1> QED
    BY <1>1, <1>2, <1>3, TypeCorrect, PTL DEF Spec

-----------------------------------------------------------------------------
(***************************************************************************)
(* No pod series escapes its node's tracker.  The strengthening follows a  *)
(* summary through the worker: the tracker it counts in is the node's own, *)
(* it counts every name it is about to export, and those names are tracked *)
(* from then until their gauges are set.                                   *)
(***************************************************************************)
TrackersApart ==
  \A n, m \in Nodes :
    nodeTrackers[n] # NoTracker /\ nodeTrackers[n] = nodeTrackers[m] => n = m

TrackersOwned ==
  \A w \in Workers, n \in Nodes :
    tracker[w] # NoTracker /\ nodeTrackers[n] = tracker[w] => on[w] = n

CountsInNodeTracker ==
  \A w \in Workers :
    pc[w] \in {"count", "evictStale"} /\ on[w] \notin raced
      => nodeTrackers[on[w]] = tracker[w]

TodoInSummary ==
  \A w \in Workers : \A p \in todo[w] :
    pc[w] \in {"load", "count"} => NameOf[p] \in current[w]

TodoTracked ==
  \A w \in Workers : \A p \in todo[w] :
    pc[w] \in {"evictStale", "setNode", "setPod"} /\ on[w] \notin raced
      => Tracked(on[w], NameOf[p])

NoOrphan ==
  /\ TrackersApart
  /\ TrackersOwned
  /\ CountsInNodeTracker
  /\ TodoInSummary
  /\ TodoTracked
  /\ TrackedUnlessRaced

\* A step keeps NoOrphan if it leaves the trackers in use alone, moves workers
\* only forward in their scrapes, and sets gauges only of pods still to do.
LEMMA NoOrphanFrame ==
  ASSUME TypeOK, NoOrphan, UNCHANGED nodeTrackers, raced \subseteq raced',
         \A n \in Nodes :
            nodeTrackers[n] # NoTracker =>
              trackers'[nodeTrackers[n]] = trackers[nodeTrackers[n]],
         \A w \in Workers :
            /\ tracker'[w] # NoTracker => UNCHANGED <<tracker[w], on[w]>>
            /\ pc'[w] \in {"count", "evictStale"} => UNCHANGED <<pc[w], on[w], tracker[w]>>
            /\ pc'[w] \in {"load", "count"} =>
                 \A p \in todo'[w] : NameOf[p] \in current'[w]
            /\ pc'[w] \in {"evictStale", "setNode", "setPod"} =>
                 /\ pc[w] \in {"evictStale", "setNode", "setPod"}
                 /\ on'[w] = on[w]
                 /\ todo'[w] \subseteq todo[w],
         \A s \in podSeries' :
            /\ s \in Pods \X Nodes
            /\ s \in podSeries \/ \E w \in Workers : At(w, s[2], {"setPod"}) /\ s[1] \in todo[w]
            /\ \A x \in Procs : At(x, s[2], {"evictPods"}) => At(x, s[2], {"evictPods"})'
            /\ \A w \in Workers :
                 At(w, s[2], {"evictStale"}) /\ NameOf[s[1]] \in stale[w] =>
                   At(w, s[2], {"evictStale"})' /\ NameOf[s[1]] \in stale'[w]
  PROVE  NoOrphan'
  <1>1. TrackersApart' /\ TrackersOwned'
    BY DEF NoOrphan, TrackersApart, TrackersOwned
  <1>2. CountsInNodeTracker' /\ TodoInSummary'
    BY DEF NoOrphan, CountsInNodeTracker, TodoInSummary
  <1>3. \A n \in Nodes : \A q : Tracked(n, q) => Tracked(n, q)'
    BY DEF Tracked
  <1>4. \A w \in Workers : pc[w] # "idle" => on[w] \in Nodes
    BY DEF TypeOK, Procs
  <1>5. TodoTracked'
    BY <1>3, <1>4 DEF NoOrphan, TodoTracked
  <1>6. TrackedUnlessRaced'
    <2> SUFFICES ASSUME NEW s \in podSeries', s[2] \notin raced'
                 PROVE  \/ Tracked(s[2], NameOf[s[1]])'
                        \/ Evicting(s[2], {"evictPods"})'
                        \/ \E w \in Workers :
                              At(w, s[2], {"evictStale"})' /\ NameOf[s[1]] \in stale'[w]
      BY DEF TrackedUnlessRaced
    <2>1. CASE s \in podSeries
      BY <2>1, <1>3 DEF NoOrphan, TrackedUnlessRaced, Evicting
    <2>2. CASE s \notin podSeries
      BY <2>2, <1>3 DEF NoOrphan, TodoTracked, At
    <2> QED
      BY <2>1, <2>2
  <1> QED
    BY <1>1, <1>2, <1>5, <1>6 DEF NoOrphan

\* nodeTrackers.Delete: afterwards nothing but x works on the node's series.
LEMMA EvictTrackerNoOrphan ==
  ASSUME TypeOK, NoOrphan, NEW x \in Procs, EvictTracker(x)
  PROVE  NoOrphan'
  <1> DEFINE n == on[x]
  <1>0. /\ n \in Nodes /\ pc[x] = "evictTracker"
        /\ UNCHANGED <<on, tracker, current, todo, stale, podSeries>>
        /\ pc' = [pc EXCEPT ![x] = "evictPods"]
        /\ nodeTrackers' = [nodeTrackers EXCEPT ![n] = NoTracker]
        /\ raced \subseteq raced'
    BY DEF TypeOK, EvictTracker, Go, workVars, gauges
  <1>1. /\ pc'[x] = "evictPods" /\ nodeTrackers'[n] = NoTracker
        /\ \A y \in Procs \ {x} : pc'[y] = pc[y]
        /\ \A m \in Nodes \ {n} : nodeTrackers'[m] = nodeTrackers[m]
    BY <1>0 DEF TypeOK
  <1>2. \A m \in Nodes \ {n} : \A q : Tracked(m, q) => Tracked(m, q)'
    BY <1>1 DEF Tracked, EvictTracker, Swept, Held, TypeOK
  <1>3. n \notin raced' => \A w \in Workers : ~At(w, n, ScrapeSteps \ {"query", "load"})'
    BY <1>0, <1>1 DEF EvictTracker, At
  <1>4. TrackersApart' /\ TrackersOwned'
    BY <1>0, <1>1 DEF NoOrphan, TrackersApart, TrackersOwned
  <1>5. \A w \in Workers : pc'[w] \in ScrapeSteps =>
          pc'[w] = pc[w] /\ on[w] \in Nodes /\ w \in Procs
    BY <1>1 DEF TypeOK, Procs
  <1>6. CountsInNodeTracker'
    BY <1>0, <1>1, <1>3, <1>5 DEF NoOrphan, CountsInNodeTracker, At
  <1>7. TodoInSummary'
    BY <1>0, <1>5 DEF NoOrphan, TodoInSummary
  <1>8. TodoTracked'
    BY <1>0, <1>2, <1>3, <1>5 DEF NoOrphan, TodoTracked, At
  <1>9. TrackedUnlessRaced'
    <2> SUFFICES ASSUME NEW s \in podSeries, s[2] \notin raced', s[2] # n
                 PROVE  \/ Tracked(s[2], NameOf[s[1]])'
                        \/ Evicting(s[2], {"evictPods"})'
                        \/ \E w \in Workers :
                              At(w, s[2], {"evictStale"})' /\ NameOf[s[1]] \in stale'[w]
      BY <1>0, <1>1 DEF TrackedUnlessRaced, Evicting, At
    <2>1. s[2] \in Nodes
      BY DEF TypeOK
    <2>2. \/ Tracked(s[2], NameOf[s[1]])
          \/ Evicting(s[2], {"evictPods"})
          \/ \E w \in Workers : At(w, s[2], {"evictStale"}) /\ NameOf[s[1]] \in stale[w]
      BY <1>0 DEF NoOrphan, TrackedUnlessRaced
    <2> QED
      BY <1>0, <1>1, <1>2, <2>1, <2>2 DEF Evicting, At, Procs
  <1> QED
    BY <1>4, <1>6, <1>7, <1>8, <1>9 DEF NoOrphan

\* nodeTrackers.LoadOrStore: the worker counts in its node's tracker.
LEMMA LoadTrackerNoOrphan ==
  ASSUME TypeOK, NoOrphan, NEW w \in Workers, NEW t \in TrackerIds, LoadTracker(w, t)
  PROVE  NoOrphan'
  <1> DEFINE n == on[w]
  <1>0. /\ n \in Nodes /\ pc[w] = "load" /\ w \in Procs /\ t # NoTracker
        /\ UNCHANGED <<on, current, todo, stale, trackers, podSeries, raced>>
        /\ pc' = [pc EXCEPT ![w] = "count"]
        /\ nodeTrackers' = [nodeTrackers EXCEPT ![n] = t]
        /\ tracker' = [tracker EXCEPT ![w] = t]
    BY ConstantTypes DEF TypeOK, LoadTracker, Go, gauges, Procs
  <1>1. /\ pc'[w] = "count" /\ tracker'[w] = t /\ nodeTrackers'[n] = t
        /\ \A y \in Procs \ {w} : pc'[y] = pc[y]
        /\ \A v \in Workers \ {w} : tracker'[v] = tracker[v]
        /\ \A m \in Nodes \ {n} : nodeTrackers'[m] = nodeTrackers[m]
    BY <1>0 DEF TypeOK
  <1>2. \/ nodeTrackers[n] = t
        \/ nodeTrackers[n] = NoTracker /\ (\A m \in Nodes : nodeTrackers[m] # t)
             /\ (\A v \in Workers : tracker[v] # t)
    BY DEF LoadTracker, Held
  <1>3. \A m \in Nodes : \A q : Tracked(m, q) => Tracked(m, q)'
    BY <1>0, <1>1, <1>2 DEF Tracked
  <1>4. TrackersApart' /\ TrackersOwned'
    BY <1>0, <1>1, <1>2 DEF NoOrphan, TrackersApart, TrackersOwned
  <1>5. \A v \in Workers : v \in Procs /\ (pc[v] # "idle" => on[v] \in Nodes)
    BY DEF TypeOK, Procs
  <1>6. CountsInNodeTracker'
    <2> SUFFICES ASSUME NEW v \in Workers, pc'[v] \in {"count", "evictStale"}, on[v] \notin raced
                 PROVE  nodeTrackers'[on[v]] = tracker'[v]
      BY <1>0 DEF CountsInNodeTracker
    <2>1. CASE v = w
      BY <1>1, <2>1
    <2>2. CASE v # w
      <3>1. nodeTrackers[on[v]] = tracker[v] /\ tracker[v] # NoTracker
        BY <1>1, <1>5, <2>2 DEF NoOrphan, CountsInNodeTracker, TypeOK
      <3> QED
        BY <1>1, <1>2, <1>5, <2>2, <3>1
    <2> QED
      BY <2>1, <2>2
  <1>7. TodoInSummary'
    BY <1>0, <1>1, <1>5 DEF NoOrphan, TodoInSummary
  <1>8. TodoTracked'
    BY <1>0, <1>1, <1>3, <1>5 DEF NoOrphan, TodoTracked
  <1>9. TrackedUnlessRaced'
    BY <1>0, <1>1, <1>3, <1>5 DEF NoOrphan, TrackedUnlessRaced, Evicting, At, TypeOK
  <1> QED
    BY <1>4, <1>6, <1>7, <1>8, <1>9 DEF NoOrphan

\* The counting of EvictStalePods: the names it forgets are those the worker
\* goes on to evict, and nobody is about to export them.
LEMMA CountMissesNoOrphan ==
  ASSUME TypeOK, NoOrphan, NEW w \in Workers, CountMisses(w)
  PROVE  NoOrphan'
  <1> DEFINE n == on[w]
             t == tracker[w]
             gone == StaleNames(trackers[t], current[w])
  <1>0. /\ n \in Nodes /\ pc[w] = "count" /\ w \in Procs /\ t \in TrackerIds
        /\ UNCHANGED <<on, tracker, todo, nodeTrackers, podSeries>>
        /\ pc' = [pc EXCEPT ![w] = "evictStale"]
        /\ stale' = [stale EXCEPT ![w] = gone]
        /\ current' = [current EXCEPT ![w] = {}]
        /\ trackers' = [trackers EXCEPT ![t] = AfterScrape(trackers[t], current[w])]
        /\ raced \subseteq raced'
    BY DEF TypeOK, CountMisses, Go, gauges, Procs
  <1>1. /\ pc'[w] = "evictStale" /\ stale'[w] = gone
        /\ \A y \in Procs \ {w} : pc'[y] = pc[y]
        /\ \A v \in Workers \ {w} : stale'[v] = stale[v] /\ current'[v] = current[v]
        /\ trackers'[t] = AfterScrape(trackers[t], current[w])
        /\ \A u \in TrackerIds \ {t} : trackers'[u] = trackers[u]
    BY <1>0 DEF TypeOK
  <1>2. n \notin raced' => \A v \in Workers \ {w} :
          At(v, n, {"evictStale", "setNode", "setPod"}) => Names(todo[v]) \cap gone = {}
    BY <1>0 DEF CountMisses, Exposing
  <1>3. \A v \in Workers : v \in Procs /\ (pc[v] # "idle" => on[v] \in Nodes)
    BY DEF TypeOK, Procs
  <1>4. \A m \in Nodes : nodeTrackers[m] \in TrackerIds \cup {NoTracker}
                        /\ (nodeTrackers[m] = t => m = n)
    BY <1>0, ConstantTypes DEF NoOrphan, TrackersOwned, TypeOK
  <1>5. \A m \in Nodes \ {n} : \A q : Tracked(m, q) => Tracked(m, q)'
    BY <1>0, <1>1, <1>4 DEF Tracked
  <1>6. \A q \in PodNames :
          /\ q \in current[w] => trackers'[t][q] # NotTracked
          /\ trackers[t][q] # NotTracked /\ q \notin gone => trackers'[t][q] # NotTracked
    <2>1. trackers[t] \in LastSeen
      BY <1>0 DEF TypeOK
    <2> QED
      BY <1>1, <2>1 DEF AfterScrape, Reset, NotTracked, LastSeen
  <1>7. n \notin raced => nodeTrackers[n] = t
    BY <1>0 DEF NoOrphan, CountsInNodeTracker
  <1>8. n \notin raced => \A q \in PodNames :
          (Tracked(n, q) /\ q \notin gone) \/ q \in current[w] => Tracked(n, q)'
    BY <1>0, <1>6, <1>7, ConstantTypes DEF Tracked
  <1>9. TrackersApart' /\ TrackersOwned'
    BY <1>0 DEF NoOrphan, TrackersApart, TrackersOwned
  <1>10. CountsInNodeTracker'
    BY <1>0, <1>1, <1>3, <1>7 DEF NoOrphan, CountsInNodeTracker
  <1>11. TodoInSummary'
    BY <1>0, <1>1, <1>3 DEF NoOrphan, TodoInSummary
  <1>12. TodoTracked'
    <2> SUFFICES ASSUME NEW v \in Workers, NEW p \in todo[v], on[v] \notin raced',
                        pc'[v] \in {"evictStale", "setNode", "setPod"}
                 PROVE  Tracked(on[v], NameOf[p])'
      BY <1>0 DEF TodoTracked
    <2>1. on[v] \in Nodes /\ p \in Pods /\ NameOf[p] \in PodNames /\ NameOf[p] \in Names(todo[v])
      BY <1>0, <1>1, <1>3, ConstantTypes DEF TypeOK, Names
    <2>2. CASE v = w
      BY <1>0, <1>8, <2>1, <2>2 DEF NoOrphan, TodoInSummary
    <2>3. CASE v # w
      <3>1. Tracked(on[v], NameOf[p])
        BY <1>0, <1>1, <1>3, <2>3 DEF NoOrphan, TodoTracked
      <3>2. CASE on[v] = n
        BY <1>0, <1>1, <1>2, <1>3, <1>8, <2>1, <2>3, <3>1, <3>2 DEF At
      <3>3. CASE on[v] # n
        BY <1>0, <1>5, <2>1, <3>1, <3>3
      <3> QED
        BY <3>2, <3>3
    <2> QED
      BY <2>2, <2>3
  <1>13. TrackedUnlessRaced'
    <2> SUFFICES ASSUME NEW s \in podSeries, s[2] \notin raced'
                 PROVE  \/ Tracked(s[2], NameOf[s[1]])'
                        \/ Evicting(s[2], {"evictPods"})'
                        \/ \E v \in Workers :
                              At(v, s[2], {"evictStale"})' /\ NameOf[s[1]] \in stale'[v]
      BY <1>0 DEF TrackedUnlessRaced
    <2>1. s[2] \in Nodes /\ NameOf[s[1]] \in PodNames
      BY ConstantTypes DEF TypeOK
    <2>2. CASE Evicting(s[2], {"evictPods"})
      BY <1>0, <1>1, <2>2 DEF Evicting, At
    <2>3. ASSUME NEW v \in Workers, At(v, s[2], {"evictStale"}), NameOf[s[1]] \in stale[v]
          PROVE  At(v, s[2], {"evictStale"})' /\ NameOf[s[1]] \in stale'[v]
      BY <1>0, <1>1, <1>3, <2>3 DEF At
    <2>4. CASE Tracked(s[2], NameOf[s[1]]) /\ s[2] # n
      BY <1>5, <2>1, <2>4
    <2>5. CASE Tracked(s[2], NameOf[s[1]]) /\ s[2] = n
      BY <1>0, <1>1, <1>8, <2>1, <2>5 DEF At
    <2> QED
      BY <1>0, <2>2, <2>3, <2>4, <2>5 DEF NoOrphan, TrackedUnlessRaced
  <1> QED
    BY <1>9, <1>10, <1>11, <1>12, <1>13 DEF NoOrphan

\* Every step of the exporter and of the cluster keeps NoOrphan.
LEMMA NoOrphanStep ==
  ASSUME TypeOK, NoOrphan, [Next]_vars
  PROVE  NoOrphan'
  <1> USE NoOrphanFrame DEF Go, Start, Finish, At, nodeVars, workVars, treeVars, gauges
  <1>0. /\ \A w \in Workers : w \in Procs /\ w # Watcher
        /\ podSeries \subseteq Pods \X Nodes
        /\ \A w \in Workers : \A p \in todo[w] :
             pc[w] \in {"load", "count"} => NameOf[p] \in current[w]
        /\ pc \in [Procs -> {"idle"} \cup EvictSteps \cup ScrapeSteps \cup WatchSteps]
        /\ on \in [Procs -> Nodes \cup {NoNode}]
        /\ Watcher \in Procs /\ pc[Watcher] \notin ScrapeSteps
    BY ConstantTypes DEF TypeOK, NoOrphan, TodoInSummary, Procs
  <1>1. CASE Cluster
    BY <1>0, <1>1, ClusterFrame
  <1>2. ASSUME NEW x \in Procs, Evict(x)
        PROVE  NoOrphan'
    <2>1. CASE EvictSet(x)
      BY <1>0, <2>1 DEF EvictSet
    <2>2. CASE EvictNodeGauges(x)
      BY <1>0, <2>2 DEF EvictNodeGauges
    <2>3. CASE EvictTracker(x)
      BY <2>3, EvictTrackerNoOrphan
    <2>4. CASE EvictPods(x)
      <3>1. /\ pc[x] = "evictPods" /\ pc'[x] \in {"idle", "dropEndpoint"}
            /\ \A y \in Procs \ {x} : pc'[y] = pc[y] /\ on'[y] = on[y]
        BY <1>0, <2>4 DEF EvictPods
      <3>2. /\ podSeries' = {s \in podSeries : s[2] # on[x]}
            /\ UNCHANGED <<nodeTrackers, trackers, raced, tracker, current, todo, stale>>
        BY <2>4 DEF EvictPods
      <3>3. \A w \in Workers : pc'[w] \in ScrapeSteps => w # x
        BY <3>1
      <3>4. \A w \in Workers : tracker[w] # NoTracker => w # x
        BY <3>1 DEF TypeOK
      <3> QED
        BY <1>0, <3>1, <3>2, <3>3, <3>4
    <2> QED
      BY <1>2, <2>1, <2>2, <2>3, <2>4 DEF Evict
  <1>3. CASE NodeReady
    BY <1>0, <1>3 DEF NodeReady, TakeEvent
  <1>4. CASE StoreEndpoint
    BY <1>0, <1>4 DEF StoreEndpoint
  <1>5. CASE NodeNotReady
    BY <1>0, <1>5 DEF NodeNotReady
  <1>6. CASE NodeDeleted
    BY <1>0, <1>6 DEF NodeDeleted, TakeEvent
  <1>7. CASE DropEndpoint
    BY <1>0, <1>7 DEF DropEndpoint
  <1>8. ASSUME NEW q \in PodNames, PodDeleted(q)
        PROVE  NoOrphan'
    BY <1>0, <1>8 DEF PodDeleted
  <1>9. CASE Poll
    BY <1>0, <1>9 DEF Poll
  <1>10. ASSUME NEW w \in Workers, NEW n \in Nodes, Invoke(w, n)
         PROVE  NoOrphan'
    BY <1>0, <1>10 DEF Invoke, TypeOK
  <1>11. ASSUME NEW w \in Workers, QuerySucceeds(w)
         PROVE  NoOrphan'
    BY <1>0, <1>11 DEF QuerySucceeds, Names, TypeOK
  <1>12. ASSUME NEW w \in Workers, QueryGarbled(w) \/ QueryGivesUp(w)
         PROVE  NoOrphan'
    BY <1>0, <1>12 DEF QueryGarbled, QueryGivesUp, TypeOK
  <1>13. ASSUME NEW w \in Workers, NEW t \in TrackerIds, LoadTracker(w, t)
         PROVE  NoOrphan'
    BY <1>13, LoadTrackerNoOrphan
  <1>14. ASSUME NEW w \in Workers, CountMisses(w)
         PROVE  NoOrphan'
    BY <1>14, CountMissesNoOrphan
  <1>15. ASSUME NEW w \in Workers, NEW q \in PodNames, EvictStaleName(w, q)
         PROVE  NoOrphan'
    BY <1>0, <1>15 DEF EvictStaleName, TypeOK
  <1>16. ASSUME NEW w \in Workers, Unlock(w)
         PROVE  NoOrphan'
    <2>1. /\ pc[w] = "evictStale" /\ pc' = [pc EXCEPT ![w] = "setNode"]
          /\ stale[w] = {} /\ tracker' = [tracker EXCEPT ![w] = NoTracker]
          /\ UNCHANGED <<on, current, todo, stale, nodeTrackers, podSeries, raced>>
      BY <1>16 DEF Unlock
    <2>2. \A n \in Nodes :
            nodeTrackers[n] # NoTracker =>
              trackers'[nodeTrackers[n]] = trackers[nodeTrackers[n]]
      BY <1>16, <2>1 DEF Unlock, Swept, Held, TypeOK
    <2>3. /\ pc'[w] = "setNode" /\ tracker'[w] = NoTracker
          /\ \A y \in Procs \ {w} : pc'[y] = pc[y]
          /\ \A v \in Workers \ {w} : tracker'[v] = tracker[v]
      BY <1>0, <2>1 DEF TypeOK
    <2> QED
      BY <1>0, <2>1, <2>2, <2>3
  <1>17. ASSUME NEW w \in Workers, SetNodeGauges(w)
         PROVE  NoOrphan'
    BY <1>0, <1>17 DEF SetNodeGauges
  <1>18. ASSUME NEW w \in Workers, NEW p \in Pods, SetPodGauges(w, p)
         PROVE  NoOrphan'
    BY <1>0, <1>18 DEF SetPodGauges, TypeOK
  <1>19. ASSUME NEW w \in Workers, SetPollingRate(w)
         PROVE  NoOrphan'
    BY <1>0, <1>19 DEF SetPollingRate, TypeOK
  <1>20. CASE UNCHANGED vars
    BY <1>0, <1>20 DEF vars
  <1> QED
    BY <1>1, <1>2, <1>3, <1>4, <1>5, <1>6, <1>7, <1>8, <1>9, <1>10, <1>11, <1>12,
       <1>13, <1>14, <1>15, <1>16, <1>17, <1>18, <1>19, <1>20
    DEF Next, Watch, Work, Procs

\* NoOrphan is an invariant.
LEMMA NoOrphanInvariant == Spec => []NoOrphan
  <1>1. Init => NoOrphan
    BY DEF Init, NoOrphan, TrackersApart, TrackersOwned, CountsInNodeTracker,
           TodoInSummary, TodoTracked, TrackedUnlessRaced, Procs
  <1>2. TypeOK /\ NoOrphan /\ [Next]_vars => NoOrphan'
    BY NoOrphanStep
  <1> QED
    BY <1>1, <1>2, TypeCorrect, PTL DEF Spec

\* In every reachable state of every instance, every pod series of a node that
\* was not raced is tracked, so it is counted until it is evicted, or it is
\* being evicted already.
THEOREM NothingUntracked == Spec => []TrackedUnlessRaced
  <1>1. NoOrphan => TrackedUnlessRaced
    BY DEF NoOrphan
  <1> QED
    BY <1>1, NoOrphanInvariant, PTL

-----------------------------------------------------------------------------
(***************************************************************************)
(* A node that is to be scraped from its kubelet has an endpoint.  Only    *)
(* the watcher adds nodes and endpoints, and it forgets the endpoint of a  *)
(* node it has taken out of Node.Set and cannot meanwhile put back.        *)
(***************************************************************************)
ForgottenNotMonitored ==
  pc[Watcher] \in {"evictNodeGauges", "evictTracker", "evictPods", "dropEndpoint"}
    => on[Watcher] \notin monitored

EndpointsKnown == ForgottenNotMonitored /\ MonitoredHasEndpoint

\* A step that leaves the watcher and the endpoints alone keeps the invariant.
LEMMA EndpointsFrame ==
  ASSUME EndpointsKnown, monitored' \subseteq monitored,
         UNCHANGED <<endpoints, pc[Watcher], on[Watcher]>>
  PROVE  EndpointsKnown'
  BY DEF EndpointsKnown, ForgottenNotMonitored, MonitoredHasEndpoint, At

\* The watcher's own steps keep it.
LEMMA EndpointsWatch ==
  ASSUME TypeOK, EndpointsKnown, Watch
  PROVE  EndpointsKnown'
  <1> USE DEF Go, Start, Finish, At, nodeVars, EndpointsKnown, ForgottenNotMonitored,
              MonitoredHasEndpoint
  <1>0. /\ Watcher \in Procs
        /\ pc \in [Procs -> {"idle"} \cup EvictSteps \cup ScrapeSteps \cup WatchSteps]
        /\ on \in [Procs -> Nodes \cup {NoNode}]
        /\ Deployment \in BOOLEAN /\ ScrapeFromKubelet \in BOOLEAN
    BY ConfigAssumption DEF TypeOK, Procs
  <1>1. CASE NodeReady
    <2>1. /\ pc[Watcher] = "idle" /\ monitored' = monitored \cup {Head(events).node}
          /\ UNCHANGED endpoints
      BY <1>1 DEF NodeReady, TakeEvent
    <2>2. CASE ScrapeFromKubelet
      <3>1. pc'[Watcher] = "storeEndpoint" /\ on'[Watcher] = Head(events).node
        BY <1>0, <1>1, <2>2 DEF NodeReady
      <3> QED
        BY <2>1, <3>1
    <2>3. CASE ~ScrapeFromKubelet
      <3>1. pc' = pc
        BY <1>1, <2>3 DEF NodeReady
      <3> QED
        BY <2>1, <2>3, <3>1
    <2> QED
      BY <2>2, <2>3
  <1>2. CASE StoreEndpoint
    BY <1>0, <1>2 DEF StoreEndpoint
  <1>3. CASE NodeNotReady
    BY <1>0, <1>3 DEF NodeNotReady
  <1>4. CASE NodeDeleted
    BY <1>0, <1>4 DEF NodeDeleted, TakeEvent
  <1>5. CASE Evict(Watcher)
    BY <1>0, <1>5 DEF Evict, EvictSet, EvictNodeGauges, EvictTracker, EvictPods
  <1>6. CASE DropEndpoint
    BY <1>0, <1>6 DEF DropEndpoint
  <1> QED
    BY <1>1, <1>2, <1>3, <1>4, <1>5, <1>6 DEF Watch

\* In every reachable state of every instance, a monitored node has an endpoint
\* or the informer's handler is about to store it.
THEOREM MonitoredReachable == Spec => []MonitoredHasEndpoint
  <1>1. Init => EndpointsKnown
    BY DEF Init, EndpointsKnown, ForgottenNotMonitored, MonitoredHasEndpoint, Procs
  <1>2. TypeOK /\ EndpointsKnown /\ [Next]_vars => EndpointsKnown'
    <2> SUFFICES ASSUME TypeOK, EndpointsKnown, [Next]_vars
                 PROVE  EndpointsKnown'
      OBVIOUS
    <2> USE EndpointsFrame DEF nodeVars
    <2>1. CASE Cluster
      BY <2>1, ClusterFrame
    <2>2. CASE Watch
      BY <2>2, EndpointsWatch
    <2>3. ASSUME NEW q \in PodNames, PodDeleted(q)
          PROVE  EndpointsKnown'
      BY <2>3 DEF PodDeleted
    <2>4. CASE Poll
      BY <2>4 DEF Poll
    <2>5. ASSUME NEW w \in Workers, NEW n \in Nodes, Invoke(w, n)
          PROVE  EndpointsKnown'
      BY <2>5, ConstantTypes DEF Invoke, Start, TypeOK, Procs
    <2>6. ASSUME NEW w \in Workers, Work(w)
          PROVE  EndpointsKnown'
      <3>1. monitored' \subseteq monitored /\ UNCHANGED endpoints
        BY <2>6 DEF Work, QuerySucceeds, QueryGarbled, QueryGivesUp, Evict, EvictSet,
                    EvictNodeGauges, EvictTracker, EvictPods, LoadTracker, CountMisses,
                    EvictStaleName, Unlock, SetNodeGauges, SetPodGauges, SetPollingRate
      <3>2. UNCHANGED <<pc[Watcher], on[Watcher]>>
        BY <2>6, ConstantTypes
        DEF Work, QuerySucceeds, QueryGarbled, QueryGivesUp, Evict, EvictSet,
            EvictNodeGauges, EvictTracker, EvictPods, LoadTracker, CountMisses,
            EvictStaleName, Unlock, SetNodeGauges, SetPodGauges, SetPollingRate,
            Go, Start, Finish, TypeOK, Procs
      <3> QED
        BY <3>1, <3>2
    <2>7. CASE UNCHANGED vars
      BY <2>7 DEF vars
    <2> QED
      BY <2>1, <2>2, <2>3, <2>4, <2>5, <2>6, <2>7 DEF Next
  <1>3. EndpointsKnown => MonitoredHasEndpoint
    BY DEF EndpointsKnown
  <1> QED
    BY <1>1, <1>2, <1>3, TypeCorrect, PTL DEF Spec

-----------------------------------------------------------------------------
(***************************************************************************)
(* The strengthening of DepartedForgettable: what the queue says last of a *)
(* node that left is that it left.                                         *)
(***************************************************************************)
DeletedLast ==
  \A i \in DOMAIN events :
    events[i].node \notin selected =>
      \E j \in DOMAIN events : j >= i /\ events[j] = [node |-> events[i].node, status |-> "deleted"]

StoredInTime ==
  \A n \in Nodes \ selected : At(Watcher, n, {"storeEndpoint"}) => DeletionPending(n)

EndpointsIfScraped ==
  ~ScrapeFromKubelet => endpoints = {} /\ pc[Watcher] # "storeEndpoint"

Forgettable ==
  /\ EndpointsIfScraped
  /\ DepartedForgettable
  /\ Deployment => DeletedLast /\ StoredInTime

\* A notification at the end of the queue.
LEMMA Appended ==
  ASSUME events \in Seq(Event), NEW e \in Event, events' = Append(events, e)
  PROVE  /\ Len(events) \in Nat
         /\ DOMAIN events = 1..Len(events) /\ DOMAIN events' = 1..(Len(events) + 1)
         /\ \A k \in 1..Len(events) : events'[k] = events[k]
         /\ events'[Len(events) + 1] = e
  OBVIOUS

\* The first notification gone from the queue.
LEMMA Taken ==
  ASSUME events \in Seq(Event), events # <<>>, events' = Tail(events)
  PROVE  /\ Len(events) \in Nat \ {0}
         /\ DOMAIN events = 1..Len(events) /\ DOMAIN events' = 1..(Len(events) - 1)
         /\ \A k \in 1..(Len(events) - 1) : events'[k] = events[k + 1]
         /\ Head(events) = events[1]
  OBVIOUS

\* A notification of n, of its deletion if it is the informer's no longer.
LEMMA NotifyForgettable ==
  ASSUME TypeOK, Forgettable, NEW n \in Nodes, NEW status \in {"ready", "notReady", "deleted"},
         Notify(n, status), UNCHANGED <<nodeVars, pc, on>>,
         \/ status # "deleted" /\ selected' = selected \cup {n}
         \/ status = "deleted" /\ selected' = selected \ {n}
  PROVE  Forgettable'
  <1> DEFINE e == [node |-> n, status |-> status]
             N == Len(events)
  <1>1. CASE ~Deployment
    BY <1>1 DEF Forgettable, EndpointsIfScraped, DepartedForgettable, nodeVars
  <1>2. CASE Deployment
    <2>1. e \in Event /\ events \in Seq(Event) /\ events' = Append(events, e)
      BY <1>2 DEF Notify, Event, TypeOK
    <2> HIDE DEF e
    <2>2. /\ N \in Nat
          /\ DOMAIN events = 1..N /\ DOMAIN events' = 1..(N + 1)
          /\ \A k \in 1..N : events'[k] = events[k]
          /\ events'[N + 1] = e
      BY <2>1, Appended
    <2> HIDE DEF N
    <2>3. \A m \in Nodes : DeletionPending(m) => DeletionPending(m)'
      BY <2>2 DEF DeletionPending
    <2>4. n \notin selected' => DeletionPending(n)' /\ status = "deleted"
      BY <2>2 DEF DeletionPending, e
    <2>5. \A m \in Nodes \ {n} : m \notin selected' => m \notin selected
      OBVIOUS
    <2>6. DeletedLast'
      <3> SUFFICES ASSUME NEW i \in 1..(N + 1), events'[i].node \notin selected'
                   PROVE  \E j \in 1..(N + 1) :
                            j >= i /\ events'[j] = [node |-> events'[i].node, status |-> "deleted"]
        BY <2>2 DEF DeletedLast
      <3>1. CASE events'[i].node = n
        <4>1. events'[N + 1] = [node |-> events'[i].node, status |-> "deleted"]
          BY <2>2, <2>4, <3>1 DEF e
        <4> QED
          BY <2>2, <4>1
      <3>2. CASE events'[i].node # n
        <4>1. i \in 1..N /\ events'[i] = events[i]
          BY <2>2, <3>2 DEF e
        <4>2. events[i].node \notin selected
          BY <3>2, <4>1
        <4>3. PICK j \in 1..N : j >= i /\ events[j] = [node |-> events[i].node, status |-> "deleted"]
          BY <1>2, <2>2, <4>1, <4>2 DEF Forgettable, DeletedLast
        <4> QED
          BY <2>2, <4>1, <4>3
      <3> QED
        BY <3>1, <3>2
    <2> QED
      BY <1>2, <2>3, <2>4, <2>5, <2>6
         DEF Forgettable, EndpointsIfScraped, DepartedForgettable, StoredInTime, At, nodeVars, TypeOK
  <1> QED
    BY <1>1, <1>2

\* What the first notification leaves behind when it is taken.
LEMMA TakeForgettable ==
  ASSUME TypeOK, Forgettable, NEW status, TakeEvent(status), UNCHANGED selected
  PROVE  /\ Head(events) = [node |-> Head(events).node, status |-> status]
         /\ Head(events).node \in Nodes
         /\ Deployment => DeletedLast'
         /\ \A m \in Nodes : DeletionPending(m) =>
              DeletionPending(m)' \/ (status = "deleted" /\ m = Head(events).node)
         /\ \A m \in Nodes \ selected :
              Deployment /\ status # "deleted" /\ m = Head(events).node => DeletionPending(m)'
  <1>1. events \in Seq(Event) /\ events # <<>> /\ events' = Tail(events) /\ Head(events) \in Event
    <2>1. events \in Seq(Event)
      BY DEF TypeOK, Event
    <2> QED
      BY <2>1 DEF TakeEvent
  <1>2. PICK N \in Nat \ {0} :
          /\ DOMAIN events = 1..N /\ DOMAIN events' = 1..(N - 1)
          /\ \A k \in 1..(N - 1) : events'[k] = events[k + 1]
          /\ Head(events) = events[1]
    BY <1>1, Taken
  <1>3. \A k \in 2..N : k - 1 \in 1..(N - 1) /\ events'[k - 1] = events[k]
    BY <1>2
  <1>4. Head(events) = [node |-> Head(events).node, status |-> status] /\ Head(events).node \in Nodes
    BY <1>1 DEF Event, TakeEvent
  <1>5. ASSUME Deployment
        PROVE  DeletedLast'
    <2> SUFFICES ASSUME NEW i \in 1..(N - 1), events'[i].node \notin selected
                 PROVE  \E j \in 1..(N - 1) :
                          j >= i /\ events'[j] = [node |-> events'[i].node, status |-> "deleted"]
      BY <1>2 DEF DeletedLast
    <2>1. PICK j \in 1..N : j >= i + 1 /\ events[j] = [node |-> events[i + 1].node, status |-> "deleted"]
      BY <1>2, <1>5 DEF Forgettable, DeletedLast
    <2>2. j - 1 \in 1..(N - 1) /\ j - 1 >= i /\ events'[j - 1] = events[j]
      BY <1>2, <1>3, <2>1
    <2> QED
      BY <1>2, <2>1, <2>2
  <1>6. ASSUME NEW m \in Nodes, DeletionPending(m), status # "deleted" \/ m # Head(events).node
        PROVE  DeletionPending(m)'
    <2>1. PICK i \in 1..N : events[i] = [node |-> m, status |-> "deleted"]
      BY <1>2, <1>6 DEF DeletionPending
    <2>2. i # 1
      BY <1>2, <1>4, <1>6, <2>1
    <2> QED
      BY <1>2, <1>3, <2>1, <2>2 DEF DeletionPending
  <1>7. ASSUME NEW m \in Nodes \ selected, Deployment, status # "deleted", m = Head(events).node
        PROVE  DeletionPending(m)'
    <2>1. PICK j \in 1..N : events[j] = [node |-> m, status |-> "deleted"]
      BY <1>2, <1>7 DEF Forgettable, DeletedLast
    <2>2. DeletionPending(m)
      BY <1>2, <2>1 DEF DeletionPending
    <2> QED
      BY <1>6, <1>7, <2>2
  <1>8. \A m \in Nodes : DeletionPending(m) =>
          DeletionPending(m)' \/ (status = "deleted" /\ m = Head(events).node)
    BY <1>6
  <1>9. \A m \in Nodes \ selected :
          Deployment /\ status # "deleted" /\ m = Head(events).node => DeletionPending(m)'
    BY <1>7
  <1> QED
    BY <1>4, <1>5, <1>8, <1>9

\* A step that leaves the queue and the watcher alone.
LEMMA ForgettableFrame ==
  ASSUME Forgettable, monitored' \subseteq monitored,
         UNCHANGED <<selected, events, endpoints, pc[Watcher], on[Watcher]>>
  PROVE  Forgettable'
  BY DEF Forgettable, EndpointsIfScraped, DepartedForgettable, DeletedLast, StoredInTime,
         DeletionPending, At

\* The watcher's own steps.
LEMMA WatchForgettable ==
  ASSUME TypeOK, Forgettable, Watch
  PROVE  Forgettable'
  <1> USE DEF Go, Start, Finish, nodeVars, cluster
  <1>0. /\ Watcher \in Procs
        /\ pc \in [Procs -> {"idle"} \cup EvictSteps \cup ScrapeSteps \cup WatchSteps]
        /\ on \in [Procs -> Nodes \cup {NoNode}]
        /\ monitored \subseteq Nodes /\ endpoints \subseteq Nodes
    BY DEF TypeOK, Procs
  <1>1. CASE NodeReady
    <2> DEFINE n == Head(events).node
    <2>1. /\ TakeEvent("ready") /\ UNCHANGED <<selected, endpoints>>
          /\ pc[Watcher] = "idle" /\ monitored' = monitored \cup {n}
          /\ IF ScrapeFromKubelet
             THEN pc'[Watcher] = "storeEndpoint" /\ on'[Watcher] = n
             ELSE UNCHANGED <<pc, on>>
      BY <1>0, <1>1 DEF NodeReady, TakeEvent
    <2>2. /\ n \in Nodes
          /\ Deployment => DeletedLast'
          /\ \A m \in Nodes : DeletionPending(m) => DeletionPending(m)'
          /\ \A m \in Nodes \ selected : Deployment /\ m = n => DeletionPending(m)'
      BY <2>1, TakeForgettable
    <2> HIDE DEF n
    <2>3. DepartedForgettable'
      <3>1. ASSUME Deployment, NEW m \in monitored' \ selected'
            PROVE  DeletionPending(m)' \/ At(Watcher, m, {"evictSet"})'
        BY <1>0, <2>1, <2>2, <3>1 DEF Forgettable, DepartedForgettable, At
      <3>2. ASSUME Deployment, NEW m \in endpoints' \ selected'
            PROVE  DeletionPending(m)' \/ At(Watcher, m, EvictSteps \cup {"dropEndpoint"})'
        BY <1>0, <2>1, <2>2, <3>2 DEF Forgettable, DepartedForgettable, At
      <3> QED
        BY <3>1, <3>2 DEF DepartedForgettable
    <2>4. Deployment => StoredInTime'
      BY <1>0, <2>1, <2>2 DEF StoredInTime, At
    <2> QED
      BY <2>1, <2>2, <2>3, <2>4 DEF Forgettable, EndpointsIfScraped
  <1>2. CASE StoreEndpoint
    <2>1. /\ pc[Watcher] = "storeEndpoint" /\ endpoints' = endpoints \cup {on[Watcher]}
          /\ pc'[Watcher] = "idle" /\ UNCHANGED <<selected, events, monitored>>
          /\ on[Watcher] \in Nodes
      BY <1>0, <1>2 DEF StoreEndpoint, TypeOK
    <2> QED
      BY <1>0, <2>1 DEF Forgettable, EndpointsIfScraped, DepartedForgettable, DeletedLast,
                        StoredInTime, DeletionPending, At
  <1>3. CASE NodeNotReady
    <2>1. /\ TakeEvent("notReady")
          /\ UNCHANGED <<selected, endpoints, monitored, pc, on>>
      BY <1>3 DEF NodeNotReady
    <2>2. /\ Deployment => DeletedLast'
          /\ \A m \in Nodes : DeletionPending(m) => DeletionPending(m)'
      BY <2>1, TakeForgettable
    <2> QED
      BY <1>0, <2>1, <2>2 DEF Forgettable, EndpointsIfScraped, DepartedForgettable, StoredInTime, At
  <1>4. CASE NodeDeleted
    <2> DEFINE n == Head(events).node
    <2>1. /\ TakeEvent("deleted") /\ UNCHANGED <<selected, endpoints, monitored>>
          /\ pc[Watcher] = "idle" /\ pc'[Watcher] = "evictSet" /\ on'[Watcher] = n
      BY <1>0, <1>4 DEF NodeDeleted, TakeEvent
    <2>2. /\ Deployment => DeletedLast'
          /\ \A m \in Nodes : DeletionPending(m) => DeletionPending(m)' \/ m = n
      BY <2>1, TakeForgettable
    <2> HIDE DEF n
    <2>3. DepartedForgettable'
      <3>1. ASSUME Deployment, NEW m \in monitored' \ selected'
            PROVE  DeletionPending(m)' \/ At(Watcher, m, {"evictSet"})'
        BY <1>0, <2>1, <2>2, <3>1 DEF Forgettable, DepartedForgettable, At
      <3>2. ASSUME Deployment, NEW m \in endpoints' \ selected'
            PROVE  DeletionPending(m)' \/ At(Watcher, m, EvictSteps \cup {"dropEndpoint"})'
        BY <1>0, <2>1, <2>2, <3>2 DEF Forgettable, DepartedForgettable, At
      <3> QED
        BY <3>1, <3>2 DEF DepartedForgettable
    <2>4. Deployment => StoredInTime'
      BY <1>0, <2>1, <2>2 DEF StoredInTime, At
    <2> QED
      BY <2>1, <2>2, <2>3, <2>4 DEF Forgettable, EndpointsIfScraped
  <1>5. CASE Evict(Watcher)
    <2>1. /\ UNCHANGED <<selected, events, endpoints, on>>
          /\ pc[Watcher] \in EvictSteps
          /\ pc[Watcher] = "evictSet" => monitored' = monitored \ {on[Watcher]}
          /\ pc[Watcher] # "evictSet" => monitored' = monitored
      BY <1>5 DEF Evict, EvictSet, EvictNodeGauges, EvictTracker, EvictPods
    <2>2. pc'[Watcher] \in {"evictNodeGauges", "evictTracker", "evictPods", "dropEndpoint"}
      BY <1>0, <1>5 DEF Evict, EvictSet, EvictNodeGauges, EvictTracker, EvictPods
    <2>3. DepartedForgettable'
      <3>1. ASSUME Deployment, NEW m \in monitored \ selected, m \in monitored'
            PROVE  DeletionPending(m)'
        BY <1>0, <2>1, <3>1 DEF Forgettable, DepartedForgettable, DeletionPending, At
      <3>2. ASSUME Deployment, NEW m \in endpoints \ selected
            PROVE  DeletionPending(m)' \/ At(Watcher, m, EvictSteps \cup {"dropEndpoint"})'
        BY <1>0, <2>1, <2>2, <3>2 DEF Forgettable, DepartedForgettable, DeletionPending, At
      <3> QED
        BY <2>1, <3>1, <3>2 DEF DepartedForgettable
    <2> QED
      BY <2>1, <2>2, <2>3 DEF Forgettable, EndpointsIfScraped, DeletedLast, StoredInTime, At
  <1>6. CASE DropEndpoint
    <2>1. /\ pc[Watcher] = "dropEndpoint" /\ pc'[Watcher] = "idle"
          /\ endpoints' = IF ScrapeFromKubelet THEN endpoints \ {on[Watcher]} ELSE endpoints
          /\ UNCHANGED <<selected, events, monitored>>
      BY <1>0, <1>6 DEF DropEndpoint
    <2> QED
      BY <1>0, <2>1 DEF Forgettable, EndpointsIfScraped, DepartedForgettable, DeletedLast,
                        StoredInTime, DeletionPending, At
  <1> QED
    BY <1>1, <1>2, <1>3, <1>4, <1>5, <1>6 DEF Watch

\* Whatever nodes join, leave and return while the handlers are busy, and
\* however many workers evict and scrape: in a Deployment no node that left is
\* monitored, or has an endpoint, but for a deletion yet to be handled.
THEOREM DepartedForgotten == Spec => []DepartedForgettable
  <1>1. Init => Forgettable
    BY DEF Init, Forgettable, EndpointsIfScraped, DepartedForgettable, DeletedLast, StoredInTime,
           At, Procs
  <1>2. TypeOK /\ Forgettable /\ [Next]_vars => Forgettable'
    <2> SUFFICES ASSUME TypeOK, Forgettable, [Next]_vars
                 PROVE  Forgettable'
      OBVIOUS
    <2>1. CASE Cluster
      <3>1. ASSUME NEW n \in Nodes, NodeJoins(n) \/ ReadinessChanges(n) \/ Resync(n)
            PROVE  Forgettable'
        BY <3>1, NotifyForgettable DEF NodeJoins, ReadinessChanges, Resync, Status, cluster
      <3>2. ASSUME NEW n \in Nodes, NodeLeaves(n)
            PROVE  Forgettable'
        BY <3>2, NotifyForgettable DEF NodeLeaves
      <3>3. ASSUME UNCHANGED <<selected, events, nodeVars, pc, on>>
            PROVE  Forgettable'
        BY <3>3, ForgettableFrame DEF nodeVars
      <3> QED
        BY <2>1, <3>1, <3>2, <3>3 DEF Cluster, StatsChange, PodStarts, PodStops, FiguresChange
    <2>2. CASE Watch
      BY <2>2, WatchForgettable
    <2>3. CASE Poll \/ UNCHANGED vars \/ \E q \in PodNames : PodDeleted(q)
      BY <2>3, ForgettableFrame DEF Poll, PodDeleted, vars, cluster, nodeVars
    <2>4. ASSUME NEW w \in Workers, NEW n \in Nodes, Invoke(w, n)
          PROVE  Forgettable'
      BY <2>4, ForgettableFrame, ConstantTypes DEF Invoke, Start, TypeOK, Procs, cluster, nodeVars
    <2>5. ASSUME NEW w \in Workers, Work(w)
          PROVE  Forgettable'
      <3>1. monitored' \subseteq monitored /\ UNCHANGED <<selected, events, endpoints>>
        BY <2>5 DEF Work, QuerySucceeds, QueryGarbled, QueryGivesUp, Evict, EvictSet,
                    EvictNodeGauges, EvictTracker, EvictPods, LoadTracker, CountMisses,
                    EvictStaleName, Unlock, SetNodeGauges, SetPodGauges, SetPollingRate,
                    cluster, nodeVars
      <3>2. UNCHANGED <<pc[Watcher], on[Watcher]>>
        BY <2>5, ConstantTypes
        DEF Work, QuerySucceeds, QueryGarbled, QueryGivesUp, Evict, EvictSet,
            EvictNodeGauges, EvictTracker, EvictPods, LoadTracker, CountMisses,
            EvictStaleName, Unlock, SetNodeGauges, SetPodGauges, SetPollingRate,
            Go, Start, Finish, TypeOK, Procs
      <3> QED
        BY <3>1, <3>2, ForgettableFrame
    <2> QED
      BY <2>1, <2>2, <2>3, <2>4, <2>5 DEF Next
  <1>3. Forgettable => DepartedForgettable
    BY DEF Forgettable
  <1> QED
    BY <1>1, <1>2, <1>3, TypeCorrect, PTL DEF Spec
=============================================================================
