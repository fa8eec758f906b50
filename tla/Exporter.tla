------------------------------ MODULE Exporter ------------------------------
(***************************************************************************)
(* The running exporter: the poll loop (getMetrics), the pool of workers   *)
(* that scrape nodes (setMetrics), the node informer's handlers            *)
(* (Node.Watch), the pod informer's delete handler (podWatch), and the     *)
(* state they share without a common lock: the set of monitored nodes, the *)
(* kubelet endpoints, the podTrackers and the exported series.             *)
(*                                                                         *)
(* One step is one operation on one shared object: a set or sync.Map       *)
(* operation, a GaugeVec operation, or a critical section of tracker.mu.   *)
(* podSeries stands for each of the 21 pod vecs and nodeSeries for each of *)
(* the three node vecs.                                                    *)
(***************************************************************************)
EXTENDS StaleTracking, Sequences

CONSTANTS
  Nodes,
  Workers,               \* the ants pool, MAX_NODE_CONCURRENCY of them
  Watcher,               \* the goroutine that runs the node informer's handlers
  TrackerIds,            \* addresses of podTrackers, more than are ever in use
  NoNode, NoTracker,     \* "no value" of the two sets above
  Deployment,            \* DEPLOY_TYPE is Deployment rather than DaemonSet
  CurrentNode,           \* CURRENT_NODE_NAME, for a DaemonSet
  ScrapeFromKubelet,     \* SCRAPE_FROM_KUBELET
  AdjustedPollingRate,   \* ADJUSTED_POLLING_RATE
  Disturbances,          \* what may go wrong in the cluster, see "The cluster"
  MaxPending             \* bound on undelivered node notifications

ASSUME ProcAssumption == Watcher \notin Workers
ASSUME SentinelAssumption == NoNode \notin Nodes /\ NoTracker \notin TrackerIds
ASSUME ConfigAssumption ==
  /\ Deployment \in BOOLEAN
  /\ ScrapeFromKubelet \in BOOLEAN
  /\ AdjustedPollingRate \in BOOLEAN
  /\ CurrentNode \in Nodes

Procs == Workers \cup {Watcher}

VARIABLES
  selected,      \* nodes the informer's label selector matches
  ready,         \* nodes with a KubeletReady condition
  stats,         \* what /stats/summary of each node does now
  reported,      \* reported[n]: the pods in the stats summary of node n
  measured,      \* pods whose figures are not all zero
  events,        \* node notifications on their way to the handlers
  monitored,     \* Node.Set
  endpoints,     \* the nodes KubeletEndpoint has an address for
  snapshot,      \* what is left of nodeSlice in the poll loop
  pc,            \* where each worker, and the watcher, is
  on,            \* the node it works on
  tracker,       \* the podTracker a worker has loaded
  current,       \* the names in the summary a worker holds
  todo,          \* the pods of it whose gauges are still to be set
  stale,         \* the names a worker has still to evict
  trackers,      \* the podTrackers themselves
  nodeTrackers,  \* the sync.Map from node to podTracker
  podSeries,     \* <<p, n>>: pod p has a series labelled with node n
  nodeSeries,    \* nodes with a series in the node gauges
  rateSeries,    \* nodes with an adjusted polling rate
  raced          \* history: nodes evicted under a scrape in progress

cluster  == <<selected, ready, stats, reported, measured>>
nodeVars == <<monitored, endpoints>>
workVars == <<tracker, current, todo, stale>>
treeVars == <<trackers, nodeTrackers>>
gauges   == <<podSeries, nodeSeries, rateSeries>>
vars == <<cluster, events, nodeVars, snapshot, pc, on, workVars, treeVars, gauges, raced>>

EvictSteps  == {"evictSet", "evictNodeGauges", "evictTracker", "evictPods"}
ScrapeSteps == {"query", "load", "count", "evictStale", "setNode", "setPod"}
WatchSteps  == {"storeEndpoint", "dropEndpoint"}

TypeOK ==
  /\ selected \subseteq Nodes
  /\ ready \subseteq Nodes
  /\ stats \in [Nodes -> {"ok", "garbled", "down", "hung"}]
  /\ reported \in [Nodes -> SUBSET Pods]
  /\ measured \subseteq Pods
  /\ events \in Seq([node : Nodes, status : {"ready", "notReady", "deleted"}])
  /\ monitored \subseteq Nodes
  /\ endpoints \subseteq Nodes
  /\ snapshot \subseteq Nodes
  /\ pc \in [Procs -> {"idle"} \cup EvictSteps \cup ScrapeSteps \cup WatchSteps]
  /\ on \in [Procs -> Nodes \cup {NoNode}]
  /\ tracker \in [Workers -> TrackerIds \cup {NoTracker}]
  /\ current \in [Workers -> SUBSET PodNames]
  /\ todo \in [Workers -> SUBSET Pods]
  /\ stale \in [Workers -> SUBSET PodNames]
  /\ trackers \in [TrackerIds -> LastSeen]
  /\ nodeTrackers \in [Nodes -> TrackerIds \cup {NoTracker}]
  /\ podSeries \subseteq Pods \X Nodes
  /\ nodeSeries \subseteq Nodes
  /\ rateSeries \subseteq Nodes
  /\ raced \subseteq Nodes
  /\ \A x \in Procs : pc[x] # "idle" => on[x] \in Nodes
  /\ pc[Watcher] \notin ScrapeSteps
  /\ \A w \in Workers :
       /\ pc[w] \notin WatchSteps
       /\ tracker[w] # NoTracker <=> pc[w] \in {"count", "evictStale"}

Init ==
  /\ selected = {}
  /\ ready = Nodes
  /\ stats = [n \in Nodes |-> "ok"]
  /\ reported = [n \in Nodes |-> {}]
  /\ measured = Pods
  /\ events = <<>>
  /\ monitored = IF Deployment THEN {} ELSE {CurrentNode}
  /\ endpoints = {}
  /\ snapshot = {}
  /\ pc = [x \in Procs |-> "idle"]
  /\ on = [x \in Procs |-> NoNode]
  /\ tracker = [w \in Workers |-> NoTracker]
  /\ current = [w \in Workers |-> {}]
  /\ todo = [w \in Workers |-> {}]
  /\ stale = [w \in Workers |-> {}]
  /\ trackers = [t \in TrackerIds |-> EmptyTracker]
  /\ nodeTrackers = [n \in Nodes |-> NoTracker]
  /\ podSeries = {}
  /\ nodeSeries = {}
  /\ rateSeries = {}
  /\ raced = {}

Go(x, step) ==
  /\ pc' = [pc EXCEPT ![x] = step]
  /\ UNCHANGED on

Start(x, n, step) ==
  /\ pc' = [pc EXCEPT ![x] = step]
  /\ on' = [on EXCEPT ![x] = n]

Finish(x) == Start(x, NoNode, "idle")

At(x, n, steps) == on[x] = n /\ pc[x] \in steps

\* A scrape of node n is queued, or in progress in a worker other than x.
ScrapePending(n, x) ==
  n \in snapshot \/ \E w \in Workers \ {x} : At(w, n, ScrapeSteps)

\* The names a worker other than x is about to export for node n.
Exposing(n, x) ==
  UNION {Names(todo[w]) : w \in {v \in Workers \ {x} :
                                  At(v, n, {"evictStale", "setNode", "setPod"})}}

\* podTrackers something refers to; the garbage collector empties the rest.
Held == {nodeTrackers[n] : n \in Nodes} \cup {tracker[w] : w \in Workers}
Swept(tks) == [t \in TrackerIds |-> IF t \in Held' THEN tks[t] ELSE EmptyTracker]

-----------------------------------------------------------------------------
(***************************************************************************)
(* The cluster.  Nodes join and leave the informer's selection, pods start *)
(* and stop on nodes; Disturbances names what else happens.                *)
(***************************************************************************)

\* The informer hands a change of a node it selects to the handlers' queue.
Notify(n, status) ==
  /\ Len(events) < MaxPending
  /\ events' = IF Deployment
               THEN Append(events, [node |-> n, status |-> status])
               ELSE events

Status(n) == IF n \in ready THEN "ready" ELSE "notReady"

NodeJoins(n) ==
  /\ n \notin selected
  /\ selected' = selected \cup {n}
  /\ Notify(n, Status(n))
  /\ UNCHANGED <<ready, stats, reported, measured, nodeVars, snapshot, pc, on,
                 workVars, treeVars, gauges, raced>>

\* Deleted, or relabelled so that the selector no longer matches it.
NodeLeaves(n) ==
  /\ "leave" \in Disturbances
  /\ n \in selected
  /\ selected' = selected \ {n}
  /\ Notify(n, "deleted")
  /\ UNCHANGED <<ready, stats, reported, measured, nodeVars, snapshot, pc, on,
                 workVars, treeVars, gauges, raced>>

ReadinessChanges(n) ==
  /\ "readiness" \in Disturbances
  /\ n \in selected
  /\ ready' = IF n \in ready THEN ready \ {n} ELSE ready \cup {n}
  /\ Notify(n, IF n \in ready THEN "notReady" ELSE "ready")
  /\ UNCHANGED <<selected, stats, reported, measured, nodeVars, snapshot, pc, on,
                 workVars, treeVars, gauges, raced>>

\* Mutant of Resync: an informer without a resync period.
NoResync(n) == n \in {} /\ UNCHANGED vars

\* The informer replays its store every sampleInterval.
Resync(n) ==
  /\ Deployment
  /\ n \in selected
  /\ Notify(n, Status(n))
  /\ UNCHANGED <<cluster, nodeVars, snapshot, pc, on, workVars, treeVars, gauges, raced>>

\* The names of the disturbances are the answers a node may change to.
StatsChange(n, s) ==
  /\ s \in Disturbances \cup {"ok"}
  /\ stats' = [stats EXCEPT ![n] = s]
  /\ UNCHANGED <<selected, ready, reported, measured, events, nodeVars, snapshot,
                 pc, on, workVars, treeVars, gauges, raced>>

PodStarts(p, n) ==
  /\ \A m \in Nodes : p \notin reported[m]
  /\ reported' = [reported EXCEPT ![n] = @ \cup {p}]
  /\ UNCHANGED <<selected, ready, stats, measured, events, nodeVars, snapshot,
                 pc, on, workVars, treeVars, gauges, raced>>

PodStops(p, n) ==
  /\ p \in reported[n]
  /\ reported' = [reported EXCEPT ![n] = @ \ {p}]
  /\ UNCHANGED <<selected, ready, stats, measured, events, nodeVars, snapshot,
                 pc, on, workVars, treeVars, gauges, raced>>

FiguresChange(p) ==
  /\ "figures" \in Disturbances
  /\ measured' = IF p \in measured THEN measured \ {p} ELSE measured \cup {p}
  /\ UNCHANGED <<selected, ready, stats, reported, events, nodeVars, snapshot,
                 pc, on, workVars, treeVars, gauges, raced>>

Cluster ==
  \/ \E n \in Nodes :
       \/ NodeJoins(n)
       \/ NodeLeaves(n)
       \/ ReadinessChanges(n)
       \/ Resync(n)
       \/ \E s \in {"ok", "garbled", "down", "hung"} : StatsChange(n, s)
       \/ \E p \in Pods : PodStarts(p, n) \/ PodStops(p, n)
  \/ \E p \in Pods : FiguresChange(p)

-----------------------------------------------------------------------------
(***************************************************************************)
(* Node.evict and pod.EvictPodByNode, by a worker whose query failed or by *)
(* the watcher: four steps with no lock held across them.                  *)
(***************************************************************************)

\* Mutants of the steps below, named for the bug.
PollingRateKept(x) ==
  /\ pc[x] = "evictNodeGauges"
  /\ nodeSeries' = nodeSeries \ {on[x]}
  /\ Go(x, "evictTracker")
  /\ UNCHANGED <<cluster, events, nodeVars, snapshot, workVars, treeVars, podSeries,
                 rateSeries, raced>>

WorkerDropsEndpoint(x) ==
  /\ pc[x] = "evictPods"
  /\ podSeries' = {s \in podSeries : s[2] # on[x]}
  /\ Go(x, "dropEndpoint")
  /\ UNCHANGED <<cluster, events, nodeVars, snapshot, workVars, treeVars,
                 nodeSeries, rateSeries, raced>>

LabelNegated(x) ==
  /\ pc[x] = "evictPods"
  /\ podSeries' = {s \in podSeries : s[2] = on[x]}
  /\ IF x = Watcher THEN Go(x, "dropEndpoint") ELSE Finish(x)
  /\ UNCHANGED <<cluster, events, nodeVars, snapshot, workVars, treeVars,
                 nodeSeries, rateSeries, raced>>

EvictSet(x) ==
  /\ pc[x] = "evictSet"
  /\ monitored' = monitored \ {on[x]}
  /\ raced' = IF ScrapePending(on[x], x) THEN raced \cup {on[x]} ELSE raced
  /\ Go(x, "evictNodeGauges")
  /\ UNCHANGED <<cluster, events, endpoints, snapshot, workVars, treeVars, gauges>>

EvictNodeGauges(x) ==
  /\ pc[x] = "evictNodeGauges"
  /\ nodeSeries' = nodeSeries \ {on[x]}
  /\ rateSeries' = IF AdjustedPollingRate THEN rateSeries \ {on[x]} ELSE rateSeries
  /\ Go(x, "evictTracker")
  /\ UNCHANGED <<cluster, events, nodeVars, snapshot, workVars, treeVars, podSeries, raced>>

\* nodeTrackers.Delete: a worker that loaded the tracker keeps using it.
EvictTracker(x) ==
  /\ pc[x] = "evictTracker"
  /\ nodeTrackers' = [nodeTrackers EXCEPT ![on[x]] = NoTracker]
  /\ raced' = IF \E w \in Workers \ {x} : At(w, on[x], ScrapeSteps \ {"query", "load"})
              THEN raced \cup {on[x]} ELSE raced
  /\ Go(x, "evictPods")
  /\ UNCHANGED <<cluster, events, nodeVars, snapshot, workVars, gauges>>
  /\ trackers' = Swept(trackers)

EvictPods(x) ==
  /\ pc[x] = "evictPods"
  /\ podSeries' = {s \in podSeries : s[2] # on[x]}
  /\ IF x = Watcher THEN Go(x, "dropEndpoint") ELSE Finish(x)
  /\ UNCHANGED <<cluster, events, nodeVars, snapshot, workVars, treeVars,
                 nodeSeries, rateSeries, raced>>

Evict(x) == EvictSet(x) \/ EvictNodeGauges(x) \/ EvictTracker(x) \/ EvictPods(x)

-----------------------------------------------------------------------------
(***************************************************************************)
(* Node.Watch: the handlers run one at a time, in the order of the events. *)
(***************************************************************************)

TakeEvent(status) ==
  /\ pc[Watcher] = "idle"
  /\ events # <<>>
  /\ Head(events).status = status
  /\ events' = Tail(events)

\* AddFunc and UpdateFunc of a node whose kubelet is ready.
NodeReady ==
  /\ TakeEvent("ready")
  /\ monitored' = monitored \cup {Head(events).node}
  /\ IF ScrapeFromKubelet
     THEN Start(Watcher, Head(events).node, "storeEndpoint")
     ELSE UNCHANGED <<pc, on>>
  /\ UNCHANGED <<cluster, endpoints, snapshot, workVars, treeVars, gauges, raced>>

StoreEndpoint ==
  /\ pc[Watcher] = "storeEndpoint"
  /\ endpoints' = endpoints \cup {on[Watcher]}
  /\ Finish(Watcher)
  /\ UNCHANGED <<cluster, events, monitored, snapshot, workVars, treeVars, gauges, raced>>

\* AddFunc and UpdateFunc of a node that is not ready: it stays as it is.
NodeNotReady ==
  /\ TakeEvent("notReady")
  /\ UNCHANGED <<cluster, nodeVars, snapshot, pc, on, workVars, treeVars, gauges, raced>>

\* Mutant of NodeDeleted: a DeletedFinalStateUnknown is not unwrapped.
TombstoneIgnored ==
  /\ TakeEvent("deleted")
  /\ UNCHANGED <<cluster, nodeVars, snapshot, pc, on, workVars, treeVars, gauges, raced>>

\* DeleteFunc, of a node or of its tombstone: evict, then forget the endpoint.
NodeDeleted ==
  /\ TakeEvent("deleted")
  /\ Start(Watcher, Head(events).node, "evictSet")
  /\ UNCHANGED <<cluster, nodeVars, snapshot, workVars, treeVars, gauges, raced>>

DropEndpoint ==
  /\ pc[Watcher] = "dropEndpoint"
  /\ endpoints' = IF ScrapeFromKubelet THEN endpoints \ {on[Watcher]} ELSE endpoints
  /\ Finish(Watcher)
  /\ UNCHANGED <<cluster, events, monitored, snapshot, workVars, treeVars, gauges, raced>>

Watch == NodeReady \/ StoreEndpoint \/ NodeNotReady \/ NodeDeleted \/ Evict(Watcher) \/ DropEndpoint

\* DeleteFunc of podWatch: the object may be of an earlier pod of that name.
PodDeleted(q) ==
  /\ "podDeleted" \in Disturbances
  /\ podSeries' = {s \in podSeries : NameOf[s[1]] # q}
  /\ UNCHANGED <<cluster, events, nodeVars, snapshot, pc, on, workVars, treeVars,
                 nodeSeries, rateSeries, raced>>

-----------------------------------------------------------------------------
(***************************************************************************)
(* getMetrics: one round of the poll loop takes a snapshot of Node.Set and *)
(* hands its nodes to the pool one by one, waiting for a worker for each.  *)
(***************************************************************************)

Poll ==
  /\ snapshot = {}
  /\ snapshot' = monitored
  /\ UNCHANGED <<cluster, events, nodeVars, pc, on, workVars, treeVars, gauges, raced>>

\* Mutant of Invoke: a pool with ants.WithNonblocking turns the node away.
InvokeNonblocking(w, n) ==
  /\ n \in snapshot
  /\ snapshot' = snapshot \ {n}
  /\ IF pc[w] = "idle" THEN Start(w, n, "query") ELSE UNCHANGED <<pc, on>>
  /\ UNCHANGED <<cluster, events, nodeVars, workVars, treeVars, gauges, raced>>

Invoke(w, n) ==
  /\ n \in snapshot
  /\ pc[w] = "idle"
  /\ snapshot' = snapshot \ {n}
  /\ Start(w, n, "query")
  /\ UNCHANGED <<cluster, events, nodeVars, workVars, treeVars, gauges, raced>>

-----------------------------------------------------------------------------
(***************************************************************************)
(* setMetrics in worker w.  Node.Query retries until an attempt answers or *)
(* sampleInterval has passed; "hung" is a request that does not return,    *)
(* for the requests have no deadline.                                      *)
(***************************************************************************)

Endpoint(n) == Deployment /\ ScrapeFromKubelet => n \in endpoints

\* Mutants of the steps below, named for the bug.
FiguresSkipped(w) ==
  /\ pc[w] = "query"
  /\ Endpoint(on[w])
  /\ stats[on[w]] = "ok"
  /\ current' = [current EXCEPT ![w] = Names(reported[on[w]])]
  /\ todo' = [todo EXCEPT ![w] = reported[on[w]] \ measured]
  /\ Go(w, "load")
  /\ UNCHANGED <<cluster, events, nodeVars, snapshot, tracker, stale, treeVars, gauges, raced>>

EndpointForgotten(w) ==
  /\ pc[w] = "query"
  /\ Endpoint(on[w]) => stats[on[w]] = "down"
  /\ endpoints' = endpoints \ {on[w]}
  /\ Go(w, "evictSet")
  /\ UNCHANGED <<cluster, events, monitored, snapshot, workVars, treeVars, gauges, raced>>

TrackerReplaced(w, t) ==
  /\ pc[w] = "load"
  /\ t \notin Held
  /\ nodeTrackers' = [nodeTrackers EXCEPT ![on[w]] = t]
  /\ tracker' = [tracker EXCEPT ![w] = t]
  /\ Go(w, "count")
  /\ UNCHANGED <<cluster, events, nodeVars, snapshot, current, todo, stale, gauges, raced>>
  /\ trackers' = Swept(trackers)

LockedSinceLoad(t, w) == \A v \in Workers \ {w} : tracker[v] # t

\* The summary, reduced to the names in it and the pods with figures.
QuerySucceeds(w) ==
  /\ pc[w] = "query"
  /\ Endpoint(on[w])
  /\ stats[on[w]] = "ok"
  /\ current' = [current EXCEPT ![w] = Names(reported[on[w]])]
  /\ todo' = [todo EXCEPT ![w] = reported[on[w]] \cap measured]
  /\ Go(w, "load")
  /\ UNCHANGED <<cluster, events, nodeVars, snapshot, tracker, stale, treeVars, gauges, raced>>

\* json.Unmarshal fails: nothing is counted, set or evicted.
QueryGarbled(w) ==
  /\ pc[w] = "query"
  /\ Endpoint(on[w])
  /\ stats[on[w]] = "garbled"
  /\ Finish(w)
  /\ UNCHANGED <<cluster, events, nodeVars, snapshot, workVars, treeVars, gauges, raced>>

\* backoff.Retry returns an error: n.evict(node).
QueryGivesUp(w) ==
  /\ pc[w] = "query"
  /\ Endpoint(on[w]) => stats[on[w]] = "down"
  /\ Go(w, "evictSet")
  /\ UNCHANGED <<cluster, events, nodeVars, snapshot, workVars, treeVars, gauges, raced>>

\* nodeTrackers.LoadOrStore: t is the tracker of the node, or a new one.
LoadTracker(w, t) ==
  /\ pc[w] = "load"
  /\ IF nodeTrackers[on[w]] = NoTracker
     THEN t \notin Held
     ELSE t = nodeTrackers[on[w]]
  /\ nodeTrackers' = [nodeTrackers EXCEPT ![on[w]] = t]
  /\ tracker' = [tracker EXCEPT ![w] = t]
  /\ Go(w, "count")
  /\ UNCHANGED <<cluster, events, nodeVars, snapshot, current, todo, stale, trackers,
                 gauges, raced>>

Unlocked(t, w) ==
  \A v \in Workers \ {w} : ~(pc[v] = "evictStale" /\ tracker[v] = t)

\* tracker.mu.Lock and the counting of EvictStalePods.  The mutex is held
\* until the stale names are evicted, so the counts are written at once.
CountMisses(w) ==
  LET t == tracker[w]
      gone == StaleNames(trackers[t], current[w])
  IN /\ pc[w] = "count"
     /\ Unlocked(t, w)
     /\ trackers' = [trackers EXCEPT ![t] = AfterScrape(trackers[t], current[w])]
     /\ stale' = [stale EXCEPT ![w] = gone]
     /\ current' = [current EXCEPT ![w] = {}]
     /\ raced' = IF gone \cap Exposing(on[w], w) # {} THEN raced \cup {on[w]} ELSE raced
     /\ Go(w, "evictStale")
     /\ UNCHANGED <<cluster, events, nodeVars, snapshot, tracker, todo, nodeTrackers, gauges>>

\* evictPodByName, by the label pod_name alone.
EvictStaleName(w, q) ==
  /\ pc[w] = "evictStale"
  /\ q \in stale[w]
  /\ podSeries' = {s \in podSeries : NameOf[s[1]] # q}
  /\ stale' = [stale EXCEPT ![w] = @ \ {q}]
  /\ UNCHANGED <<cluster, events, nodeVars, snapshot, pc, on, tracker, current, todo,
                 treeVars, nodeSeries, rateSeries, raced>>

\* tracker.mu.Unlock
Unlock(w) ==
  /\ pc[w] = "evictStale"
  /\ stale[w] = {}
  /\ tracker' = [tracker EXCEPT ![w] = NoTracker]
  /\ Go(w, "setNode")
  /\ UNCHANGED <<cluster, events, nodeVars, snapshot, current, todo, stale, nodeTrackers,
                 gauges, raced>>
  /\ trackers' = Swept(trackers)

\* Node.SetMetrics for the next pod of the summary that has figures.
SetNodeGauges(w) ==
  /\ pc[w] = "setNode"
  /\ todo[w] # {}
  /\ nodeSeries' = nodeSeries \cup {on[w]}
  /\ Go(w, "setPod")
  /\ UNCHANGED <<cluster, events, nodeVars, snapshot, workVars, treeVars, podSeries,
                 rateSeries, raced>>

\* Pod.SetMetrics for that pod.
SetPodGauges(w, p) ==
  /\ pc[w] = "setPod"
  /\ p \in todo[w]
  /\ podSeries' = podSeries \cup {<<p, on[w]>>}
  /\ todo' = [todo EXCEPT ![w] = @ \ {p}]
  /\ Go(w, "setNode")
  /\ UNCHANGED <<cluster, events, nodeVars, snapshot, tracker, current, stale, treeVars,
                 nodeSeries, rateSeries, raced>>

\* The adjusted polling rate is set last.
SetPollingRate(w) ==
  /\ pc[w] = "setNode"
  /\ todo[w] = {}
  /\ rateSeries' = IF AdjustedPollingRate THEN rateSeries \cup {on[w]} ELSE rateSeries
  /\ Finish(w)
  /\ UNCHANGED <<cluster, events, nodeVars, snapshot, workVars, treeVars, podSeries,
                 nodeSeries, raced>>

Work(w) ==
  \/ QuerySucceeds(w)
  \/ QueryGarbled(w)
  \/ QueryGivesUp(w)
  \/ Evict(w)
  \/ \E t \in TrackerIds : LoadTracker(w, t)
  \/ CountMisses(w)
  \/ \E q \in PodNames : EvictStaleName(w, q)
  \/ Unlock(w)
  \/ SetNodeGauges(w)
  \/ \E p \in Pods : SetPodGauges(w, p)
  \/ SetPollingRate(w)

-----------------------------------------------------------------------------
Next ==
  \/ Cluster
  \/ Watch
  \/ \E q \in PodNames : PodDeleted(q)
  \/ Poll
  \/ \E w \in Workers, n \in Nodes : Invoke(w, n)
  \/ \E w \in Workers : Work(w)

Spec == Init /\ [][Next]_vars

(***************************************************************************)
(* Goroutines that can run do run.  Resync competes with other             *)
(* notifications for the bounded queue, CountMisses with other workers for *)
(* tracker.mu, whose starvation mode lets every waiter in.                 *)
(***************************************************************************)
Fairness ==
  /\ WF_vars(Watch)
  /\ WF_vars(Poll)
  /\ WF_vars(\E w \in Workers, n \in Nodes : Invoke(w, n))
  /\ \A w \in Workers : WF_vars(Work(w)) /\ SF_vars(CountMisses(w))
  /\ \A n \in Nodes : SF_vars(Resync(n))

FairSpec == Spec /\ Fairness

-----------------------------------------------------------------------------
Evicting(n, steps) == \E x \in Procs : At(x, n, steps)

\* Nothing is exported for a node that is not monitored, except while its
\* eviction is under way (node/metrics.go, evict): evicting a node leaves no
\* series behind, unless a scrape of it was in progress.
SeriesMonitored ==
  \A n \in Nodes \ (raced \cup monitored) :
    /\ n \in nodeSeries \cup rateSeries => Evicting(n, {"evictNodeGauges"})
    /\ \A p \in Pods :
         <<p, n>> \in podSeries =>
           Evicting(n, {"evictNodeGauges", "evictTracker", "evictPods"})

Tracked(n, q) ==
  /\ nodeTrackers[n] # NoTracker
  /\ trackers[nodeTrackers[n]][q] # NotTracked

\* Every pod series is counted by its node's tracker, so that it goes when
\* the pod does, or is about to be evicted; again unless scrapes of the node
\* overlapped with each other or with an eviction.
TrackedUnlessRaced ==
  \A s \in podSeries :
    LET q == NameOf[s[1]]
        n == s[2]
    IN \/ n \in raced
       \/ Tracked(n, q)
       \/ Evicting(n, {"evictPods"})
       \/ \E w \in Workers : At(w, n, {"evictStale"}) /\ q \in stale[w]

\* The tracker and the pod series of a node as AtomicScrapes has them: a
\* scrape takes effect when its counts are written, an eviction when it
\* deletes the tracker.  What it has still to set, or to delete, is anticipated.
NodeTracker(n) == IF nodeTrackers[n] = NoTracker THEN EmptyTracker ELSE trackers[nodeTrackers[n]]

Setting(n) == UNION {todo[w] : w \in {v \in Workers : At(v, n, {"evictStale", "setNode", "setPod"})}}
Deleting(n) == UNION {stale[w] : w \in {v \in Workers : At(v, n, {"evictStale"})}}

Exported(n) ==
  Setting(n) \cup
    IF Evicting(n, {"evictPods"}) THEN {}
    ELSE {p \in Pods : <<p, n>> \in podSeries /\ NameOf[p] \notin Deleting(n)}

Atomic(n) == INSTANCE AtomicScrapes WITH lastSeen <- NodeTracker(n), exported <- Exported(n)

\* Unless its scrapes and evictions overlapped in one of the ways that make it
\* raced, a node's tracker and series change as if each of them were atomic.
ScrapesAtomic ==
  [][\A n \in Nodes :
       n \notin raced' => [Atomic(n)!Next]_<<NodeTracker(n), Exported(n)>>]_vars

\* A node the workers are to scrape from its kubelet has an endpoint, except
\* between the two steps of the informer's handler.
MonitoredHasEndpoint ==
  Deployment /\ ScrapeFromKubelet =>
    \A n \in monitored \ endpoints : At(Watcher, n, {"storeEndpoint"})

\* In a Deployment a node is monitored, or has an endpoint, only while it is in
\* the informer's selection or DeleteFunc has still to deal with its deletion,
\* however its notifications, readiness changes and resyncs pile up: no node
\* stays in Node.Set or KubeletEndpoint after it left.
DeletionPending(n) == [node |-> n, status |-> "deleted"] \in {events[i] : i \in DOMAIN events}

DepartedForgettable ==
  Deployment =>
    /\ \A n \in monitored \ selected : DeletionPending(n) \/ At(Watcher, n, {"evictSet"})
    /\ \A n \in endpoints \ selected :
         DeletionPending(n) \/ At(Watcher, n, EvictSteps \cup {"dropEndpoint"})

-----------------------------------------------------------------------------
Healthy(n) ==
  /\ n \in selected \cap ready
  /\ stats[n] = "ok"
NoHang == \A n \in Nodes : stats[n] # "hung"

\* A node that stays ready and answers is monitored for good, however often
\* its scrapes failed before (Node.Query, comment at k8s.go:89-90).
ReadyNodeMonitored ==
  \A n \in Nodes :
    <>[](Healthy(n) /\ NoHang) => <>[](n \in monitored)

\* A pod that runs on such a node and has figures is exported again and
\* again, provided no request of any node hangs.
RunningPodExported ==
  \A n \in Nodes, p \in Pods :
    <>[](Healthy(n) /\ NoHang /\ p \in reported[n] \cap measured)
      => []<>(<<p, n>> \in podSeries)

\* A pod that stopped on such a node disappears for good.
StoppedPodEvicted ==
  \A n \in Nodes, p \in Pods :
    <>[](Healthy(n) /\ NoHang /\ p \notin reported[n] /\ n \notin raced)
      => <>[](<<p, n>> \notin podSeries)

\* A node that left the informer's selection leaves no series behind.
NoSeries(n) ==
  /\ n \notin nodeSeries \cup rateSeries
  /\ \A p \in Pods : <<p, n>> \notin podSeries
DepartedNodeEvicted ==
  \A n \in Nodes :
    <>[](n \notin selected /\ n \notin raced /\ NoHang) => <>[]NoSeries(n)

\* The same without the proviso: "Scale Down test to make sure pods and nodes
\* are evicted" (tests/e2e/deployment_test.go:542).
DepartedNodeForgotten ==
  \A n \in Nodes : <>[](n \notin selected /\ NoHang) => <>[]NoSeries(n)

\* Evicting a stale pod on one node leaves the other nodes' series alone:
\* "Evicting on one node must not affect another node's pod"
\* (pkg/pod/metrics_test.go:366-367).
EvictionIsLocal ==
  [][\A w \in Workers, q \in PodNames :
       EvictStaleName(w, q) =>
         \A s \in podSeries \ podSeries' : s[2] = on[w]]_vars
=============================================================================
