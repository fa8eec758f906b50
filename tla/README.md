# A model of the ephemeral-storage exporter

TLA+ modules, TLC configurations and TLAPS proofs about the Go program in
`cmd/app` and `pkg/`: a Prometheus exporter that polls the `/stats/summary`
endpoint of every node, publishes a set of gauges for each pod it finds there,
and has to take the gauges away again when the pod or the node goes.

Most of the program is a straight line from a JSON document to
`GaugeVec.With(labels).Set(v)`. What is hard is what happens around that line:
pooled workers that scrape nodes concurrently, informer callbacks that add and
remove nodes meanwhile, miss counts that decide when a pod is gone, and series
that stay exported for ever once nobody is left who will delete them.

## The system

| Component | Source | State | Operations |
|---|---|---|---|
| Scrape loop and worker pool | `cmd/app/main.go` | `nodeSlice` (a snapshot of the node set), an ants pool of `MAX_NODE_CONCURRENCY` goroutines | `getMetrics`, `setMetrics`, `setMetricsFromSummary` |
| Node query | `pkg/node/k8s.go` | none | `Query`: exponential back-off up to one sample interval, via the API server's proxy or the kubelet itself; evicts the node when it gives up |
| Node watch | `pkg/node/{factory,k8s,metrics}.go` | `Set` of monitored nodes, `KubeletEndpoint` (`sync.Map`) | informer handlers of `Watch` (Deployment only), `evict`, resync every sample interval |
| Stale pod tracking | `pkg/pod/metrics.go` | `nodeTrackers` (`sync.Map` of node to `podTracker`), each with a mutex and `lastSeen` | `EvictStalePods`, `EvictPodByNode` |
| Pod lookup and pod watch | `pkg/pod/k8s.go` | `lookup` and `lookupMutex`, `WaitGroup` | `initGetPodsData`, `getPodData`, `podWatch`, `getContainerData` |
| Prometheus series | `pkg/{node,pod}/metrics.go` | 21 pod vecs, 3 node vecs, the adjusted polling rate | `SetMetrics`, `evictPodByName`, `DeletePartialMatch` by node |
| Metric values | `pkg/pod/metrics.go` | none | percentages, NaN and cap rules |
| Start-up | `cmd/app/main.go`, `pkg/dev/util.go`, the two `factory.go` | environment, clients, registered vecs, `WaitGroup` | logger, clients, constructors, registration, wait with a time-out |
| HTTP server | `cmd/app/main.go` | none | `/metrics`, `/health` |
| Profiling | `pkg/dev/util.go` | none | Go's own handlers on another port |

How they interact. `main` sets up the logger and the clients, runs the
constructors of the node and the pod collector, starts the node watch only
then, and ends up in the HTTP server, with `getMetrics` beside it. Any of these
may end the process: a bad `LOG_LEVEL`, `KUBECONFIG`, `DEPLOY_TYPE` or
`METRICS_PORT`, a DaemonSet without `CURRENT_NODE_NAME`, a pod list that fails. Each round of `getMetrics` copies `Node.Set` and hands its nodes
one by one to the pool; `Invoke` blocks while all workers are busy. A worker
queries its node; on failure it *evicts* the node, on success it updates the
node's tracker (deleting the series of pods that have been missing for
`SCRAPE_MISS_TOLERANCE` summaries) and then sets the gauges pod by pod. The
node informer's handlers run in a goroutine of their own and touch the same
`Set`, endpoints, trackers and series; so does the pod informer's delete
handler. There is no lock across any two of these: only single operations
(`Set`, `sync.Map`, `GaugeVec`) and the critical section of `tracker.mu` are
atomic.

What makes each component correct:

* tracking: a pod goes after exactly the tolerated number of consecutive
  misses, never earlier, never later, and an exported pod is always tracked;
* scrape loop: every monitored node is scraped again and again, whatever other
  nodes do; a failure is not a miss;
* node watch: a node that is ready and answers gets back into the set, a node
  that left stays out of it, and its endpoint is known when it is scraped;
* series: exported only for nodes not evicted since and for pods someone will
  evict, on each of the 25 vecs, and kept as long as the node reports the pod;
* values: the percentages agree with the bytes they are shown beside;
* start-up: nothing is used before it exists, and a pod list that hangs delays
  scraping but does not stop it;
* lookup: a pod's limits are those of the pod, of its current incarnation.

The list of hazards, each at its line, is in `PROJECT.json`.

## The modules

| Module | What it is |
|---|---|
| `StaleTracking` | The arithmetic of `EvictStalePods` as pure operators on one tracker. |
| `MissWindow` | What the doc comment of `EvictStalePods` promises for a node, without miss counts: an abstract specification. |
| `PodTracker` | One node's tracker and series under whole scrapes; implements `MissWindow`. |
| `PodTrackerProofs` | Theorems about `PodTracker`. |
| `Exporter` | The concurrent system: cluster, informer, watcher, poll loop, workers, trackers, series. Uses the same `StaleTracking`. |
| `ExporterProofs` | Theorems about `Exporter`. |
| `AtomicScrapes` | What one node's tracker and series would be if every scrape and eviction were one step: an abstract specification that `Exporter`, each pod vec of `Process`, and `PodLookup` implement. |
| `AtomicScrapesProofs` | The theorem that `Exporter` implements it; that the other two do is in `ProcessVecsProofs` and `PodLookupProofs`. |
| `Gauges` | The 25 vecs as pure operators: labels, the series and values a pod of a summary sets, what an eviction deletes. Uses the same `StaleTracking`. |
| `Process` | The process from `main` on: environment, start-up, goroutines, whole scrapes and handlers on all vecs of `Gauges`. |
| `GaugesProofs` | Lemmas about the operators of `Gauges`: what `SetMetrics` sets and evictions delete, in which range the percentages are, why what is set together agrees. |
| `ProcessProofs` | Theorems about `Process`: start-up, and where the series are. |
| `ProcessVecsProofs` | Theorems about what the vecs of `Process` show: types, values, and each vec's scrapes. |
| `PodLookup` | The pod list, the pod watch, `lookup`, and the families `SetMetrics` derives from it. Uses the same `StaleTracking`. |
| `PodLookupProofs` | Theorems about `PodLookup`. |
| `MCPodTracker`, `MCExporter`, `MCPodLookup`, `MCProcess` | Constants for TLC. |

### PodTracker and the code

`lastSeen` is `tracker.lastSeen`, with `NotTracked` for a missing key;
`exported` are the pods with series on the node. `Scrape(present, measured)`
is `setMetricsFromSummary`: `currentPods` holds *every* pod of the summary,
gauges are set only for those whose figures are not all zero. `EvictNode` is
`EvictPodByNode`. `scrapes` and `lastIn` are history variables the code does
not have; they say what the counts mean and are the refinement mapping's other
half. The code keys by `metadata.name`, so `Pods` and `PodNames` are different
sets related by `NameOf`: pods of the same name in two namespaces collide.

### Exporter and the code

One step is one operation on one shared object; local computation between two
of them is part of the earlier or the later step.

| Model | Code |
|---|---|
| `monitored`, `endpoints` | `Node.Set`, keys of `KubeletEndpoint` |
| `nodeTrackers`, `trackers`, `tracker[w]` | the `sync.Map`, the `podTracker` objects by address, the pointer a worker holds. A tracker deleted from the map while a worker holds it lives on, so addresses are needed. `Held`/`Swept` is garbage collection: an unreferenced address is free to be allocated again. |
| `podSeries`, `nodeSeries`, `rateSeries` | which label sets exist. Every pod vec is set and deleted under the same condition, vec by vec, and no step reads a series, so one vec stands for each of the 21. Likewise for the two node vecs and the adjusted polling rate, which is set elsewhere and is a variable of its own. |
| `events` | notifications between the informer's store and the handlers: delivered in order, one handler at a time |
| `snapshot`, `Poll`, `Invoke` | `nodeSlice`, the copy, the blocking hand-over. The ticker is not modelled: a round may follow at once. |
| `QuerySucceeds`, `QueryGarbled`, `QueryGivesUp` | `Query` and the decoding. Retries stutter. A round of retries may give up whenever an attempt would fail; the code gives up only after `sampleInterval`, so this allows more behaviours. With `"hung"` no action is enabled: the requests carry no deadline. |
| `LoadTracker` | `nodeTrackers.LoadOrStore` |
| `CountMisses`, `EvictStaleName`, `Unlock` | the critical section of `EvictStalePods`. Nobody else reads the counts while the mutex is held, so they are all written on entry; the deletions of series, which others do see, remain steps. |
| `SetNodeGauges`, `SetPodGauges`, `SetPollingRate` | the loop over `data.Pods`, in any order |
| `EvictSet` ... `EvictPods` | `Node.evict`, shared by a worker that gives up and the watcher, four separate steps |
| `NodeReady`, `StoreEndpoint`, `NodeNotReady`, `NodeDeleted`, `DropEndpoint` | the informer's handlers. Add and Update do the same. A tombstone is a `"deleted"` notification like any other. |
| `PodDeleted` | `podWatch`'s delete handler. Its argument is unconstrained: the notification may be late, and the pod it names may run again. |
| `raced` | history: nodes for which the protection the code has is not enough, see below |

The first list of the informer is a sequence of `NodeJoins`. client-go may
coalesce a deletion and a re-creation of a node into one update; that is the
case where the queue sees neither, and nothing the model distinguishes depends
on it. A DaemonSet starts no watcher, so `Notify` drops its notifications and
`Set` starts as the one node.

**`raced`.** Nothing in the code stops a worker from setting gauges for a node
that is being evicted. The safety properties therefore name the nodes that
happened to: a node is in `raced` once (1) it was removed from the set while a
scrape of it by another goroutine was queued or in progress, (2) its tracker
was deleted while another worker was past loading it, or (3) a worker declared
a name stale that another worker on the same node was just about to export.
Outside these three overlaps, the properties have to hold; inside them, they
do not, and `exporter_departed` shows it. `raced` occurs in no guard.
A node stays in `raced` for good, so no property here covers what a race does
to it later; the hazards that are nothing but such a race have no property but
that violated one. `stranded` in `PodLookup` is the same for the names of pods.

### Exporter and AtomicScrapes

`Atomic(n)` in `Exporter` maps its state to that of `AtomicScrapes` for node n.
`lastSeen` is the tracker the map has for n, empty if there is none: a scrape
takes effect when its counts are written, an eviction when it deletes the
tracker. `exported` anticipates what they have yet to do to the series: pods in
some worker's `todo` count as exported already, names in its `stale` as gone,
and while n is being evicted nothing else is. `ScrapesAtomic` says that under this
mapping each step is a scrape, an eviction or a stutter of every node that is
not `raced`, or a `Lose`: series of one name go for a reason outside the node's
own scrapes (another node's tracker, a pod-delete notification, or an eviction
that runs into the next scrape), and only a later summary can bring them back.
So `raced` is exactly where the missing lock shows: outside it the unlocked
steps add up to what one would have with a lock around each scrape and each
eviction.

### Gauges, Process and the code

A vec is a pair such as `<<"Rootfs", "UsedBytes">>`; a series is a record of
its vec, labels and value. Label values are model values: a pod stands for its
namespace too, a mount path for a string. `NaN` is a constant outside `Int`.
Figures are natural numbers and percentages whole percents, rounded down, which
is enough for zero, cap and order; the 1.024 of `SetMetrics` is kept as
1024/1000.

| Model | Code |
|---|---|
| `LabelNames`, `PodVecs`, `NodeVecs`, `RegisteredWithNode` | `createMetrics` of both packages |
| `VolumeSeries`, `LimitSeries`, `FsSeries`, `PodSeries`, `SetMetrics` | `Collector.SetMetrics`, family by family, under the flags that enable it. Each vec is set at most once for the same labels, so the set of series has no order. |
| `NodeSeries` | `Node.SetMetrics`. It is called for every pod of a summary, so the node keeps the figures of one of them: the last. |
| `EvictPodsByName`, `EvictNode` | `evictPodByName`; `Node.evict` with `EvictPodByNode`. The two lists of 21 vecs in the code are `EvictedByName` and `EvictedByNode`. |
| `StartupOrder`, `SetLogger` ... `ListenAndServe` | the calls of `main` and `startCollectors`, in order; `Proceed` says whether the process survives |
| `vecs`, `clients`, `Dereference` | the package variables that are nil before they are set. A step that uses one of them too early ends in `"crashed"`; `"exited"` is `os.Exit` or a deliberate panic. |
| `PodsListed`, `ListFails`, `WaitEnds`, `WaitTimesOut` | `initGetPodsData`, the `WaitGroup`, and the two cases of the `select` in `getMetrics` |
| `tasks`, `Poll`, `ScrapeEnds` | `nodeSlice` and the pool, reduced to the number of scrapes of each node that are not finished. A round copies `Node.Set` once the last node of the round before has been handed over, so when at most `MaxNodeQueryConcurrency` are unfinished. Nobody looks at the set again: a node that was evicted since is scraped all the same. |
| `Scrape`, `QueryFails`, `QueryGarbled` | the ways `setMetrics` ends, each in one step, with the summary of that step. An answer that does not decode changes nothing. A query that never returns is one for which none of them happens. |
| `late` | history: nodes scraped while not in `Node.Set`, since they were last evicted. It occurs in no guard. |
| `NodeReady`, `NodeDeleted`, `PodUpdated`, `PodDeleted` | whole handlers, each in one step. `Exporter` and `PodLookup` take them apart; `Process` has the vecs, flags and values they leave out. |

`env` is chosen once, in `Init`: the deployment type, the node name, the
enabled families, and which setting is unusable. `Reports` and `Specs` are what
summaries and pod specs may say: `ReportsAssumption` has every figure a natural
number, as the kubelet's are (`IsEntry`), and `SpecsAssumption` every limit,
with one size limit per volume name, as the volumes of a pod have distinct
names (`IsContainerData`). The proofs use no more of them. `Capped` are the
percentages that the code keeps within 100; a usage percentage of a file system
is as large as the summary makes it.

`VecsAtomic` looks at each of the 21 pod vecs alone, through its own instance
of `AtomicScrapes`: the pods with a series on that vec and node. A scrape of
another node evicts all its stale names in one step of `Process`, hence
`LoseNames` beside `Next`.

### PodLookup and the code

| Model | Code |
|---|---|
| `Specs`, `ContainerData` | a pod spec reduced to what `getContainerData` looks at, and what it makes of it under the flags |
| `lookup` | `*cr.lookup`, keyed by name |
| `boot`, `listed`, `ListPods`, `LoadPod`, `StartWatch` | `initGetPodsData` (all pages of its list in one step), `WaitGroup`, the start of `podWatch`'s informer with a list of its own. Scraping does not wait for any of it: `getMetrics` goes on after a time-out. |
| `seen`, `Observe`, `Resync`, `events` | the informer's store and notifications. A new pod causes none, as there is no `AddFunc`. With `WatchGaps` the informer may skip what happened while it was disconnected: a deletion and a re-creation become one update, a deletion becomes a tombstone. |
| `UpdateFunc`, `DeleteFunc`, `EvictPodByName` | the handlers; a deletion is two steps, for `lookupMutex` is released before the series are evicted |
| `Summarise`, `ReadLookup`, `SetGauges` | a scrape: the summary and `EvictStalePods`, then for each pod the read under `RLock` and, later, the gauges. The three families are three vecs, each set at most once per scrape of a pod and evicted once per deletion; a property about one series is about one vec, so they are set and evicted together. |
| `series` | label sets of the three families: `volume`, `volumeLimit`, and `limit` with its `source` |
| `missed`, `stranded` | history: names whose pod was replaced unseen between the two lists; names of which series may have been left by a deletion, because it fell between a `ReadLookup` and its `SetGauges` or because the watch never saw it |

A crash needs no action: `Init` allows any pods to be there already, and a
restarted exporter has nothing left of what it knew. The kubelet's summary is
taken to show the pods whose phase is Running; that it lags is covered by the
time a summary may lie in hand. The families of `SetMetrics` that do not use
`lookup` are in `Exporter` and `Process`.

Its `ScrapesAtomic` maps the state to `AtomicScrapes` as `Exporter` does: the
pods of the summary in hand count as exported from the moment their names are
counted. A pod that `SetMetrics` finds without an entry is then lost, and so
are the pods of a name that `DeleteFunc` evicts, unless their gauges are still
to be set. Nothing is said of `raced` here, as one worker scrapes the node.

## What is checked

| Run | Question | Outcome |
|---|---|---|
| `pod_tracker` | Do counts mean consecutive misses, is each exported pod tracked, does the tracker implement `MissWindow`? | holds |
| `exporter_race` | One node, two workers, node leaves, returns, fails: does anything leak or go untracked, is there always an endpoint, is a departed node forgotten, do scrapes stay atomic? | holds |
| `exporter_fleet` | Two nodes queueing for one worker, pods that move, pod deletions: does anything go untracked, do scrapes stay atomic, does a node starve? | holds |
| `exporter_live` | Recovery: failing, garbled and hung queries, readiness, departures | holds under `FairSpec` |
| `exporter_pool` | Two workers contending for one tracker's mutex: does it block? | holds |
| `process` | From `main` to the values on 25 vecs, under seven environments: is anything used too early, is a vec left out of an eviction or out of step, do values agree with each other, does a pod that is still reported lose its series, are monitored nodes scraped again and again? | holds |
| `exporter_daemonset` | Is a node that failed once monitored again in a DaemonSet? | violated |
| `exporter_departed` | Are a departed node's series always removed? | violated |
| `exporter_isolation` | Does eviction on one node leave the others alone? | violated |
| `lookup` | Do series agree with the `lookup` entry they are made from, do scrapes stay atomic, do entries outlive their pods, and do `lookup` and the series converge to the cluster through lists, updates, resyncs and lost connections? | holds |
| `lookup_volume_only` | The same with only the volume usage family enabled | violated |
| `lookup_shared_name` | Is `source="container"` about the pod's own limit when two pods share a name? | violated |

The properties:

* `CountsConsecutiveMisses`, `ExportedAreTracked`, `KeepsPromise` (refinement
  of `MissWindow`) of `PodTracker`;
* `SeriesMonitored`: a series of a node that is not monitored is about to be
  deleted by an eviction in progress;
* `TrackedUnlessRaced`: every pod series is counted by its node's *current*
  tracker or about to be deleted - otherwise nobody would ever delete it;
* `ScrapesAtomic` (refinement of `AtomicScrapes`, node by node), see above;
* `MonitoredHasEndpoint`: a scrape never fails for want of an address, except
  in the gap between `Set.Add` and `KubeletEndpoint.Store`;
* `DepartedForgettable`: a node in `Node.Set` or `KubeletEndpoint` that the
  informer's selection no longer has is one whose deletion is queued or being
  handled: nothing that overtakes the deletion, and no endpoint stored late,
  makes the exporter keep a node that is gone. It needs tombstones to be
  handled;
* `ReadyNodeMonitored`, `RunningPodExported`, `StoppedPodEvicted`,
  `DepartedNodeEvicted`: once the cluster has settled the exporter converges
  to it, whatever went before;
* `SeriesFromLookup`: a series agrees with the current `lookup` entry or is
  about to be evicted. It depends on `DeleteFunc` dropping the entry *before*
  it evicts the series, as the mutant that swaps them shows;
* `EntriesForgettable`: the same for `lookup` - an entry is of a pod the
  informer knows, or whose deletion `DeleteFunc` has still to hear of - so an
  update or a resync in the queue never brings back an entry for good. Names
  `missed` between the two lists are the exception;
* `ScrapesAtomic` of `PodLookup`, see above: it fails if the stale names are
  looked for after the new counts have been written;
* `LookupConverges`, `SeriesExported`, `DeletedForgotten`: the same
  convergence for `lookup` and what is made from it. They rest on the resync:
  it is all that tells the exporter of a pod the informer finds running;
* `NeverCrashes`: no goroutine uses a vec or a client that is still nil, or
  that the flags leave nil for good. It depends on the order of the three calls
  in `startCollectors`: with the node watch first it fails;
* `EverySeriesTracked`, `EvictedNodeBlank`: on each vec, a series is of a pod
  its node's tracker counts, and of a node that is monitored or has been
  scraped from an old snapshot since its last eviction (`late`): an eviction
  leaves nothing. One vec missing from one of the two lists of deletions
  violates them;
* `VecsAtomic`: each pod vec on each node changes only by whole scrapes, whole
  evictions and losses of whole names: the vecs stay in step with the tracker
  one by one, not just the pod as a whole;
* `PercentagesAgree`: the usage percentages of a rootfs and of the logs are
  those of the bytes shown beside them, as long as the capacity shown is not
  zero (`SetMetrics` leaves the last percentage in place when it is), and a
  node's percentage is that of its bytes;
* `ReportedKept`: a series of a pod that its node still reports goes only with
  the whole node, with its whole name after a deletion, or because another
  node's tracker gave up the name. So an answer that does not decode, a query
  that fails and a scrape that comes late are no misses;
* `MonitoredScraped`: a node that stays monitored is scraped again and again,
  whether or not the list of pods ever returns, provided queries do. What its
  gauges show then is the summary's; nothing is claimed for a node whose
  queries hang or do not decode: it stays monitored, and its gauges stay as
  they are.

**Bounds.** `MaxScrapes = 6` is twice the tolerance of `pod_tracker`, so a pod
can be missed, return and be missed again. `MaxPending` (1 or 2) bounds
undelivered notifications: with 2, a departure can be overtaken by a return in
the cluster while the handler is still at work. One node suffices for the
races between a scrape and an eviction, two workers for two scrapes of it, two
nodes for queueing and for eviction across nodes. `TrackerIds` has one
address per node and one per worker, as many as can be in use at once, so a
worker that needs a tracker always finds a free one. `Disturbances` picks what goes wrong in a run so that each stays
small; `exporter_race` keeps `MissTolerance = 2`, so a miss that is not yet an
eviction occurs under the races too. What the bounds leave out of
safety is covered by the proofs, which have none. In
`PodLookup` one name and two specs (with and without limits) give every way a
pod can be replaced by a different one of its name; the violations need two
pods of that name, or one family. `process` has one node and two pods of
different names, as every property of it is about one node, and about one pod
or the mix of two in a summary; the three reports of the first pod are idle
with more available than capacity, full with a volume at its limit, and no
figures at all, while the second has no limit and no capacity.
`MaxNodeQueryConcurrency = 1` lets two scrapes of the node be unfinished, one
of them from an older snapshot, so that it may run after the node is evicted; `MissTolerance = 1`
makes every miss an eviction. The seven environments are everything enabled in
a Deployment, a DaemonSet with some families, and each way of failing to start.
`exporter_fleet` has no evictions of nodes: those are in `exporter_race`, and
for any number of nodes in the proofs.

**Fairness.** Weak fairness of the poll loop, the watcher and each worker:
goroutines that can run do run. `Resync` is strongly fair because it competes
with other notifications for the model's bounded queue; the code's queue is
unbounded, and the resync timer goes off however busy it is. `CountMisses` is
strongly fair because Go's `sync.Mutex` goes into starvation mode after a
millisecond and then serves its waiters in order. In `PodLookup`
the informer's `Observe` and `Resync` are strongly fair for the same reason as
`Resync` above. In `Process` `main` goes on, both cases of the `select` in
`getMetrics` are weakly fair - the timer does fire - and so are the rounds; the
pod list need not return, and nothing is assumed of queries, neither that they
return nor what they answer: `MonitoredScraped` has it as its hypothesis that
those of each node are done with again and again.
Nothing is assumed of the cluster: nodes need not recover, pods need not stop. The liveness properties
are conditioned on the cluster settling, and on `NoHang`: a request that never
returns occupies a worker for good, and the code sets no deadline. Hung
requests that do end are covered (`exporter_live`).

### What the violated runs show

1. `exporter_daemonset`: the comment in `Query` expects the node watcher to
   pick an evicted node up again, but `StartWatch` starts none in a DaemonSet.
   One failed query, and the pod exports nothing until it restarts.
2. `exporter_departed`: a worker that already holds the summary sets the
   gauges of a node after `DeleteFunc` evicted it. The node is not in the set,
   so no later query fails and no later eviction happens.
3. `exporter_isolation`: `EvictStalePods` deletes by pod name on every node. A
   pod of a StatefulSet that moved loses its new series when its old node's
   tracker gives up the name, until its new node is scraped again.
4. `lookup_volume_only`: `NewCollector` starts the pod list and watch only for
   the two percentages; volume usage needs `lookup` as well and stays empty.
5. `lookup_shared_name`: `lookup` is keyed by name without namespace, so a pod
   is exported with its namesake's limits. The trackers are keyed in the same
   way: with pods that share a name on a node, `KeepsPromise` fails for
   `PodTracker` too, hence the assumption `UniqueNames` of its theorems.

## What is proved

`PodTrackerProofs`, for every tolerance, every set of pods and names, and every
`MaxScrapes`:

* `TypeCorrect`, and `ExportedTracked` (`ExportedAreTracked`), which is
  inductive with the type invariant alone, names shared or not;
* `CountsCorrect` and `PromiseKept`, for distinctly named pods (`UniqueNames`).
  The invariant is `CountsConsecutiveMisses` with the fact that no `lastIn`
  exceeds `scrapes`.
  From it a count reaches the tolerance exactly when the miss window does, so
  every step of `PodTracker` is a step of `MissWindow`.

`ExporterProofs`, for any number of nodes, pods and workers, either way of
deploying and scraping, no bound used but the one in `Notify`'s guard:

* `TypeCorrect`;
* `MonitoredReachable`: `MonitoredHasEndpoint` strengthened by what the
  watcher's position says of the node it works on (`EndpointsKnown`): only the
  watcher adds nodes in a Deployment, and it drops an endpoint only for a node
  it has removed from the set, which cannot be re-added meanwhile because it
  is the one who adds;
* `DepartedForgotten` (`DepartedForgettable`). The invariant `Forgettable` adds
  what the queue says *last* of a node that left, namely that it left
  (`DeletedLast`), that the handler which is about to store an endpoint has
  that deletion still before it (`StoredInTime`), and that no endpoint is
  stored at all unless the kubelet is scraped;
* `NothingLeaks` (`SeriesMonitored`). The invariant `NoLeak` adds
  `PendingMonitored` - an unmonitored node that is not `raced` has no scrape
  queued or in progress, so nobody can add a series - and `RateIfEnabled`,
  without which an eviction would leave rates that a disabled feature set;
* `NothingUntracked` (`TrackedUnlessRaced`). The invariant `NoOrphan` adds:
  no two nodes share a tracker (`TrackersApart`); a tracker held by a worker
  belongs to that worker's node or to none (`TrackersOwned`); a worker past
  loading on a node that is not `raced` counts in the node's own tracker
  (`CountsInNodeTracker`); what is still to be set was in the summary
  (`TodoInSummary`), and after counting is in the tracker (`TodoTracked`).

`AtomicScrapesProofs`, for the same instances:

* `ScrapesAreAtomic` (`ScrapesAtomic`): every step of `Exporter` is a step or a
  stutter of `AtomicScrapes` on each node that is not `raced`. It uses
  `NoOrphan` - the counts are written to the node's own tracker and no other
  node's, and what is to be set was in the summary - and `UnheldEmpty`: a
  tracker nobody refers to is empty, so storing a new one in the map changes
  nothing the mapping sees. `raced` enters twice: `EvictTracker` is the
  abstract eviction only if no other worker has pods still to set, and
  `CountMisses` the abstract scrape only if no other worker is about to export
  a name it evicts.

`GaugesProofs` has no theorem of a specification but the lemmas the next two
need, for any flags, summaries and pod specs:

* ranges: `OfLimit` is within 0..100 whatever the usage, `OfNode` too or `NaN`;
* `SetMetricsSays`: what `SetMetrics` sets is of one of seven shapes (`Says`),
  each on a pod vec, with the labels the vec is registered with
  (`SaysOfPod`), with a value in range (`SaysInRange`), and no two with the same
  vec and labels (`SaysOnce`: the labels of mounts, containers and pods tell
  them apart, and a volume has one size limit);
* agreement: used bytes, capacity and percentage of a file system are set
  together (`UsageSetTogether`), so setting keeps what is exported agreeing
  (`SetAllAgrees`), and so does an eviction through all of their vecs
  (`EvictionAgrees`); the gauges of a node likewise (`NodeSetAgrees`);
* evictions: `NamesEvicted` and `NodeEvicted` say exactly what goes.

`ProcessProofs`, for any nodes, pods, tolerance, environments, summaries and
pod specs:

* `NoCrash` (`NeverCrashes`). The invariant `SafeStart` adds `StartedInOrder`,
  which says what clients and vecs exist once `main` has passed each step of
  `StartupOrder`, how far it has come once each goroutine runs, and that no
  scrape is under way before the rounds begin. That a
  scrape dereferences only pod vecs and registered node vecs follows from
  `SaysOfPod` and `NodeSeriesTyped`;
* `NodesEvicted` (`EvictedNodeBlank`) and `SeriesTracked`
  (`EverySeriesTracked`), from one invariant, `SeriesPlaced`: each series has
  the labels of a pod or of a node that its vec calls for, so that
  `DeletePartialMatch` by name or by node does reach it; the node is monitored
  or `late`; the name is tracked. It needs no series to exist before `getMetrics` starts,
  or `newNodeCollector` would empty the set under them. Pods may share names.

`ProcessVecsProofs`, for the same instances:

* `TypeCorrect` (`TypeOK`): each series has exactly the labels its vec is
  registered with and a value in the vec's range, and no vec has two values for
  the same labels. The invariants are `DataTyped` (summaries and `lookup` hold
  what the constants allow), `ControlTyped`, and
* `SeriesAgree`, which also gives `PercentagesRight` (`PercentagesAgree`): of a
  file system the percentage is that of the bytes beside it unless the capacity
  shown is zero (`UsageAgrees`), and of a node that of its bytes
  (`NodeAgrees`). It is inductive because a gauge that is not enabled is never
  set (`OnlyEnabled`): otherwise a stale one could be left beside new ones;
* `EachVecAtomic` (`VecsAtomic`), from `SeriesPlaced`: every step is, seen from
  one vec and one node, a scrape, an eviction, a loss or a stutter of
  `AtomicScrapes`;
* `ReportedStay` (`ReportedKept`), from `SeriesPlaced` and `DataTyped`: the
  labels say whose a series is, so what `DeletePartialMatch` takes is a whole
  node or a whole name, and a name that the summary has is never stale.

`PodLookupProofs`, for any pods, specs and flags, and any number of
notifications under way:

* `TypeCorrect`, with the fact that what `SetMetrics` holds is in the summary in
  hand (`HeldInSummary`);
* `SeriesDerived` (`SeriesFromLookup`), for distinctly named pods. The invariant
  `Derived` adds what the held copy of an entry is worth (`HeldFromLookup`),
  that the first list overwrites nothing (`FilledOnce`), and
  `ChangesByDeletion`, about the queue: from the entry in `lookup`, through the
  updates under way, to what the informer last saw of a pod, its data changes
  only across a deletion. So an update that reaches `UpdateFunc` never replaces
  an entry series were made from, unless the name is `missed` or `stranded`;
* `ScrapesAreAtomic` (`ScrapesAtomic`), from `TypeOK` and `HeldInSummary`, names
  shared or not: `Summarise` is the abstract scrape, gauges set late and
  evictions by name are losses, everything else stutters;
* `EntriesForgotten` (`EntriesForgettable`), names shared or not. The invariant
  `Forgettable` adds that the queue is empty before the watch starts and that
  the last notification of a pod the informer no longer knows is of its
  deletion (`DeletedLast`).

Assumptions: the named `ASSUME`s of the modules, which TLC evaluates in every
run, and `UniqueNames` where it is said. Every invariant of the passing runs and
every refinement is proved. Only model-checked: the liveness properties
(`ReadyNodeMonitored`, `RunningPodExported`, `StoppedPodEvicted`,
`DepartedNodeEvicted`, `MonitoredScraped`, `LookupConverges`, `SeriesExported`,
`DeletedForgotten`), as `ENABLED` and fairness are beyond the proof system, and
the violations.

## Not modelled, and why

* `/metrics` and `/health`, beyond the listener's failing: they only read.
* Profiling, and what is inside the client configuration (rates, TLS): no state
  that any other part reads. Log output.
* The back-off clock, the ticker, the value of the adjusted polling rate: time
  is not in the model; anything the clocks allow is allowed. A
  `SCRAPE_INTERVAL` of zero, where back-off never gives up and nothing is
  resynced, and a `MAX_NODE_CONCURRENCY` below one, where the pool has no
  limit, are degenerate settings the models leave out.
* Floating-point rounding: percentages are whole.
* When a gauge follows its summary: `Process` says that monitored nodes are
  scraped again and again if their queries return, not that the answers decode.
* Gauges of overlapping scrapes, value by value: which series exist under
  overlap is in `Exporter`, what their values are is in `Process`, where
  scrapes do not overlap. Two overlapping ones can leave a mix of both.
* Helm chart, dashboards, test charts: not part of the program.

## Plan

1. *(done)* `StaleTracking`, `PodTracker` refining `MissWindow`, proofs.
2. *(done)* `Exporter`, safety, liveness, proofs of the safety invariants.
3. *(done)* `AtomicScrapes`, refined by `Exporter` outside `raced`, proved.
4. *(done)* `Gauges` and `Process`: vecs, values, start-up.
5. *(done)* `PodLookup`, its invariants proved.
6. *(done)* Proofs about `Process`: start-up, and the reach of the evictions on
   every vec.
7. *(done)* `GaugesProofs` and `ProcessVecsProofs`: types, values and
   atomicity of every vec.
8. *(done)* Nothing departed is kept: `DepartedForgettable` and
   `EntriesForgettable`, proved.
9. The safety halves of the liveness arguments: that a healthy node which is not
   monitored has a notification or a resync to come, and that the worker pool
   always has a step to take unless every worker hangs.
