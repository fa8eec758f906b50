------------------------------ MODULE Process ------------------------------
(***************************************************************************)
(* The whole process, from main to the series it exports: the start-up of  *)
(* its goroutines under a given environment, and then whole scrapes and    *)
(* handlers on the 25 vecs.  Here a scrape, a handler and a step of main   *)
(* are atomic, but the goroutines interleave from the moment they start;   *)
(* Exporter and PodLookup take scrapes and handlers apart.                 *)
(*                                                                         *)
(* What getMetrics has snapshot but the pool not finished is kept as a     *)
(* number of scrapes per node: a node may have left Node.Set before its    *)
(* scrape takes effect.  The summary is that of the moment it does.        *)
(***************************************************************************)
EXTENDS Gauges, Sequences
LOCAL INSTANCE Functions

CONSTANTS
  Nodes,
  NoNode,           \* CURRENT_NODE_NAME is not set
  Environments,     \* the environments the process may be started with
  Reports,          \* Reports[p]: what a summary may say of pod p
  Absent,           \* a pod that is not in a summary
  Specs,            \* Specs[q]: container data of the running pod of name q
  MaxNodeQueryConcurrency   \* the size of the worker pool

ASSUME NoNodeAssumption == NoNode \notin Nodes

Settings == {"LOG_LEVEL", "KUBECONFIG", "METRICS_PORT"}

ASSUME EnvironmentsAssumption ==
  \A env \in Environments :
    /\ env.deployType \in {"Deployment", "DaemonSet", "other"}
    /\ env.currentNode \in Nodes \cup {NoNode}
    /\ env.invalid \subseteq Settings

ASSUME ReportsAssumption == \A p \in Pods : \A e \in Reports[p] : IsEntry(e)

ASSUME SpecsAssumption ==
  /\ Specs = [q \in PodNames |-> Specs[q]]
  /\ \A q \in PodNames : IsContainerData(Specs[q])

ASSUME ConcurrencyAssumption == MaxNodeQueryConcurrency \in Nat \ {0}

VARIABLES
  env,         \* the environment: DEPLOY_TYPE, CURRENT_NODE_NAME, flags, bad settings
  reported,    \* reported[n][p]: what the stats summary of n says of pod p
  process,     \* running, exited (os.Exit or a deliberate panic) or crashed
  pc,          \* the step of main that comes next
  vecs,        \* the vecs created and registered
  clients,     \* the Kubernetes clients created
  listing,     \* initGetPodsData: not started, running or done
  watching,    \* Node.Watch has been started
  polling,     \* getMetrics: not started, waiting for the pod list, or in its rounds
  tasks,       \* tasks[n]: scrapes of n that are in nodeSlice or in the pool
  monitored,   \* Node.Set
  lookup,      \* the map from pod names to container data
  lastSeen,    \* lastSeen[n]: the podTracker of node n
  series,      \* everything /metrics shows
  late         \* history: nodes scraped, since their last eviction, when no longer in Node.Set

boot == <<pc, vecs, clients>>
goroutines == <<listing, watching, polling, tasks>>
data == <<monitored, lookup, lastSeen, series, late>>
vars == <<env, reported, process, boot, goroutines, data>>

flags == env.flags
AllVecs == PodVecs \cup NodeVecs \cup {RateVec}
NoData == [limits |-> <<>>, mounts |-> {}]

TypeOK ==
  /\ env \in Environments
  /\ reported \in [Nodes -> [Pods -> {Absent} \cup UNION {Reports[p] : p \in Pods}]]
  /\ process \in {"running", "exited", "crashed"}
  /\ pc \in Nat
  /\ vecs \subseteq AllVecs
  /\ clients \subseteq {"Clientset", "ClientRaw", "ClientAno"}
  /\ listing \in {"off", "running", "done"}
  /\ watching \in BOOLEAN
  /\ polling \in {"off", "waiting", "on"}
  /\ tasks \in [Nodes -> Nat]
  /\ monitored \subseteq Nodes \cup {NoNode}
  /\ late \subseteq Nodes
  /\ lookup \in [PodNames -> {Specs[q] : q \in PodNames} \cup {NoData}]
  /\ lastSeen \in [Nodes -> LastSeen]
  /\ \A s \in series :
       /\ s.vec \in AllVecs
       /\ DOMAIN s.labels = LabelNames(s.vec)
       /\ s.value \in (IF s.vec[2] \in Capped THEN 0..100 ELSE Nat) \cup {NaN}
  /\ \A s, x \in series : s.vec = x.vec /\ s.labels = x.labels => s = x

\* The process starts, or starts again, in a cluster with pods in it.
Init ==
  /\ env \in Environments
  /\ reported \in [Nodes -> [Pods -> {Absent} \cup UNION {Reports[p] : p \in Pods}]]
  /\ \A n \in Nodes, p \in Pods : reported[n][p] \in Reports[p] \cup {Absent}
  /\ process = "running"
  /\ pc = 1
  /\ vecs = {}
  /\ clients = {}
  /\ listing = "off"
  /\ watching = FALSE
  /\ polling = "off"
  /\ tasks = [n \in Nodes |-> 0]
  /\ monitored = {}
  /\ lookup = [q \in PodNames |-> NoData]
  /\ lastSeen = [n \in Nodes |-> EmptyTracker]
  /\ series = {}
  /\ late = {}

\* A summary of node n will say e of pod p.
SummaryChanges(n, p, e) ==
  /\ reported' = [reported EXCEPT ![n][p] = e]
  /\ UNCHANGED <<env, process, boot, goroutines, data>>

-----------------------------------------------------------------------------
(***************************************************************************)
(* main.                                                                   *)
(***************************************************************************)

\* Mutant of StartupOrder: the node watch does not wait for the pod vecs.
WatchFirst ==
  <<"SetLogger", "SetK8sClient", "newNodeCollector", "startNodeWatch",
    "newPodCollector", "getMetrics", "ListenAndServe">>

StartupOrder ==
  <<"SetLogger", "SetK8sClient", "newNodeCollector", "newPodCollector",
    "startNodeWatch", "getMetrics", "ListenAndServe">>

At(step) ==
  /\ process = "running"
  /\ pc <= Len(StartupOrder)
  /\ StartupOrder[pc] = step

\* main goes on with its next step if ok, and ends the process otherwise.
Proceed(ok) ==
  /\ process' = IF ok THEN process ELSE "exited"
  /\ pc' = pc + 1

SetLogger ==
  /\ At("SetLogger")
  /\ Proceed("LOG_LEVEL" \notin env.invalid)
  /\ UNCHANGED <<env, reported, vecs, clients, goroutines, data>>

SetK8sClient ==
  /\ At("SetK8sClient")
  /\ Proceed("KUBECONFIG" \notin env.invalid)
  /\ clients' = IF "scrapeFromKubelet" \in flags
                THEN {"Clientset", "ClientRaw", "ClientAno"} ELSE {"Clientset"}
  /\ UNCHANGED <<env, reported, vecs, goroutines, data>>

NewNodeCollector ==
  /\ At("newNodeCollector")
  /\ Proceed(env.deployType # "other")
  /\ vecs' = vecs \cup RegisteredWithNode(flags)
  /\ monitored' = IF env.deployType = "Deployment" THEN {} ELSE {env.currentNode}
  /\ UNCHANGED <<env, reported, clients, goroutines, lookup, lastSeen, series, late>>

\* Only the percentages start the goroutines that fill lookup.
NewPodCollector ==
  /\ At("newPodCollector")
  /\ Proceed(env.deployType = "DaemonSet" => env.currentNode # NoNode)
  /\ vecs' = vecs \cup PodVecs
  /\ listing' = IF {"containerLimits", "volumeLimits"} \cap flags = {} THEN "off" ELSE "running"
  /\ UNCHANGED <<env, reported, clients, watching, polling, tasks, data>>

StartNodeWatch ==
  /\ At("startNodeWatch")
  /\ Proceed(TRUE)
  /\ watching' = (env.deployType = "Deployment")
  /\ UNCHANGED <<env, reported, vecs, clients, listing, polling, tasks, data>>

StartPolling ==
  /\ At("getMetrics")
  /\ Proceed(TRUE)
  /\ polling' = "waiting"
  /\ UNCHANGED <<env, reported, vecs, clients, listing, watching, tasks, data>>

ListenAndServe ==
  /\ At("ListenAndServe")
  /\ Proceed("METRICS_PORT" \notin env.invalid)
  /\ UNCHANGED <<env, reported, vecs, clients, goroutines, data>>

Main ==
  \/ SetLogger \/ SetK8sClient \/ NewNodeCollector \/ NewPodCollector
  \/ StartNodeWatch \/ StartPolling \/ ListenAndServe

-----------------------------------------------------------------------------
(***************************************************************************)
(* The goroutines.  What a step dereferences must have been created.       *)
(***************************************************************************)
Dereference(vs, cs) ==
  /\ process = "running"
  /\ process' = IF vs \subseteq vecs /\ cs \subseteq clients THEN process ELSE "crashed"

\* initGetPodsData: all running pods are in lookup, and the WaitGroup is done.
PodsListed ==
  /\ listing = "running"
  /\ Dereference({}, {"Clientset"})
  /\ listing' = "done"
  /\ lookup' = Specs
  /\ UNCHANGED <<env, reported, boot, watching, polling, tasks, monitored, lastSeen, series, late>>

\* The list fails: os.Exit(1), whatever else the process is doing.
ListFails ==
  /\ listing = "running"
  /\ process = "running"
  /\ process' = "exited"
  /\ UNCHANGED <<env, reported, boot, goroutines, data>>

\* podWatch starts when the list is done.
PodUpdated(q) ==
  /\ listing = "done"
  /\ Dereference({}, {"Clientset"})
  /\ lookup' = [lookup EXCEPT ![q] = Specs[q]]
  /\ UNCHANGED <<env, reported, boot, goroutines, monitored, lastSeen, series, late>>

PodDeleted(q) ==
  /\ listing = "done"
  /\ Dereference(EvictedByName, {"Clientset"})
  /\ lookup' = [lookup EXCEPT ![q] = NoData]
  /\ series' = EvictPodsByName(series, {q})
  /\ UNCHANGED <<env, reported, boot, goroutines, monitored, lastSeen, late>>

NodeReady(n) ==
  /\ watching
  /\ Dereference({}, {"Clientset"})
  /\ monitored' = monitored \cup {n}
  /\ UNCHANGED <<env, reported, boot, goroutines, lookup, lastSeen, series, late>>

\* Node.evict
Evict(n) ==
  /\ monitored' = monitored \ {n}
  /\ lastSeen' = [lastSeen EXCEPT ![n] = EmptyTracker]
  /\ series' = EvictNode(flags, series, n)
  /\ late' = late \ {n}

NodeDeleted(n) ==
  /\ watching
  /\ Dereference(EvictedWithNode(flags) \cup EvictedByNode, {"Clientset"})
  /\ Evict(n)
  /\ UNCHANGED <<env, reported, boot, goroutines, lookup>>

\* Mutant of WaitTimesOut: getMetrics waits for the pod list however long.
NoTimeOut == FALSE /\ UNCHANGED vars

\* getMetrics goes on when the WaitGroup is done, or was never added to.
WaitEnds ==
  /\ process = "running"
  /\ polling = "waiting"
  /\ listing # "running"
  /\ polling' = "on"
  /\ UNCHANGED <<env, reported, process, boot, listing, watching, tasks, data>>

\* It goes on after two sample intervals in any case.
WaitTimesOut ==
  /\ process = "running"
  /\ polling = "waiting"
  /\ polling' = "on"
  /\ UNCHANGED <<env, reported, process, boot, listing, watching, tasks, data>>

\* A round: the last node of the round before has been handed to the pool, so
\* no more scrapes than workers are unfinished.  nodeSlice is Node.Set of now.
Poll ==
  /\ process = "running"
  /\ polling = "on"
  /\ SumFunction(tasks) <= MaxNodeQueryConcurrency
  /\ tasks' = [n \in Nodes |-> IF n \in monitored THEN tasks[n] + 1 ELSE tasks[n]]
  /\ UNCHANGED <<env, reported, process, boot, listing, watching, polling, data>>

\* setMetrics returns: Node.Set has not been looked at since the snapshot.
ScrapeEnds(n) ==
  /\ tasks[n] > 0
  /\ tasks' = [tasks EXCEPT ![n] = @ - 1]
  /\ UNCHANGED <<env, reported, boot, listing, watching, polling, lookup>>

\* The clients Node.Query uses.
QueryClients ==
  IF "scrapeFromKubelet" \in flags /\ env.deployType = "Deployment"
  THEN {"ClientRaw", "ClientAno"} ELSE {"Clientset"}

\* No answer until the back-off ends: Query evicts the node, monitored or not.
QueryFails(n) ==
  /\ ScrapeEnds(n)
  /\ Dereference(EvictedWithNode(flags) \cup EvictedByNode, QueryClients)
  /\ Evict(n)

\* Mutant of QueryGarbled: what does not decode is taken for an empty summary.
GarbledCounts(n) ==
  LET gone == StaleNames(lastSeen[n], {})
  IN /\ ScrapeEnds(n)
     /\ Dereference({}, QueryClients)
     /\ lastSeen' = [lastSeen EXCEPT ![n] = AfterScrape(@, {})]
     /\ series' = EvictPodsByName(series, gone)
     /\ UNCHANGED <<monitored, late>>

\* The answer does not decode: nothing is set, counted or evicted.
QueryGarbled(n) ==
  /\ ScrapeEnds(n)
  /\ Dereference({}, QueryClients)
  /\ UNCHANGED <<monitored, lastSeen, series, late>>

(***************************************************************************)
(* setMetrics: the summary of node n, with the pods in some order.  The    *)
(* node's gauges keep the figures of the last pod of it that has any.      *)
(***************************************************************************)
Scrape(n) ==
  LET summary  == reported[n]
      present  == {p \in Pods : summary[p] # Absent}
      measured == {p \in present : HasFigures(summary[p])}
      gone     == StaleNames(lastSeen[n], Names(present))
      podNew   == UNION {SetMetrics(flags, lookup[NameOf[p]], p, n, summary[p]) : p \in measured}
  IN /\ ScrapeEnds(n)
     /\ UNCHANGED monitored
     /\ late' = IF n \in monitored THEN late ELSE late \cup {n}
     /\ lastSeen' = [lastSeen EXCEPT ![n] = AfterScrape(@, Names(present))]
     /\ \E nodeNew \in IF measured = {} THEN {{}}
                       ELSE {NodeSeries(flags, n, summary[p].figures) : p \in measured} :
          LET new == podNew \cup nodeNew \cup RateSeries(flags, n)
          IN /\ Dereference({s.vec : s \in new} \cup (IF gone = {} THEN {} ELSE EvictedByName),
                            QueryClients)
             /\ series' = SetAll(EvictPodsByName(series, gone), new)

-----------------------------------------------------------------------------
Next ==
  \/ \E n \in Nodes, p \in Pods : \E e \in Reports[p] \cup {Absent} : SummaryChanges(n, p, e)
  \/ Main
  \/ PodsListed
  \/ ListFails
  \/ \E q \in PodNames : PodUpdated(q) \/ PodDeleted(q)
  \/ \E n \in Nodes : NodeReady(n) \/ NodeDeleted(n)
  \/ WaitEnds
  \/ WaitTimesOut
  \/ Poll
  \/ \E n \in Nodes : QueryFails(n) \/ QueryGarbled(n) \/ Scrape(n)

Spec == Init /\ [][Next]_vars

(***************************************************************************)
(* Goroutines that can run do run, and the time-out expires.  Nothing is   *)
(* assumed of the pod list, which may never return, nor of a query: it has *)
(* no deadline, and its answer may be of any kind.                         *)
(***************************************************************************)
Fairness == WF_vars(Main) /\ WF_vars(WaitEnds) /\ WF_vars(WaitTimesOut) /\ WF_vars(Poll)

FairSpec == Spec /\ Fairness

-----------------------------------------------------------------------------
\* No goroutine dereferences a vec or a client that does not exist yet, or
\* that the flags leave out: "The pod collector must exist before the node
\* watch begins, since a Deployment-mode watch can deliver node delete events
\* that evict pod metrics" (cmd/app/main.go:43-46).
NeverCrashes == process # "crashed"

\* On each of the 21 pod vecs, a series is of a pod its node's tracker counts:
\* a vec that evictPodByName forgot would keep it for ever.
EverySeriesTracked ==
  \A s \in series :
    s.vec \in PodVecs => lastSeen[s.labels.node_name][s.labels.pod_name] # NotTracked

\* Each of the 21 pod vecs, taken alone and seen from one node, changes as if
\* it were the only one: by whole scrapes and evictions of the node, and by
\* losses of names.  So every series of a vec goes after the same misses.
ShownOn(vec, n) ==
  {p \in Pods : \E s \in series :
     s.vec = vec /\ s.labels.pod_namespace = p /\ s.labels.node_name = n}

OnVec(vec, n) ==
  INSTANCE AtomicScrapes WITH lastSeen <- lastSeen[n], exported <- ShownOn(vec, n)

VecsAtomic ==
  /\ \A vec \in PodVecs, n \in Nodes : OnVec(vec, n)!Init
  /\ [][\A vec \in PodVecs, n \in Nodes :
          [\/ OnVec(vec, n)!Next
           \/ \E names \in SUBSET PodNames : OnVec(vec, n)!LoseNames(names)]_<<lastSeen[n], ShownOn(vec, n)>>]_vars

\* Eviction blanks a node on each of the 25 vecs: Node.evict and EvictPodByNode
\* between them leave no vec out, so a series is of a monitored node, or of one
\* scraped once more, from an old nodeSlice, after it was evicted.
EvictedNodeBlank == \A s \in series : s.labels.node_name \in monitored \cup late

\* The percentages agree with the bytes they are shown beside: of a rootfs or
\* the logs as long as the capacity shown is not zero, of a node always.
Shown(vec, labels) == {s.value : s \in {x \in series : x.vec = vec /\ x.labels = labels}}

PercentagesAgree ==
  /\ \A s \in series :
       s.vec[1] \in {"Rootfs", "Logs"} /\ s.vec[2] = "CapacityBytes" /\ s.value > 0 =>
         Shown(<<s.vec[1], "UsagePercentage">>, s.labels) =
           {(u * 100) \div s.value : u \in Shown(<<s.vec[1], "UsedBytes">>, s.labels)}
  /\ \A n \in Nodes :
       LET Gauge(f) == Shown(<<"Node", f>>, [node_name |-> n])
       IN \A c \in Gauge("CapacityBytes"), a \in Gauge("AvailableBytes"),
             percentage \in Gauge("Percentage") :
            percentage = OfNode([CapacityBytes |-> c, AvailableBytes |-> a])

\* A series of a pod that its node still reports goes only with all of the
\* node (evict), with all of its name (DeleteFunc), or when another node has
\* given up the name (evictPodByName): an answer that does not decode, a query
\* that fails or a late scrape is never a miss.
NodeBlanked(n) == n \notin monitored /\ \A x \in series : x.labels.node_name # n

NameBlanked(q) ==
  /\ lookup[q] = NoData
  /\ \A x \in series : x.vec \in PodVecs => x.labels.pod_name # q

GivenUpElsewhere(q, n) ==
  \E m \in Nodes \ {n} : lastSeen[m][q] # NotTracked /\ lastSeen'[m][q] = NotTracked

Justified(q, n) ==
  \/ NodeBlanked(n)'
  \/ NameBlanked(q)' /\ UNCHANGED lastSeen
  \/ GivenUpElsewhere(q, n)

StillShown(s) == \E x \in series : x.vec = s.vec /\ x.labels = s.labels

ReportedKept ==
  [][\A s \in series :
       s.vec \in PodVecs /\ reported[s.labels.node_name][s.labels.pod_namespace] # Absent =>
         StillShown(s)' \/ Justified(s.labels.pod_name, s.labels.node_name)]_vars

\* A node that stays monitored is scraped again and again as long as queries
\* return, even if the list of pods that getMetrics waits for never ends
\* ("Wait for pod initialization with a timeout", cmd/app/main.go:135-136).
MonitoredScraped ==
  (\A m \in Nodes : []<>(tasks[m] = 0)) =>
    \A n \in Nodes : <>[](process = "running" /\ n \in monitored) => []<>(tasks[n] > 0)
=============================================================================
