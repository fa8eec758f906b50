---------------------------- MODULE ProcessProofs ----------------------------
(***************************************************************************)
(* Safety of Process for every set of environments, summaries and pod      *)
(* specs, and any number of nodes and pods.                                *)
(***************************************************************************)
EXTENDS Process, GaugesProofs

(***************************************************************************)
(* What a scrape sets: series of the pods measured, the gauges of the node *)
(* with the figures of one of them, and the polling rate.                  *)
(***************************************************************************)
Present(n)  == {p \in Pods : reported[n][p] # Absent}
Measured(n) == {p \in Present(n) : HasFigures(reported[n][p])}
PodNew(n) ==
  UNION {SetMetrics(flags, lookup[NameOf[p]], p, n, reported[n][p]) : p \in Measured(n)}

NodeNew(n, nodeNew) ==
  nodeNew = {} \/ \E p \in Measured(n) : nodeNew = NodeSeries(flags, n, reported[n][p].figures)

NewSeries(n, new) ==
  \E nodeNew : NodeNew(n, nodeNew) /\ new = PodNew(n) \cup nodeNew \cup RateSeries(flags, n)

OfPod(s, p, n) ==
  /\ s.vec \in PodVecs
  /\ NamesPod(s.labels, p, n)
  /\ DOMAIN s.labels = LabelNames(s.vec)

OfNodeItself(fs, s, n) ==
  /\ s.vec \in EvictedWithNode(fs) \ PodVecs
  /\ "node_name" \in DOMAIN s.labels
  /\ s.labels["node_name"] = n
  /\ DOMAIN s.labels = LabelNames(s.vec)

\* Each of these is a measured pod's, or the node's.
LEMMA NewSeriesOwned ==
  ASSUME NEW n, NEW new, NewSeries(n, new), NEW s \in new
  PROVE  (\E p \in Measured(n) : OfPod(s, p, n)) \/ OfNodeItself(flags, s, n)
  <1>1. PICK nodeNew : NodeNew(n, nodeNew) /\ new = PodNew(n) \cup nodeNew \cup RateSeries(flags, n)
    BY DEF NewSeries
  <1>2. CASE s \in PodNew(n)
    <2>1. PICK p \in Measured(n) : s \in SetMetrics(flags, lookup[NameOf[p]], p, n, reported[n][p])
      BY <1>2 DEF PodNew
    <2>2. OfPod(s, p, n)
      BY <2>1, SetMetricsSays, SaysOfPod DEF OfPod
    <2> QED
      BY <2>2
  <1>3. CASE s \in nodeNew
    <2>1. s.vec \in NodeVecs /\ s.labels = [node_name |-> n] /\ DOMAIN s.labels = LabelNames(s.vec)
      BY <1>1, <1>3, NodeSeriesTyped DEF NodeNew
    <2> QED
      BY <2>1, NodeVecsApart DEF OfNodeItself, EvictedWithNode
  <1>4. CASE s \in RateSeries(flags, n)
    <2>1. /\ s.vec = RateVec /\ "adjustedPollingRate" \in flags
          /\ s.labels = [node_name |-> n] /\ DOMAIN s.labels = LabelNames(s.vec)
      BY <1>4, RateSeriesTyped
    <2> QED
      BY <2>1, NodeVecsApart DEF OfNodeItself, EvictedWithNode
  <1> QED
    BY <1>1, <1>2, <1>3, <1>4

-----------------------------------------------------------------------------
(***************************************************************************)
(* The order of start-up: what main has created before it starts the       *)
(* goroutines that dereference it.                                         *)
(***************************************************************************)
StepReached(i) == pc > i

StartedInOrder ==
  /\ pc \in Nat \ {0}
  /\ StepReached(2) => "Clientset" \in clients
  /\ StepReached(2) /\ "scrapeFromKubelet" \in flags => {"ClientRaw", "ClientAno"} \subseteq clients
  /\ StepReached(3) => EvictedWithNode(flags) \subseteq vecs
  /\ StepReached(4) => PodVecs \subseteq vecs
  /\ listing # "off" => StepReached(4)
  /\ watching => StepReached(5)
  /\ polling # "off" => StepReached(6)
  /\ tasks \in [Nodes -> Nat]
  /\ \A n \in Nodes : tasks[n] > 0 => polling = "on"

SafeStart == NeverCrashes /\ StartedInOrder

\* Each step of main runs at its place in StartupOrder.
LEMMA PlacesInOrder ==
  ASSUME pc \in Nat \ {0}
  PROVE  /\ At("SetLogger") => pc = 1
         /\ At("SetK8sClient") => pc = 2
         /\ At("newNodeCollector") => pc = 3
         /\ At("newPodCollector") => pc = 4
         /\ At("startNodeWatch") => pc = 5
         /\ At("getMetrics") => pc = 6
         /\ At("ListenAndServe") => pc = 7
  <1>1. Len(StartupOrder) = 7
    BY DEF StartupOrder
  <1>2. pc <= 7 => pc \in {1, 2, 3, 4, 5, 6, 7}
    OBVIOUS
  <1> QED
    BY <1>1, <1>2 DEF At, StartupOrder

\* A step that dereferences nothing but what exists does not crash.
LEMMA DereferenceSafe ==
  ASSUME NEW vs, NEW cs, Dereference(vs, cs), vs \subseteq vecs, cs \subseteq clients
  PROVE  process' = "running"
  BY DEF Dereference

\* Once the goroutines may run, everything a scrape, a failed query and a
\* watch event use has been created.
LEMMA CreatedInTime ==
  ASSUME SafeStart
  PROVE  /\ listing # "off" \/ watching => {"Clientset"} \subseteq clients /\ PodVecs \subseteq vecs
         /\ watching => EvictedWithNode(flags) \cup PodVecs \subseteq vecs
         /\ \A n \in Nodes : tasks[n] > 0 =>
              EvictedWithNode(flags) \cup PodVecs \subseteq vecs /\ QueryClients \subseteq clients
  BY DEF SafeStart, StartedInOrder, StepReached, QueryClients

\* A step of a goroutine does not disturb the order of start-up.
LEMMA StartedInOrderKept ==
  ASSUME StartedInOrder, UNCHANGED <<env, boot, tasks>>,
         listing' # "off" => listing # "off",
         watching' => watching,
         polling' # "off" => polling # "off",
         polling = "on" => polling' = "on"
  PROVE  StartedInOrder'
  BY DEF StartedInOrder, StepReached, boot, flags

\* Scrapes are handed over and end only once polling is on.
LEMMA TasksInOrder ==
  ASSUME StartedInOrder, UNCHANGED <<env, boot, listing, watching, polling>>,
         tasks' \in [Nodes -> Nat],
         \A n \in Nodes : tasks'[n] > 0 => tasks[n] > 0 \/ polling = "on"
  PROVE  StartedInOrder'
  BY DEF StartedInOrder, StepReached, boot, flags

\* So the end of a scrape does not disturb it, however it ends.
LEMMA ScrapeEndsInOrder ==
  ASSUME StartedInOrder, NEW n \in Nodes, ScrapeEnds(n)
  PROVE  StartedInOrder'
  <1>1. tasks \in [Nodes -> Nat] /\ tasks[n] > 0 /\ tasks' = [tasks EXCEPT ![n] = tasks[n] - 1]
    BY DEF StartedInOrder, ScrapeEnds
  <1>2. tasks[n] \in Nat /\ tasks[n] - 1 \in Nat
    BY <1>1
  <1>3. tasks' \in [Nodes -> Nat] /\ \A m \in Nodes : tasks'[m] > 0 => tasks[m] > 0
    BY <1>1, <1>2
  <1> QED
    BY <1>3, TasksInOrder DEF ScrapeEnds

\* Nor does a round.
LEMMA PollInOrder ==
  ASSUME StartedInOrder, Poll
  PROVE  StartedInOrder'
  <1>1. /\ tasks \in [Nodes -> Nat] /\ polling = "on"
        /\ tasks' = [n \in Nodes |-> IF n \in monitored THEN tasks[n] + 1 ELSE tasks[n]]
    BY DEF StartedInOrder, Poll
  <1>2. tasks' \in [Nodes -> Nat]
    BY <1>1
  <1> QED
    BY <1>1, <1>2, TasksInOrder DEF Poll

(***************************************************************************)
(* What a scrape does, in the terms the proofs need: it deletes the series *)
(* of the names gone from the summary and sets new ones.                   *)
(***************************************************************************)
ScrapeStep(n, gone, new) ==
  /\ ScrapeEnds(n)
  /\ UNCHANGED monitored
  /\ late' = IF n \in monitored THEN late ELSE late \cup {n}
  /\ lastSeen' = [lastSeen EXCEPT ![n] = AfterScrape(@, Names(Present(n)))]
  /\ gone = StaleNames(lastSeen[n], Names(Present(n)))
  /\ NewSeries(n, new)
  /\ Dereference({s.vec : s \in new} \cup (IF gone = {} THEN {} ELSE EvictedByName),
                 QueryClients)
  /\ series' = SetAll(EvictPodsByName(series, gone), new)

\* Every scrape is such a step.
LEMMA ScrapeIsStep ==
  ASSUME NEW n, Scrape(n)
  PROVE  \E gone, new : ScrapeStep(n, gone, new)
  <1> DEFINE summary  == reported[n]
             present  == {p \in Pods : summary[p] # Absent}
             measured == {p \in present : HasFigures(summary[p])}
             gone     == StaleNames(lastSeen[n], Names(present))
             podNew   == UNION {SetMetrics(flags, lookup[NameOf[p]], p, n, summary[p]) : p \in measured}
  <1>1. PICK nodeNew \in IF measured = {} THEN {{}}
                         ELSE {NodeSeries(flags, n, summary[p].figures) : p \in measured} :
          LET new == podNew \cup nodeNew \cup RateSeries(flags, n)
          IN /\ Dereference({s.vec : s \in new} \cup (IF gone = {} THEN {} ELSE EvictedByName),
                            QueryClients)
             /\ series' = SetAll(EvictPodsByName(series, gone), new)
    BY Zenon DEF Scrape
  <1> DEFINE new == podNew \cup nodeNew \cup RateSeries(flags, n)
  <1>2. NewSeries(n, new)
    <2>1. present = Present(n) /\ measured = Measured(n) /\ podNew = PodNew(n)
      BY Zenon DEF Present, Measured, PodNew
    <2>2. NodeNew(n, nodeNew)
      BY <1>1, <2>1 DEF NodeNew
    <2> QED
      BY <2>1, <2>2, Zenon DEF NewSeries
  <1>3. /\ ScrapeEnds(n)
        /\ UNCHANGED monitored
        /\ late' = IF n \in monitored THEN late ELSE late \cup {n}
        /\ lastSeen' = [lastSeen EXCEPT ![n] = AfterScrape(@, Names(present))]
    BY Zenon DEF Scrape
  <1>4. ScrapeStep(n, gone, new)
    BY <1>1, <1>2, <1>3, Zenon DEF ScrapeStep, Present
  <1> QED
    BY <1>4, Zenon

-----------------------------------------------------------------------------
\* Every step of main and of a goroutine keeps the order of start-up.
LEMMA SafeStartStep ==
  ASSUME SafeStart, [Next]_vars
  PROVE  SafeStart'
  <1> USE DEF SafeStart
  <1>1. CASE Main
    <2>1. process = "running" /\ process' \in {"running", "exited"} /\ env' = env
      BY <1>1 DEF Main, SetLogger, SetK8sClient, NewNodeCollector, NewPodCollector,
                  StartNodeWatch, StartPolling, ListenAndServe, Proceed, At
    <2>2. StartedInOrder'
      <3> USE PlacesInOrder DEF StartedInOrder, StepReached, Proceed, goroutines, flags
      <3>1. CASE SetLogger
        BY <3>1 DEF SetLogger
      <3>2. CASE SetK8sClient
        BY <3>2 DEF SetK8sClient
      <3>3. CASE NewNodeCollector
        BY <3>3 DEF NewNodeCollector, RegisteredWithNode, EvictedWithNode
      <3>4. CASE NewPodCollector
        BY <3>4 DEF NewPodCollector
      <3>5. CASE StartNodeWatch
        BY <3>5 DEF StartNodeWatch
      <3>6. CASE StartPolling
        BY <3>6 DEF StartPolling
      <3>7. CASE ListenAndServe
        BY <3>7 DEF ListenAndServe
      <3> QED
        BY <1>1, <3>1, <3>2, <3>3, <3>4, <3>5, <3>6, <3>7 DEF Main
    <2> QED
      BY <2>1, <2>2 DEF NeverCrashes
  <1>2. ASSUME NEW n \in Nodes, Scrape(n)
        PROVE  SafeStart'
    <2>1. PICK gone, new : ScrapeStep(n, gone, new)
      BY <1>2, ScrapeIsStep
    <2>2. EvictedWithNode(flags) \cup PodVecs \subseteq vecs /\ QueryClients \subseteq clients
      BY <2>1, CreatedInTime DEF ScrapeStep, ScrapeEnds
    <2>3. {s.vec : s \in new} \subseteq vecs
      BY <2>1, <2>2, NewSeriesOwned DEF ScrapeStep, OfPod, OfNodeItself
    <2>4. process' = "running"
      BY <2>1, <2>2, <2>3 DEF ScrapeStep, Dereference, EvictedByName
    <2> QED
      BY <2>1, <2>4, ScrapeEndsInOrder DEF ScrapeStep, NeverCrashes
  <1>3. ASSUME NEW n \in Nodes, QueryFails(n) \/ QueryGarbled(n)
        PROVE  SafeStart'
    <2>1. process' = "running"
      BY <1>3, CreatedInTime
         DEF QueryFails, QueryGarbled, ScrapeEnds, Dereference, EvictedByNode
    <2> QED
      BY <1>3, <2>1, ScrapeEndsInOrder DEF QueryFails, QueryGarbled, NeverCrashes
  <1>4. ASSUME NEW n \in Nodes, NodeReady(n) \/ NodeDeleted(n)
        PROVE  SafeStart'
    <2>1. process' = "running"
      BY <1>4, CreatedInTime DEF NodeReady, NodeDeleted, Dereference, EvictedByNode
    <2> QED
      BY <1>4, <2>1, StartedInOrderKept DEF NodeReady, NodeDeleted, NeverCrashes, goroutines
  <1>5. ASSUME NEW q \in PodNames, PodUpdated(q) \/ PodDeleted(q)
        PROVE  SafeStart'
    <2>1. process' = "running"
      BY <1>5, CreatedInTime DEF PodUpdated, PodDeleted, Dereference, EvictedByName
    <2> QED
      BY <1>5, <2>1, StartedInOrderKept DEF PodUpdated, PodDeleted, NeverCrashes, goroutines
  <1>6. CASE PodsListed
    <2>1. process' = "running"
      BY <1>6, CreatedInTime DEF PodsListed, Dereference
    <2> QED
      BY <1>6, <2>1, StartedInOrderKept DEF PodsListed, NeverCrashes
  <1>7. CASE ListFails \/ WaitEnds \/ WaitTimesOut
    BY <1>7, StartedInOrderKept DEF ListFails, WaitEnds, WaitTimesOut, NeverCrashes, goroutines
  <1>10. CASE Poll
    BY <1>10, PollInOrder DEF Poll, NeverCrashes
  <1>8. ASSUME NEW n \in Nodes, NEW p \in Pods, NEW e \in Reports[p] \cup {Absent},
               SummaryChanges(n, p, e)
        PROVE  SafeStart'
    BY <1>8, StartedInOrderKept DEF SummaryChanges, NeverCrashes, goroutines
  <1>9. CASE UNCHANGED vars
    BY <1>9, StartedInOrderKept DEF vars, NeverCrashes, goroutines
  <1> QED
    BY <1>1, <1>2, <1>3, <1>4, <1>5, <1>6, <1>7, <1>8, <1>9, <1>10 DEF Next

\* The order of start-up holds in every reachable state, and nothing crashes.
LEMMA SafeStartInvariant == Spec => []SafeStart
  <1>1. Init => SafeStart
    BY DEF Init, SafeStart, NeverCrashes, StartedInOrder, StepReached
  <1> QED
    BY <1>1, SafeStartStep, PTL DEF Spec

\* Whatever the environment and the interleaving of main, the list, the
\* watches and the rounds, none of them dereferences a vec or a client that
\* main has not created yet or that the flags leave out.
THEOREM NoCrash == Spec => []NeverCrashes
  BY SafeStartInvariant, PTL DEF SafeStart

-----------------------------------------------------------------------------
(***************************************************************************)
(* Where the series are: a series of a pod vec names a pod its node's      *)
(* tracker counts, any other is one of those Node.evict deletes, and both  *)
(* are of nodes that are monitored or were scraped late.                   *)
(***************************************************************************)
Placed(s) ==
  /\ s.labels["node_name"] \in Nodes \cap (monitored \cup late)
  /\ \/ \E p \in Pods :
          /\ OfPod(s, p, s.labels["node_name"])
          /\ lastSeen[s.labels["node_name"]][NameOf[p]] # NotTracked
     \/ OfNodeItself(flags, s, s.labels["node_name"])

SeriesPlaced ==
  /\ lastSeen \in [Nodes -> LastSeen]
  /\ series # {} => polling # "off"
  /\ \A s \in series : Placed(s)

\* What AfterScrape leaves tracked.
LEMMA TrackedAfterScrape ==
  ASSUME NEW seen \in LastSeen, NEW names
  PROVE  /\ AfterScrape(seen, names) \in LastSeen
         /\ \A q \in PodNames :
              q \in names \/ (seen[q] # NotTracked /\ q \notin StaleNames(seen, names))
                => AfterScrape(seen, names)[q] # NotTracked
  BY DEF LastSeen, AfterScrape, Reset, NotTracked

\* A placed series is on a vec that the evictions go through.
LEMMA PlacedEvictable ==
  ASSUME NEW s, Placed(s)
  PROVE  /\ s.vec \in EvictedWithNode(flags) \cup PodVecs
         /\ "node_name" \in DOMAIN s.labels
  BY DEF Placed, OfPod, OfNodeItself, NamesPod

\* A step that takes no node out, resets no tracker and sets no gauge.
LEMMA SeriesPlacedKept ==
  ASSUME SeriesPlaced, UNCHANGED <<env, lastSeen, late>>, monitored \subseteq monitored',
         series' \subseteq series, polling # "off" => polling' # "off"
  PROVE  SeriesPlaced'
  BY DEF SeriesPlaced, Placed, flags

\* Node.evict leaves the series of the other nodes, and their trackers, alone.
LEMMA EvictSeriesPlaced ==
  ASSUME SeriesPlaced, NEW n \in Nodes, Evict(n), UNCHANGED <<env, polling>>
  PROVE  SeriesPlaced'
  <1>1. lastSeen' \in [Nodes -> LastSeen]
    BY DEF SeriesPlaced, Evict, EmptyTracker, LastSeen, NotTracked
  <1>2. ASSUME NEW s \in series'
        PROVE  Placed(s)'
    <2>1. s \in EvictNode(flags, series, n) /\ s \in series
      BY <1>2 DEF Evict, EvictNode, DeletePartialMatch
    <2>2. Placed(s)
      BY <2>1 DEF SeriesPlaced
    <2>3. s.labels["node_name"] # n
      BY <2>1, <2>2, PlacedEvictable, NodeEvicted
    <2>4. lastSeen'[s.labels["node_name"]] = lastSeen[s.labels["node_name"]]
      BY <2>2, <2>3 DEF Evict, SeriesPlaced, Placed
    <2> QED
      BY <2>2, <2>3, <2>4 DEF Placed, Evict, flags
  <1>3. series' # {} => polling' # "off"
    BY DEF SeriesPlaced, Evict, EvictNode, DeletePartialMatch
  <1> QED
    BY <1>1, <1>2, <1>3 DEF SeriesPlaced

\* A scrape counts every pod it sets a series of, and deletes every series of
\* a pod it stops counting, on this node or another.
LEMMA ScrapeSeriesPlaced ==
  ASSUME SafeStart, SeriesPlaced, NEW n \in Nodes, Scrape(n)
  PROVE  SeriesPlaced'
  <1>1. PICK gone, new : ScrapeStep(n, gone, new)
    BY ScrapeIsStep
  <1> DEFINE names == Names(Present(n))
  <1>2. /\ n \in monitored' \cup late' /\ late \subseteq late'
        /\ env' = env /\ monitored' = monitored /\ polling' = polling /\ tasks[n] > 0
        /\ gone = StaleNames(lastSeen[n], names)
        /\ lastSeen' = [lastSeen EXCEPT ![n] = AfterScrape(lastSeen[n], names)]
        /\ series' = SetAll(EvictPodsByName(series, gone), new)
        /\ NewSeries(n, new)
    BY <1>1 DEF ScrapeStep, ScrapeEnds
  <1>3. \A p \in Measured(n) : p \in Pods /\ NameOf[p] \in PodNames /\ NameOf[p] \in names
    BY NameAssumption DEF Measured, Present, Names
  <1> HIDE DEF names
  <1>4. lastSeen[n] \in LastSeen /\ lastSeen' \in [Nodes -> LastSeen]
    BY <1>2, TrackedAfterScrape DEF SeriesPlaced
  <1>5. \A q \in PodNames :
           q \in names \/ (lastSeen[n][q] # NotTracked /\ q \notin gone)
             => lastSeen'[n][q] # NotTracked
    BY <1>2, <1>4, TrackedAfterScrape DEF SeriesPlaced
  <1>6. ASSUME NEW s \in new
        PROVE  Placed(s)'
    <2>1. CASE OfNodeItself(flags, s, n)
      BY <1>2, <2>1 DEF OfNodeItself, Placed, flags
    <2>2. ASSUME NEW p \in Measured(n), OfPod(s, p, n)
          PROVE  Placed(s)'
      <3>1. s.labels["node_name"] = n
        BY <2>2 DEF OfPod, NamesPod
      <3>2. lastSeen'[n][NameOf[p]] # NotTracked
        BY <1>3, <1>5
      <3> QED
        BY <1>2, <1>3, <2>2, <3>1, <3>2 DEF Placed
    <2> QED
      BY <1>2, <1>6, <2>1, <2>2, NewSeriesOwned
  <1>7. ASSUME NEW s \in EvictPodsByName(series, gone)
        PROVE  Placed(s)'
    <2>1. s \in series
      BY <1>7 DEF EvictPodsByName, DeletePartialMatch
    <2> DEFINE x == s.labels["node_name"]
    <2>2. Placed(s)
      BY <2>1 DEF SeriesPlaced
    <2>3. CASE OfNodeItself(flags, s, x)
      BY <1>2, <2>2, <2>3 DEF Placed, flags
    <2>4. ASSUME NEW p \in Pods, OfPod(s, p, x), lastSeen[x][NameOf[p]] # NotTracked
          PROVE  Placed(s)'
      <3>1. NameOf[p] \notin gone
        BY <1>7, <2>1, <2>4, NamesEvicted DEF OfPod, NamesPod
      <3>2. lastSeen'[x][NameOf[p]] # NotTracked
        <4>1. CASE x = n
          BY <1>5, <2>4, <3>1, <4>1, NameAssumption
        <4>2. CASE x # n
          BY <1>2, <2>2, <2>4, <4>2 DEF Placed, SeriesPlaced
        <4> QED
          BY <4>1, <4>2
      <3> QED
        BY <1>2, <2>2, <2>4, <3>2 DEF Placed
    <2> QED
      BY <2>2, <2>3, <2>4 DEF Placed
  <1>8. polling' = "on"
    BY <1>2 DEF SafeStart, StartedInOrder
  <1> QED
    BY <1>2, <1>4, <1>6, <1>7, <1>8 DEF SeriesPlaced, SetAll

\* Every step keeps the series where they belong.
LEMMA SeriesPlacedStep ==
  ASSUME SafeStart, SeriesPlaced, [Next]_vars
  PROVE  SeriesPlaced'
  <1>1. CASE Main
    <2>1. CASE NewNodeCollector
      <3>1. series = {} /\ series' = {} /\ lastSeen' = lastSeen
        BY <2>1, PlacesInOrder DEF SafeStart, StartedInOrder, StepReached, SeriesPlaced, NewNodeCollector
      <3> QED
        BY <3>1 DEF SeriesPlaced
    <2>2. CASE StartPolling
      BY <2>2, SeriesPlacedKept DEF StartPolling, data
    <2>3. CASE ~NewNodeCollector /\ ~StartPolling
      BY <1>1, <2>3, SeriesPlacedKept
         DEF Main, SetLogger, SetK8sClient, NewPodCollector, StartNodeWatch, ListenAndServe,
             goroutines, data
    <2> QED
      BY <2>1, <2>2, <2>3
  <1>2. ASSUME NEW n \in Nodes, Scrape(n)
        PROVE  SeriesPlaced'
    BY <1>2, ScrapeSeriesPlaced
  <1>3. ASSUME NEW n \in Nodes, QueryFails(n) \/ NodeDeleted(n)
        PROVE  SeriesPlaced'
    BY <1>3, EvictSeriesPlaced DEF QueryFails, NodeDeleted, ScrapeEnds, goroutines
  <1>4. ASSUME NEW n \in Nodes, NodeReady(n)
        PROVE  SeriesPlaced'
    BY <1>4, SeriesPlacedKept DEF NodeReady, goroutines
  <1>5. ASSUME NEW q \in PodNames, PodUpdated(q) \/ PodDeleted(q)
        PROVE  SeriesPlaced'
    BY <1>5, SeriesPlacedKept
       DEF PodUpdated, PodDeleted, EvictPodsByName, DeletePartialMatch, goroutines
  <1>6. CASE PodsListed \/ ListFails \/ WaitEnds \/ WaitTimesOut \/ Poll
    BY <1>6, SeriesPlacedKept DEF PodsListed, ListFails, WaitEnds, WaitTimesOut, Poll, goroutines, data
  <1>9. ASSUME NEW n \in Nodes, QueryGarbled(n)
        PROVE  SeriesPlaced'
    BY <1>9, SeriesPlacedKept DEF QueryGarbled, ScrapeEnds
  <1>7. ASSUME NEW n \in Nodes, NEW p \in Pods, NEW e \in Reports[p] \cup {Absent},
               SummaryChanges(n, p, e)
        PROVE  SeriesPlaced'
    BY <1>7, SeriesPlacedKept DEF SummaryChanges, goroutines, data
  <1>8. CASE UNCHANGED vars
    BY <1>8, SeriesPlacedKept DEF vars, goroutines, data
  <1> QED
    BY <1>1, <1>2, <1>3, <1>4, <1>5, <1>6, <1>7, <1>8, <1>9 DEF Next

\* The series are where they belong in every reachable state.
LEMMA SeriesPlacedInvariant == Spec => []SeriesPlaced
  <1>1. Init => SeriesPlaced
    BY DEF Init, SeriesPlaced, EmptyTracker, LastSeen, NotTracked
  <1> QED
    BY <1>1, SeriesPlacedStep, SafeStartInvariant, PTL DEF Spec

\* No vec keeps a series of a node through its eviction, whatever the nodes,
\* pods, summaries and flags: between them Node.evict and EvictPodByNode go
\* through every vec that SetMetrics sets, so what an unmonitored node shows
\* was set by a scrape that came after.
THEOREM NodesEvicted == Spec => []EvictedNodeBlank
  <1>1. SeriesPlaced => EvictedNodeBlank
    BY DEF SeriesPlaced, Placed, EvictedNodeBlank
  <1> QED
    BY <1>1, SeriesPlacedInvariant, PTL

\* No pod vec keeps a series of a name its node's tracker has let go of.
THEOREM SeriesTracked == Spec => []EverySeriesTracked
  <1>1. SeriesPlaced => EverySeriesTracked
    BY DEF SeriesPlaced, Placed, OfPod, NamesPod, OfNodeItself, EverySeriesTracked
  <1> QED
    BY <1>1, SeriesPlacedInvariant, PTL
=============================================================================
