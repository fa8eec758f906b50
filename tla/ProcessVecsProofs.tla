------------------------- MODULE ProcessVecsProofs -------------------------
(***************************************************************************)
(* What /metrics shows at any moment is well formed and agrees with itself,*)
(* and each pod vec changes as AtomicScrapes says, for every set of        *)
(* environments, summaries and pod specs, and any number of nodes and pods.*)
(***************************************************************************)
EXTENDS ProcessProofs

(***************************************************************************)
(* What the summaries and lookup hold is what the constants allow.         *)
(***************************************************************************)
DataTyped ==
  /\ reported \in [Nodes -> [Pods -> {Absent} \cup UNION {Reports[p] : p \in Pods}]]
  /\ \A n \in Nodes, p \in Pods : reported[n][p] \in Reports[p] \cup {Absent}
  /\ lookup \in [PodNames -> {Specs[q] : q \in PodNames} \cup {NoData}]

ControlTyped ==
  /\ env \in Environments
  /\ process \in {"running", "exited", "crashed"}
  /\ vecs \subseteq AllVecs
  /\ clients \subseteq {"Clientset", "ClientRaw", "ClientAno"}
  /\ listing \in {"off", "running", "done"}
  /\ watching \in BOOLEAN
  /\ polling \in {"off", "waiting", "on"}
  /\ monitored \subseteq Nodes \cup {NoNode}
  /\ late \subseteq Nodes

\* The summaries and lookup keep their types.
LEMMA DataTypedStep ==
  ASSUME DataTyped, [Next]_vars
  PROVE  DataTyped'
  <1>1. ASSUME UNCHANGED <<reported, lookup>>
        PROVE  DataTyped'
    BY <1>1 DEF DataTyped
  <1>2. CASE Main
    BY <1>1, <1>2 DEF Main, SetLogger, SetK8sClient, NewNodeCollector, NewPodCollector,
                      StartNodeWatch, StartPolling, ListenAndServe, data
  <1>3. CASE PodsListed
    BY <1>3, SpecsAssumption DEF PodsListed, DataTyped
  <1>4. ASSUME NEW q \in PodNames, PodUpdated(q) \/ PodDeleted(q)
        PROVE  DataTyped'
    BY <1>4 DEF PodUpdated, PodDeleted, DataTyped
  <1>5. ASSUME NEW n \in Nodes, Scrape(n)
        PROVE  DataTyped'
    <2>1. UNCHANGED <<reported, lookup>>
      BY <1>5, ScrapeIsStep DEF ScrapeStep, ScrapeEnds
    <2> QED
      BY <1>1, <2>1
  <1>6. ASSUME NEW n \in Nodes,
               NodeReady(n) \/ NodeDeleted(n) \/ QueryFails(n) \/ QueryGarbled(n)
        PROVE  DataTyped'
    BY <1>1, <1>6 DEF NodeReady, NodeDeleted, QueryFails, QueryGarbled, ScrapeEnds
  <1>7. ASSUME NEW n \in Nodes, NEW p \in Pods, NEW e \in Reports[p] \cup {Absent},
               SummaryChanges(n, p, e)
        PROVE  DataTyped'
    <2>1. lookup' = lookup /\ reported' = [reported EXCEPT ![n][p] = e]
      BY <1>7 DEF SummaryChanges, data
    <2>2. e \in {Absent} \cup UNION {Reports[r] : r \in Pods}
      <3>1. Reports[p] \in {Reports[r] : r \in Pods}
        OBVIOUS
      <3> QED
        BY <3>1
    <2>3. reported' \in [Nodes -> [Pods -> {Absent} \cup UNION {Reports[r] : r \in Pods}]]
      BY <2>1, <2>2 DEF DataTyped
    <2>4. \A m \in Nodes, r \in Pods : reported'[m][r] = IF m = n /\ r = p THEN e ELSE reported[m][r]
      BY <2>1 DEF DataTyped
    <2> QED
      BY <2>1, <2>3, <2>4 DEF DataTyped
  <1>8. CASE ListFails \/ WaitEnds \/ WaitTimesOut \/ Poll \/ UNCHANGED vars
    BY <1>1, <1>8 DEF ListFails, WaitEnds, WaitTimesOut, Poll, data, vars
  <1> QED
    BY <1>2, <1>3, <1>4, <1>5, <1>6, <1>7, <1>8 DEF Next

\* So does everything else that main and the goroutines work on.
LEMMA ControlTypedStep ==
  ASSUME ControlTyped, [Next]_vars
  PROVE  ControlTyped'
  <1> USE DEF ControlTyped, boot, goroutines, data
  <1>1. CASE Main
    <2> USE DEF Proceed
    <2>1. CASE SetLogger \/ SetK8sClient \/ StartNodeWatch \/ StartPolling \/ ListenAndServe
      BY <2>1 DEF SetLogger, SetK8sClient, StartNodeWatch, StartPolling, ListenAndServe
    <2>2. CASE NewNodeCollector
      <3>1. env.currentNode \in Nodes \cup {NoNode}
        BY EnvironmentsAssumption
      <3> QED
        BY <2>2, <3>1 DEF NewNodeCollector, RegisteredWithNode, AllVecs
    <2>3. CASE NewPodCollector
      BY <2>3 DEF NewPodCollector, AllVecs
    <2> QED
      BY <1>1, <2>1, <2>2, <2>3 DEF Main
  <1>2. CASE PodsListed \/ ListFails \/ WaitEnds \/ WaitTimesOut \/ Poll \/ UNCHANGED vars
    BY <1>2 DEF PodsListed, ListFails, WaitEnds, WaitTimesOut, Poll, Dereference, vars
  <1>3. ASSUME NEW q \in PodNames, PodUpdated(q) \/ PodDeleted(q)
        PROVE  ControlTyped'
    BY <1>3 DEF PodUpdated, PodDeleted, Dereference
  <1>4. ASSUME NEW n \in Nodes, Scrape(n)
        PROVE  ControlTyped'
    <2>1. PICK gone, new : ScrapeStep(n, gone, new)
      BY <1>4, ScrapeIsStep
    <2>2. late' \subseteq Nodes /\ process' \in {"running", "exited", "crashed"}
      BY <2>1 DEF ScrapeStep, Dereference
    <2> QED
      BY <2>1, <2>2 DEF ScrapeStep, ScrapeEnds
  <1>5. ASSUME NEW n \in Nodes,
               NodeReady(n) \/ NodeDeleted(n) \/ QueryFails(n) \/ QueryGarbled(n)
        PROVE  ControlTyped'
    BY <1>5 DEF NodeReady, NodeDeleted, QueryFails, QueryGarbled, ScrapeEnds, Evict, Dereference
  <1>6. ASSUME NEW n \in Nodes, NEW p \in Pods, NEW e \in Reports[p] \cup {Absent},
               SummaryChanges(n, p, e)
        PROVE  ControlTyped'
    BY <1>6 DEF SummaryChanges
  <1> QED
    BY <1>1, <1>2, <1>3, <1>4, <1>5, <1>6 DEF Next

\* Summaries and specs are well formed wherever SetMetrics finds them.
LEMMA DataWellFormed ==
  ASSUME DataTyped, NEW n \in Nodes, NEW p \in Measured(n)
  PROVE  IsEntry(reported[n][p]) /\ IsContainerData(lookup[NameOf[p]])
  <1>1. p \in Pods /\ reported[n][p] \in Reports[p]
    BY DEF Measured, Present, DataTyped
  <1>2. IsContainerData(NoData)
    BY DEF IsContainerData, NoData
  <1>3. lookup[NameOf[p]] \in {Specs[q] : q \in PodNames} \cup {NoData}
    BY <1>1, NameAssumption DEF DataTyped
  <1> QED
    BY <1>1, <1>2, <1>3, ReportsAssumption, SpecsAssumption

-----------------------------------------------------------------------------
(***************************************************************************)
(* The series a scrape sets.                                               *)
(***************************************************************************)

\* What it sets on the pod vecs, SetMetrics says of one of the pods measured.
LEMMA PodNewSays ==
  ASSUME NEW n, NEW s \in PodNew(n)
  PROVE  \E p \in Measured(n) :
           /\ s \in SetMetrics(flags, lookup[NameOf[p]], p, n, reported[n][p])
           /\ Says(s, lookup[NameOf[p]], p, n, reported[n][p])
           /\ OfPod(s, p, n)
  <1>1. PICK p \in Measured(n) : s \in SetMetrics(flags, lookup[NameOf[p]], p, n, reported[n][p])
    BY DEF PodNew
  <1>2. Says(s, lookup[NameOf[p]], p, n, reported[n][p])
    BY <1>1, SetMetricsSays
  <1>3. OfPod(s, p, n)
    BY <1>2, SaysOfPod DEF OfPod
  <1> QED
    BY <1>1, <1>2, <1>3

\* The three parts of what it sets are on different vecs.
LEMMA NewSeriesApart ==
  ASSUME NEW n, NEW nodeNew, NodeNew(n, nodeNew)
  PROVE  /\ \A s \in PodNew(n) : s.vec \in PodVecs
         /\ \A s \in nodeNew : s.vec \in NodeVecs
         /\ \A s \in RateSeries(flags, n) : s.vec = RateVec
  <1>1. ASSUME NEW s \in PodNew(n)
        PROVE  s.vec \in PodVecs
    BY PodNewSays DEF OfPod
  <1>2. ASSUME NEW s \in nodeNew
        PROVE  s.vec \in NodeVecs
    <2>1. PICK figures : nodeNew = NodeSeries(flags, n, figures)
      BY <1>2 DEF NodeNew
    <2> QED
      BY <1>2, <2>1, NodeSeriesTyped
  <1>3. ASSUME NEW s \in RateSeries(flags, n)
        PROVE  s.vec = RateVec
    BY <1>3 DEF RateSeries, Series
  <1> QED
    BY <1>1, <1>2, <1>3

\* A scrape sets one value at most for each vec and labels: pods differ in
\* their labels, and so do the families and what a family tells apart.
LEMMA NewSeriesOnce ==
  ASSUME DataTyped, NEW n \in Nodes, NEW new, NewSeries(n, new)
  PROVE  OneValue(new)
  <1>1. PICK nodeNew : NodeNew(n, nodeNew) /\ new = PodNew(n) \cup nodeNew \cup RateSeries(flags, n)
    BY DEF NewSeries
  <1>2. /\ \A s \in PodNew(n) : s.vec \in PodVecs
        /\ \A s \in nodeNew : s.vec \in NodeVecs
        /\ \A s \in RateSeries(flags, n) : s.vec = RateVec
    BY <1>1, NewSeriesApart
  <1>3. OneValue(PodNew(n))
    <2> SUFFICES ASSUME NEW s \in PodNew(n), NEW x \in PodNew(n), s.vec = x.vec, s.labels = x.labels
                 PROVE  s = x
      BY DEF OneValue
    <2>1. PICK p \in Measured(n) : Says(s, lookup[NameOf[p]], p, n, reported[n][p])
      BY PodNewSays
    <2>2. PICK r \in Measured(n) : Says(x, lookup[NameOf[r]], r, n, reported[n][r])
      BY PodNewSays
    <2>3. p = r
      <3>1. NamesPod(s.labels, p, n) /\ NamesPod(x.labels, r, n)
        BY <2>1, <2>2, SaysOfPod
      <3> QED
        BY <3>1 DEF NamesPod
    <2> QED
      BY <2>1, <2>2, <2>3, DataWellFormed, SaysOnce
  <1>4. OneValue(nodeNew)
    <2> SUFFICES ASSUME NEW figures, nodeNew = NodeSeries(flags, n, figures)
                 PROVE  OneValue(nodeNew)
      BY <1>1 DEF NodeNew, OneValue
    <2> QED
      BY NodeSeriesAre DEF OneValue, Series
  <1>5. OneValue(RateSeries(flags, n))
    BY DEF RateSeries, OneValue
  <1> QED
    BY <1>1, <1>2, <1>3, <1>4, <1>5, NodeVecsApart DEF OneValue

\* Every value it sets is in range.
LEMMA NewSeriesInRange ==
  ASSUME DataTyped, NEW n \in Nodes, NEW new, NewSeries(n, new), NEW s \in new
  PROVE  InRange(s)
  <1>1. PICK nodeNew : NodeNew(n, nodeNew) /\ new = PodNew(n) \cup nodeNew \cup RateSeries(flags, n)
    BY DEF NewSeries
  <1>2. CASE s \in PodNew(n)
    <2>1. PICK p \in Measured(n) : Says(s, lookup[NameOf[p]], p, n, reported[n][p])
      BY <1>2, PodNewSays
    <2> QED
      BY <2>1, DataWellFormed, SaysInRange
  <1>3. CASE s \in nodeNew
    <2>1. PICK p \in Measured(n) : nodeNew = NodeSeries(flags, n, reported[n][p].figures)
      BY <1>1, <1>3 DEF NodeNew
    <2>2. reported[n][p].figures \in FsStats
      BY DataWellFormed DEF IsEntry
    <2> QED
      BY <1>3, <2>1, <2>2, NodeSeriesTyped
  <1>4. CASE s \in RateSeries(flags, n)
    <2>1. s.value = NaN
      BY <1>4, RateSeriesTyped
    <2> QED
      BY <2>1 DEF InRange
  <1> QED
    BY <1>1, <1>2, <1>3, <1>4

\* The bytes and the percentage of a rootfs or of logs are set together.
LEMMA NewSeriesTogether ==
  ASSUME NEW n, NEW new, NewSeries(n, new)
  PROVE  SetTogether(new)
  <1>1. PICK nodeNew : NodeNew(n, nodeNew) /\ new = PodNew(n) \cup nodeNew \cup RateSeries(flags, n)
    BY DEF NewSeries
  <1>2. SUFFICES ASSUME NEW s \in new, NEW x \in Scopes, s.vec \in UsageVecs(x)
                 PROVE  \E stats :
                          /\ Series(<<x, "CapacityBytes">>, s.labels, stats.CapacityBytes) \in new
                          /\ Series(<<x, "UsedBytes">>, s.labels, stats.UsedBytes) \in new
                          /\ stats.CapacityBytes > 0 =>
                               Series(<<x, "UsagePercentage">>, s.labels, OfCapacity(stats)) \in new
    BY DEF SetTogether
  <1>3. s.vec \in PodVecs
    BY <1>2 DEF UsageVecs, PodVecs, FsVecs, BytesFigures, Scopes
  <1>4. s \in PodNew(n)
    BY <1>1, <1>3, NewSeriesApart, NodeVecsApart
  <1>5. PICK p \in Measured(n) : s \in SetMetrics(flags, lookup[NameOf[p]], p, n, reported[n][p])
    BY <1>4, PodNewSays
  <1> DEFINE podNew == SetMetrics(flags, lookup[NameOf[p]], p, n, reported[n][p])
  <1>6. podNew \subseteq new
    BY <1>1, <1>5 DEF PodNew
  <1>7. PICK stats :
          /\ Series(<<x, "CapacityBytes">>, s.labels, stats.CapacityBytes) \in podNew
          /\ Series(<<x, "UsedBytes">>, s.labels, stats.UsedBytes) \in podNew
          /\ stats.CapacityBytes > 0 =>
               Series(<<x, "UsagePercentage">>, s.labels, OfCapacity(stats)) \in podNew
    BY <1>2, <1>5, UsageSetTogether
  <1> HIDE DEF podNew
  <1> QED
    BY <1>6, <1>7

-----------------------------------------------------------------------------
(***************************************************************************)
(* What is exported agrees with itself.                                    *)
(***************************************************************************)
SeriesAgree ==
  /\ OneValue(series)
  /\ \A s \in series : InRange(s)
  /\ UsageAgrees(series)
  /\ OnlyEnabled(flags, series)
  /\ \A n \in Nodes : NodeAgrees(series, n)

\* Evictions by name and by node go through all the vecs of a rootfs and of
\* logs, so what they leave agrees.
LEMMA EvictionSeriesAgree ==
  ASSUME SeriesAgree, NEW vs, FsVecs \subseteq vs, NEW matches, UNCHANGED env,
         series' = DeletePartialMatch(series, vs, matches)
  PROVE  SeriesAgree'
  <1>1. series' \in SUBSET series
    BY DEF DeletePartialMatch
  <1>2. UsageAgrees(series')
    BY EvictionAgrees DEF SeriesAgree
  <1>3. \A n \in Nodes : NodeAgrees(series', n)
    BY <1>1, FewerAgree DEF SeriesAgree
  <1>4. OneValue(series') /\ OnlyEnabled(flags, series') /\ \A s \in series' : InRange(s)
    BY <1>1 DEF SeriesAgree, OneValue, OnlyEnabled
  <1> QED
    BY <1>2, <1>3, <1>4 DEF SeriesAgree, flags

\* A scrape leaves the series agreeing.
LEMMA ScrapeSeriesAgree ==
  ASSUME DataTyped, SeriesAgree, NEW n \in Nodes, Scrape(n)
  PROVE  SeriesAgree'
  <1>1. PICK gone, new : ScrapeStep(n, gone, new)
    BY ScrapeIsStep
  <1> DEFINE left == EvictPodsByName(series, gone)
  <1>2. NewSeries(n, new) /\ env' = env /\ series' = SetAll(left, new)
    BY <1>1 DEF ScrapeStep, ScrapeEnds
  <1>3. FsVecs \subseteq EvictedByName
    BY DEF EvictedByName, PodVecs
  <1>4. left \in SUBSET series
    BY DEF EvictPodsByName, DeletePartialMatch
  <1>5. UsageAgrees(left)
    BY <1>3, EvictionAgrees DEF SeriesAgree, EvictPodsByName
  <1>6. /\ OneValue(left) /\ OnlyEnabled(flags, left)
        /\ \A m \in Nodes : NodeAgrees(left, m)
    BY <1>4, FewerAgree DEF SeriesAgree, OneValue, OnlyEnabled
  <1>7. OneValue(new) /\ SetTogether(new)
    BY <1>2, NewSeriesOnce, NewSeriesTogether
  <1> HIDE DEF left
  <1>8. OneValue(series') /\ UsageAgrees(series')
    BY <1>2, <1>5, <1>6, <1>7, SetAllOneValue, SetAllAgrees
  <1>9. \A s \in series' : InRange(s)
    <2>1. \A s \in new : InRange(s)
      BY <1>2, NewSeriesInRange
    <2> QED
      BY <1>2, <1>4, <2>1 DEF SetAll, SeriesAgree
  <1>10. PICK nodeNew : NodeNew(n, nodeNew) /\ new = PodNew(n) \cup nodeNew \cup RateSeries(flags, n)
    BY <1>2 DEF NewSeries
  <1>11. \A s \in new : s.vec \in NodeVecs => s \in nodeNew
    BY <1>10, NewSeriesApart, NodeVecsApart
  <1>12. nodeNew = {} \/ \E figures : nodeNew = NodeSeries(flags, n, figures)
    BY <1>10 DEF NodeNew
  <1>13. nodeNew \subseteq new
    BY <1>10
  <1>14. ASSUME NEW m, NodeAgrees(left, m)
         PROVE  NodeAgrees(series', m) /\ OnlyEnabled(flags, series')
    BY <1>2, <1>6, <1>11, <1>12, <1>13, <1>14, NodeSetAgrees
  <1>15. OnlyEnabled(flags, series')
    BY <1>6, <1>14
  <1> QED
    BY <1>2, <1>6, <1>8, <1>9, <1>14, <1>15 DEF SeriesAgree, flags

\* Every step does.
LEMMA SeriesAgreeStep ==
  ASSUME DataTyped, SeriesAgree, [Next]_vars
  PROVE  SeriesAgree'
  <1>1. ASSUME UNCHANGED <<env, series>>
        PROVE  SeriesAgree'
    BY <1>1 DEF SeriesAgree, flags
  <1>2. CASE Main
    BY <1>1, <1>2 DEF Main, SetLogger, SetK8sClient, NewNodeCollector, NewPodCollector,
                      StartNodeWatch, StartPolling, ListenAndServe, data
  <1>3. CASE PodsListed \/ ListFails \/ WaitEnds \/ WaitTimesOut \/ Poll \/ UNCHANGED vars
    BY <1>1, <1>3 DEF PodsListed, ListFails, WaitEnds, WaitTimesOut, Poll, vars, data
  <1>4. ASSUME NEW q \in PodNames, PodUpdated(q)
        PROVE  SeriesAgree'
    BY <1>1, <1>4 DEF PodUpdated
  <1>5. ASSUME NEW q \in PodNames, PodDeleted(q)
        PROVE  SeriesAgree'
    <2>1. FsVecs \subseteq EvictedByName
      BY DEF EvictedByName, PodVecs
    <2> QED
      BY <1>5, <2>1, EvictionSeriesAgree DEF PodDeleted, EvictPodsByName
  <1>6. ASSUME NEW n \in Nodes, Scrape(n)
        PROVE  SeriesAgree'
    BY <1>6, ScrapeSeriesAgree
  <1>7. ASSUME NEW n \in Nodes, NodeReady(n) \/ QueryGarbled(n)
        PROVE  SeriesAgree'
    BY <1>1, <1>7 DEF NodeReady, QueryGarbled, ScrapeEnds
  <1>8. ASSUME NEW n \in Nodes, NodeDeleted(n) \/ QueryFails(n)
        PROVE  SeriesAgree'
    <2>1. FsVecs \subseteq EvictedWithNode(flags) \cup EvictedByNode
      BY DEF EvictedByNode, PodVecs
    <2> QED
      BY <1>8, <2>1, EvictionSeriesAgree
         DEF NodeDeleted, QueryFails, ScrapeEnds, Evict, EvictNode
  <1>9. ASSUME NEW n \in Nodes, NEW p \in Pods, NEW e \in Reports[p] \cup {Absent},
               SummaryChanges(n, p, e)
        PROVE  SeriesAgree'
    BY <1>1, <1>9 DEF SummaryChanges, data
  <1> QED
    BY <1>2, <1>3, <1>4, <1>5, <1>6, <1>7, <1>8, <1>9 DEF Next

\* Types and agreement hold in every reachable state.
LEMMA TypesInvariant == Spec => [](DataTyped /\ ControlTyped /\ SeriesAgree)
  <1>1. Init => DataTyped
    BY DEF Init, DataTyped
  <1>2. Init => ControlTyped
    BY DEF Init, ControlTyped
  <1>3. Init => SeriesAgree
    BY DEF Init, SeriesAgree, OneValue, UsageAgrees, OnlyEnabled, NodeAgrees, ShownIn
  <1> QED
    BY <1>1, <1>2, <1>3, DataTypedStep, ControlTypedStep, SeriesAgreeStep, PTL DEF Spec

\* Everything is well formed in every reachable state.  Of the series: each has
\* the labels its vec was registered with (GaugeVec.With panics otherwise) and
\* a value in range, capped where the code caps it, and no two series of a vec
\* have the same labels.
THEOREM TypeCorrect == Spec => []TypeOK
  <1>1. DataTyped /\ ControlTyped /\ SeriesAgree /\ SafeStart /\ SeriesPlaced => TypeOK
    <2> SUFFICES ASSUME DataTyped, ControlTyped, SeriesAgree, SafeStart, SeriesPlaced
                 PROVE  TypeOK
      OBVIOUS
    <2>1. pc \in Nat /\ tasks \in [Nodes -> Nat] /\ lastSeen \in [Nodes -> LastSeen]
      BY DEF SafeStart, StartedInOrder, SeriesPlaced
    <2>2. ASSUME NEW s \in series
          PROVE  /\ s.vec \in AllVecs
                 /\ DOMAIN s.labels = LabelNames(s.vec)
                 /\ s.value \in (IF s.vec[2] \in Capped THEN 0..100 ELSE Nat) \cup {NaN}
      <3>1. Placed(s) /\ InRange(s)
        BY DEF SeriesPlaced, SeriesAgree
      <3> QED
        BY <3>1 DEF Placed, OfPod, OfNodeItself, EvictedWithNode, AllVecs, InRange
    <2>3. \A s, x \in series : s.vec = x.vec /\ s.labels = x.labels => s = x
      BY DEF SeriesAgree, OneValue
    <2> QED
      BY <2>1, <2>2, <2>3 DEF DataTyped, ControlTyped, TypeOK
  <1> QED
    BY <1>1, TypesInvariant, SafeStartInvariant, SeriesPlacedInvariant, PTL

\* Whatever the summaries say and however scrapes, evictions and restarts
\* interleave, a usage percentage shown is that of the bytes shown beside it.
THEOREM PercentagesRight == Spec => []PercentagesAgree
  <1>1. SeriesAgree /\ SeriesPlaced => PercentagesAgree
    <2> SUFFICES ASSUME SeriesAgree, SeriesPlaced
                 PROVE  PercentagesAgree
      OBVIOUS
    <2>1. \A vec, labels : Shown(vec, labels) = ShownIn(series, vec, labels)
      BY DEF Shown, ShownIn
    <2>2. ASSUME NEW s \in series, s.vec[1] \in {"Rootfs", "Logs"}, s.vec[2] = "CapacityBytes",
                 s.value > 0
          PROVE  Shown(<<s.vec[1], "UsagePercentage">>, s.labels) =
                   {(u * 100) \div s.value : u \in Shown(<<s.vec[1], "UsedBytes">>, s.labels)}
      <3>1. s.vec = <<s.vec[1], "CapacityBytes">>
        <4>1. Placed(s)
          BY DEF SeriesPlaced
        <4> QED
          BY <2>2, <4>1
             DEF Placed, OfPod, OfNodeItself, EvictedWithNode, NodeVecs, RateVec,
                 PodVecs, FsVecs, InodesVecs, LookupVecs
      <3> QED
        BY <2>1, <2>2, <3>1 DEF SeriesAgree, UsageAgrees, Scopes
    <2>3. \A n \in Nodes : NodeAgrees(series, n)
      BY DEF SeriesAgree
    <2> QED
      BY <2>1, <2>2, <2>3 DEF PercentagesAgree, NodeAgrees
  <1> QED
    BY <1>1, TypesInvariant, SeriesPlacedInvariant, PTL

-----------------------------------------------------------------------------
(***************************************************************************)
(* One vec at a time.                                                      *)
(***************************************************************************)
ShownBy(S, vec, n) ==
  {p \in Pods : \E s \in S :
     s.vec = vec /\ s.labels.pod_namespace = p /\ s.labels.node_name = n}

VecStep(vec, n) ==
  [\/ OnVec(vec, n)!Next
   \/ \E names \in SUBSET PodNames : OnVec(vec, n)!LoseNames(names)]_<<lastSeen[n], ShownOn(vec, n)>>

\* What the steps below do to a vec is a scrape of AtomicScrapes,
LEMMA VecScrape ==
  ASSUME NEW vec, NEW n, NEW names \in SUBSET PodNames, NEW pods \in SUBSET Pods,
         \A p \in pods : NameOf[p] \in names,
         lastSeen[n]' = AfterScrape(lastSeen[n], names),
         ShownOn(vec, n)' = {p \in ShownOn(vec, n) :
                               NameOf[p] \notin StaleNames(lastSeen[n], names)} \cup pods
  PROVE  VecStep(vec, n)
  <1>1. OnVec(vec, n)!StaleNames(lastSeen[n], names) = StaleNames(lastSeen[n], names)
    BY DEF OnVec!StaleNames, StaleNames, OnVec!ReachesTolerance, ReachesTolerance,
           OnVec!NotTracked, NotTracked, OnVec!scrapeMissTolerance, scrapeMissTolerance
  <1>2. OnVec(vec, n)!AfterScrape(lastSeen[n], names) = AfterScrape(lastSeen[n], names)
    BY <1>1 DEF OnVec!AfterScrape, AfterScrape, OnVec!Reset, Reset, OnVec!NotTracked, NotTracked
  <1>3. OnVec(vec, n)!Scrape(names, pods)
    BY <1>1, <1>2 DEF OnVec!Scrape, OnVec!Without
  <1> QED
    BY <1>3 DEF VecStep, OnVec!Next

\* or an eviction,
LEMMA VecEviction ==
  ASSUME NEW vec, NEW n, lastSeen[n]' = EmptyTracker, ShownOn(vec, n)' = {}
  PROVE  VecStep(vec, n)
  BY DEF VecStep, OnVec!Next, OnVec!EvictNode, OnVec!EmptyTracker, EmptyTracker,
         OnVec!NotTracked, NotTracked

\* or a loss of names.
LEMMA VecLoss ==
  ASSUME NEW vec, NEW n, NEW names \in SUBSET PodNames, lastSeen[n]' = lastSeen[n],
         ShownOn(vec, n)' = {p \in ShownOn(vec, n) : NameOf[p] \notin names}
  PROVE  VecStep(vec, n)
  BY DEF VecStep, OnVec!LoseNames, OnVec!Without

\* On a pod vec the labels say whose a series is.
LEMMA PlacedOnPodVec ==
  ASSUME SeriesPlaced, NEW s \in series, s.vec \in PodVecs
  PROVE  /\ s.labels.pod_namespace \in Pods
         /\ s.labels.pod_name = NameOf[s.labels.pod_namespace]
         /\ {"pod_name", "node_name"} \subseteq DOMAIN s.labels
  BY DEF SeriesPlaced, Placed, OfPod, OfNodeItself, NamesPod

\* Evicting names takes away the pods that have them, on every pod vec and node.
LEMMA NamesEvictedShown ==
  ASSUME SeriesPlaced, NEW vec \in PodVecs, NEW n, NEW names
  PROVE  ShownBy(EvictPodsByName(series, names), vec, n) =
           {p \in ShownOn(vec, n) : NameOf[p] \notin names}
  <1>1. ASSUME NEW s \in series, s.vec = vec
        PROVE  s \in EvictPodsByName(series, names)
                 <=> NameOf[s.labels.pod_namespace] \notin names
    BY <1>1, PlacedOnPodVec, NamesEvicted
  <1>2. EvictPodsByName(series, names) \subseteq series
    BY DEF EvictPodsByName, DeletePartialMatch
  <1> QED
    BY <1>1, <1>2 DEF ShownBy, ShownOn

\* Evicting a node blanks it on every pod vec, and leaves the others alone.
LEMMA NodeEvictedShown ==
  ASSUME SeriesPlaced, NEW vec \in PodVecs, NEW n, NEW m
  PROVE  ShownBy(EvictNode(flags, series, n), vec, m) =
           IF m = n THEN {} ELSE ShownOn(vec, m)
  <1>1. ASSUME NEW s \in series, s.vec = vec
        PROVE  s \in EvictNode(flags, series, n) <=> s.labels.node_name # n
    BY <1>1, PlacedOnPodVec, NodeEvicted
  <1>2. EvictNode(flags, series, n) \subseteq series
    BY DEF EvictNode, DeletePartialMatch
  <1> QED
    BY <1>1, <1>2 DEF ShownBy, ShownOn

\* A value that is overwritten is still shown: what SetAll leaves out, new has
\* under the same labels.
LEMMA SetAllShown ==
  ASSUME NEW S, NEW new, NEW vec, NEW n
  PROVE  ShownBy(SetAll(S, new), vec, n) = ShownBy(S, vec, n) \cup ShownBy(new, vec, n)
  <1>1. ASSUME NEW s \in S
        PROVE  \E x \in SetAll(S, new) : x.vec = s.vec /\ x.labels = s.labels
    BY DEF SetAll
  <1>2. new \subseteq SetAll(S, new) /\ SetAll(S, new) \subseteq S \cup new
    BY DEF SetAll
  <1>3. ShownBy(S, vec, n) \subseteq ShownBy(SetAll(S, new), vec, n)
    BY <1>1 DEF ShownBy
  <1> QED
    BY <1>2, <1>3 DEF ShownBy

\* What a scrape of n sets on a pod vec is on n, of pods the summary names.
LEMMA NewSeriesShown ==
  ASSUME NEW n, NEW new, NewSeries(n, new), NEW vec \in PodVecs, NEW m
  PROVE  /\ m # n => ShownBy(new, vec, m) = {}
         /\ \A p \in ShownBy(new, vec, m) : NameOf[p] \in Names(Present(n))
  <1>1. ASSUME NEW s \in new, s.vec = vec
        PROVE  s.labels.node_name = n /\ s.labels.pod_namespace \in Present(n)
    <2>1. (\E p \in Measured(n) : OfPod(s, p, n)) \/ OfNodeItself(flags, s, n)
      BY NewSeriesOwned
    <2> QED
      BY <1>1, <2>1 DEF OfPod, OfNodeItself, NamesPod, Measured
  <1> QED
    BY <1>1 DEF ShownBy, Names

\* A scrape of n is a scrape of each vec on n, and a loss of names elsewhere.
LEMMA ScrapeVecStep ==
  ASSUME SeriesPlaced, NEW n \in Nodes, Scrape(n), NEW vec \in PodVecs, NEW m \in Nodes
  PROVE  VecStep(vec, m)
  <1>1. PICK gone, new : ScrapeStep(n, gone, new)
    BY ScrapeIsStep
  <1> DEFINE names == Names(Present(n))
             set   == ShownBy(new, vec, m)
  <1>2. /\ gone = StaleNames(lastSeen[n], names)
        /\ lastSeen' = [lastSeen EXCEPT ![n] = AfterScrape(lastSeen[n], names)]
        /\ series' = SetAll(EvictPodsByName(series, gone), new)
        /\ NewSeries(n, new)
    BY <1>1 DEF ScrapeStep
  <1>3. ShownOn(vec, m)' = {p \in ShownOn(vec, m) : NameOf[p] \notin gone} \cup set
    <2>1. ShownOn(vec, m)' = ShownBy(series', vec, m)
      BY DEF ShownOn, ShownBy
    <2> QED
      BY <1>2, <2>1, SetAllShown, NamesEvictedShown
  <1>4. names \in SUBSET PodNames /\ gone \in SUBSET PodNames
    BY <1>2, NameAssumption DEF Names, Present, StaleNames
  <1>5. set \in SUBSET Pods /\ \A p \in set : NameOf[p] \in names
    BY <1>2, NewSeriesShown DEF ShownBy
  <1> HIDE DEF names, set
  <1>6. CASE m = n
    <2>1. lastSeen[m]' = AfterScrape(lastSeen[m], names)
      BY <1>2, <1>6 DEF SeriesPlaced
    <2>2. ShownOn(vec, m)' = {p \in ShownOn(vec, m) :
                                NameOf[p] \notin StaleNames(lastSeen[m], names)} \cup set
      BY <1>2, <1>3, <1>6
    <2> QED
      BY <1>4, <1>5, <2>1, <2>2, VecScrape
  <1>7. CASE m # n
    <2>1. lastSeen[m]' = lastSeen[m]
      BY <1>2, <1>7 DEF SeriesPlaced
    <2>2. set = {}
      BY <1>2, <1>7, NewSeriesShown DEF set
    <2> QED
      BY <1>3, <1>4, <2>1, <2>2, VecLoss
  <1> QED
    BY <1>6, <1>7

\* An eviction of n is an eviction of each vec on n, and nothing elsewhere.
LEMMA EvictVecStep ==
  ASSUME SeriesPlaced, NEW n \in Nodes, Evict(n), NEW vec \in PodVecs, NEW m \in Nodes
  PROVE  VecStep(vec, m)
  <1>1. ShownOn(vec, m)' = IF m = n THEN {} ELSE ShownOn(vec, m)
    <2>1. ShownOn(vec, m)' = ShownBy(series', vec, m)
      BY DEF ShownOn, ShownBy
    <2> QED
      BY <2>1, NodeEvictedShown DEF Evict
  <1>2. lastSeen[m]' = IF m = n THEN EmptyTracker ELSE lastSeen[m]
    BY DEF Evict, SeriesPlaced
  <1>3. CASE m = n
    BY <1>1, <1>2, <1>3, VecEviction
  <1>4. CASE m # n
    BY <1>1, <1>2, <1>4 DEF VecStep
  <1> QED
    BY <1>3, <1>4

\* Every step is one of these on every vec and node, or leaves it alone.
LEMMA NextVecStep ==
  ASSUME SeriesPlaced, [Next]_vars, NEW vec \in PodVecs, NEW m \in Nodes
  PROVE  VecStep(vec, m)
  <1>1. ASSUME UNCHANGED <<lastSeen, series>>
        PROVE  VecStep(vec, m)
    BY <1>1 DEF VecStep, ShownOn
  <1>2. CASE Main
    BY <1>1, <1>2 DEF Main, SetLogger, SetK8sClient, NewNodeCollector, NewPodCollector,
                      StartNodeWatch, StartPolling, ListenAndServe, data
  <1>3. CASE PodsListed \/ ListFails \/ WaitEnds \/ WaitTimesOut \/ Poll \/ UNCHANGED vars
    BY <1>1, <1>3 DEF PodsListed, ListFails, WaitEnds, WaitTimesOut, Poll, vars, data
  <1>4. ASSUME NEW q \in PodNames, PodUpdated(q)
        PROVE  VecStep(vec, m)
    BY <1>1, <1>4 DEF PodUpdated
  <1>5. ASSUME NEW q \in PodNames, PodDeleted(q)
        PROVE  VecStep(vec, m)
    <2>1. lastSeen' = lastSeen /\ series' = EvictPodsByName(series, {q})
      BY <1>5 DEF PodDeleted
    <2>2. ShownOn(vec, m)' = ShownBy(series', vec, m)
      BY DEF ShownOn, ShownBy
    <2>3. ShownOn(vec, m)' = {p \in ShownOn(vec, m) : NameOf[p] \notin {q}}
      BY <2>1, <2>2, NamesEvictedShown
    <2>4. {q} \in SUBSET PodNames /\ lastSeen[m]' = lastSeen[m]
      BY <1>5, <2>1
    <2> QED
      BY <2>3, <2>4, VecLoss
  <1>6. ASSUME NEW n \in Nodes, Scrape(n)
        PROVE  VecStep(vec, m)
    BY <1>6, ScrapeVecStep
  <1>7. ASSUME NEW n \in Nodes, NodeReady(n) \/ QueryGarbled(n)
        PROVE  VecStep(vec, m)
    BY <1>1, <1>7 DEF NodeReady, QueryGarbled, ScrapeEnds
  <1>8. ASSUME NEW n \in Nodes, NodeDeleted(n) \/ QueryFails(n)
        PROVE  VecStep(vec, m)
    BY <1>8, EvictVecStep DEF NodeDeleted, QueryFails
  <1>9. ASSUME NEW n \in Nodes, NEW p \in Pods, NEW e \in Reports[p] \cup {Absent},
               SummaryChanges(n, p, e)
        PROVE  VecStep(vec, m)
    BY <1>1, <1>9 DEF SummaryChanges, data
  <1> QED
    BY <1>2, <1>3, <1>4, <1>5, <1>6, <1>7, <1>8, <1>9 DEF Next

\* Each of the 21 pod vecs implements AtomicScrapes on each node, whatever the
\* summaries, specs, flags and evictions: no vec keeps a series longer, or
\* loses it sooner, than the counts of its node's tracker say.
THEOREM EachVecAtomic == Spec => VecsAtomic
  <1>1. Init => \A vec \in PodVecs, n \in Nodes : OnVec(vec, n)!Init
    BY DEF Init, OnVec!Init, ShownOn, OnVec!EmptyTracker, EmptyTracker, OnVec!NotTracked, NotTracked
  <1>2. SeriesPlaced /\ [Next]_vars =>
          [\A vec \in PodVecs, n \in Nodes :
             [\/ OnVec(vec, n)!Next
              \/ \E names \in SUBSET PodNames :
                   OnVec(vec, n)!LoseNames(names)]_<<lastSeen[n], ShownOn(vec, n)>>]_vars
    BY NextVecStep DEF VecStep
  <1> QED
    BY <1>1, <1>2, SeriesPlacedInvariant, PTL DEF Spec, VecsAtomic

-----------------------------------------------------------------------------
(***************************************************************************)
(* No miss without a summary.                                              *)
(***************************************************************************)

\* A series taken away by name goes with the whole name, on every pod vec.
LEMMA NameGone ==
  ASSUME SeriesPlaced, NEW names, NEW q \in names, NEW x \in EvictPodsByName(series, names),
         x.vec \in PodVecs
  PROVE  x.labels.pod_name # q
  <1>1. x \in series
    BY DEF EvictPodsByName, DeletePartialMatch
  <1> QED
    BY <1>1, PlacedOnPodVec, NamesEvicted

\* A series taken away with its node goes with everything of the node.
LEMMA NodeGone ==
  ASSUME SeriesPlaced, NEW n \in Nodes, Evict(n), NEW s \in series
  PROVE  s \in series' \/ (s.labels.node_name = n /\ NodeBlanked(n)')
  <1>1. \A x \in series : x \in series' <=> x.labels.node_name # n
    BY PlacedEvictable, NodeEvicted DEF SeriesPlaced, Evict
  <1>2. series' \subseteq series /\ n \notin monitored'
    BY DEF Evict, EvictNode, DeletePartialMatch
  <1> QED
    BY <1>1, <1>2 DEF NodeBlanked

\* A scrape takes away a series of a pod that the summary of the series' node
\* names only if it is of another node.
LEMMA ScrapeKeepsReported ==
  ASSUME SeriesPlaced, NEW m \in Nodes, Scrape(m), NEW s \in series, s.vec \in PodVecs,
         reported[s.labels.node_name][s.labels.pod_namespace] # Absent
  PROVE  StillShown(s)' \/ GivenUpElsewhere(s.labels.pod_name, s.labels.node_name)
  <1>1. PICK gone, new : ScrapeStep(m, gone, new)
    BY ScrapeIsStep
  <1> DEFINE names == Names(Present(m))
             n == s.labels.node_name
             q == s.labels.pod_name
  <1>2. /\ gone = StaleNames(lastSeen[m], names)
        /\ lastSeen' = [lastSeen EXCEPT ![m] = AfterScrape(lastSeen[m], names)]
        /\ series' = SetAll(EvictPodsByName(series, gone), new)
    BY <1>1 DEF ScrapeStep
  <1>3. CASE q \notin gone
    <2>1. s \in EvictPodsByName(series, gone)
      BY <1>3, NamesEvicted
    <2>2. \E x \in SetAll(EvictPodsByName(series, gone), new) : x.vec = s.vec /\ x.labels = s.labels
      BY <2>1 DEF SetAll
    <2> QED
      BY <1>2, <2>2 DEF StillShown
  <1>4. CASE q \in gone
    <2>1. /\ q \in PodNames /\ q \notin names
          /\ lastSeen[m][q] # NotTracked /\ AfterScrape(lastSeen[m], names)[q] = NotTracked
      BY <1>2, <1>4 DEF StaleNames, AfterScrape
    <2>2. n # m
      <3>1. s.labels.pod_namespace \in Pods /\ q = NameOf[s.labels.pod_namespace]
        BY PlacedOnPodVec
      <3> QED
        BY <2>1, <3>1 DEF Names, Present
    <2>3. lastSeen'[m][q] = NotTracked
      BY <1>2, <2>1 DEF SeriesPlaced
    <2> QED
      BY <2>1, <2>2, <2>3 DEF GivenUpElsewhere
  <1> QED
    BY <1>3, <1>4

\* Every other step takes away all of a node, all of a name, or nothing.
LEMMA ReportedKeptStep ==
  ASSUME DataTyped, SeriesPlaced, [Next]_vars, NEW s \in series, s.vec \in PodVecs,
         reported[s.labels.node_name][s.labels.pod_namespace] # Absent
  PROVE  StillShown(s)' \/ Justified(s.labels.pod_name, s.labels.node_name)
  <1> DEFINE Goal == StillShown(s)' \/ Justified(s.labels.pod_name, s.labels.node_name)
  <1>1. ASSUME s \in series'
        PROVE  Goal
    BY <1>1 DEF StillShown
  <1>2. CASE Main
    BY <1>1, <1>2 DEF Main, SetLogger, SetK8sClient, NewNodeCollector, NewPodCollector,
                      StartNodeWatch, StartPolling, ListenAndServe, data
  <1>3. CASE PodsListed \/ ListFails \/ WaitEnds \/ WaitTimesOut \/ Poll \/ UNCHANGED vars
    BY <1>1, <1>3 DEF PodsListed, ListFails, WaitEnds, WaitTimesOut, Poll, vars, data
  <1>4. ASSUME NEW q \in PodNames, PodUpdated(q)
        PROVE  Goal
    BY <1>1, <1>4 DEF PodUpdated
  <1>5. ASSUME NEW q \in PodNames, PodDeleted(q)
        PROVE  Goal
    <2>1. /\ lookup' = [lookup EXCEPT ![q] = NoData] /\ lastSeen' = lastSeen
          /\ series' = EvictPodsByName(series, {q})
      BY <1>5 DEF PodDeleted
    <2>2. CASE s.labels.pod_name = q
      <3>1. lookup'[q] = NoData
        BY <2>1 DEF DataTyped
      <3>2. \A x \in series' : x.vec \in PodVecs => x.labels.pod_name # q
        BY <2>1, NameGone
      <3> QED
        BY <2>1, <2>2, <3>1, <3>2 DEF NameBlanked, Justified
    <2>3. CASE s.labels.pod_name # q
      <3>1. s \in series'
        BY <2>1, <2>3, NamesEvicted
      <3> QED
        BY <1>1, <3>1
    <2> QED
      BY <2>2, <2>3
  <1>6. ASSUME NEW n \in Nodes, Scrape(n)
        PROVE  Goal
    BY <1>6, ScrapeKeepsReported DEF Justified
  <1>7. ASSUME NEW n \in Nodes, NodeReady(n) \/ QueryGarbled(n)
        PROVE  Goal
    BY <1>1, <1>7 DEF NodeReady, QueryGarbled
  <1>8. ASSUME NEW n \in Nodes, NodeDeleted(n) \/ QueryFails(n)
        PROVE  Goal
    <2>1. s \in series' \/ (s.labels.node_name = n /\ NodeBlanked(n)')
      BY <1>8, NodeGone DEF NodeDeleted, QueryFails
    <2> QED
      BY <1>1, <2>1 DEF Justified
  <1>9. ASSUME NEW n \in Nodes, NEW p \in Pods, NEW e \in Reports[p] \cup {Absent},
               SummaryChanges(n, p, e)
        PROVE  Goal
    BY <1>1, <1>9 DEF SummaryChanges, data
  <1> QED
    BY <1>2, <1>3, <1>4, <1>5, <1>6, <1>7, <1>8, <1>9 DEF Next

\* A pod that its node's summary still names loses no series to a query that
\* fails to decode, to a late scrape, or to any other step but the eviction of
\* its node, the deletion of its name, or another node's giving up the name.
THEOREM ReportedStay == Spec => ReportedKept
  <1>1. DataTyped /\ SeriesPlaced /\ [Next]_vars =>
          [\A s \in series :
             s.vec \in PodVecs /\ reported[s.labels.node_name][s.labels.pod_namespace] # Absent =>
               StillShown(s)' \/ Justified(s.labels.pod_name, s.labels.node_name)]_vars
    BY ReportedKeptStep
  <1> QED
    BY <1>1, TypesInvariant, SeriesPlacedInvariant, PTL DEF Spec, ReportedKept
=============================================================================
