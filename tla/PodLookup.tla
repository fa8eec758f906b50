----------------------------- MODULE PodLookup -----------------------------
(***************************************************************************)
(* What the exporter knows of pod specs and what it exports from that: the *)
(* lookup map, filled by initGetPodsData and kept up to date by podWatch,  *)
(* and the three families that SetMetrics derives from it (volume usage,   *)
(* volume limit percentage, container limit percentage).                   *)
(*                                                                         *)
(* One node, scraped by one worker; the families that do not depend on     *)
(* lookup, several nodes and overlapping scrapes are in Exporter.          *)
(***************************************************************************)
EXTENDS StaleTracking, Sequences

CONSTANTS
  Specs,             \* the pod specs there are
  NoPod, NoData,     \* no pod; no entry in lookup
  NoName,            \* no name
  ContainerLimits,   \* EPHEMERAL_STORAGE_CONTAINER_LIMIT_PERCENTAGE
  VolumeUsage,       \* EPHEMERAL_STORAGE_CONTAINER_VOLUME_USAGE
  VolumeLimits,      \* EPHEMERAL_STORAGE_CONTAINER_VOLUME_LIMITS_PERCENTAGE
  WatchGaps,         \* the pod watch may lose its connection
  MaxPending         \* bound on undelivered pod notifications

ASSUME FlagAssumption == {ContainerLimits, VolumeUsage, VolumeLimits, WatchGaps} \subseteq BOOLEAN
ASSUME NoNameAssumption == NoName \notin PodNames

Phases  == {"Pending", "Running", "Succeeded"}
Objects == [spec : Specs, phase : Phases]

(***************************************************************************)
(* getContainerData for the containers of a pod.  A spec has containers,   *)
(* of them limited with an ephemeral-storage limit, emptyDirs, of them     *)
(* sized with a size limit, and mounts, pairs of container and volume.     *)
(***************************************************************************)
ContainerData(s) ==
  LET mounts == IF VolumeUsage \/ VolumeLimits
                THEN {m \in s.mounts : m[2] \in s.emptyDirs} ELSE {}
  IN [containers |-> s.containers,
      limited    |-> IF ContainerLimits THEN s.limited ELSE {},
      mounts     |-> mounts,
      sized      |-> {m \in mounts : m[2] \in s.sized}]

\* The label sets SetMetrics sets for a pod, given its entry d in lookup and
\* the volumes in its summary.
VolumeLabels(d, volumes) ==
  IF VolumeUsage THEN {<<"volume", m>> : m \in {x \in d.mounts : x[2] \in volumes}} ELSE {}

VolumeLimitLabels(d, volumes) ==
  IF VolumeLimits
  THEN {<<"volumeLimit", m>> : m \in {x \in d.mounts \cap d.sized : x[2] \in volumes}}
  ELSE {}

LimitLabels(d) ==
  IF ContainerLimits
  THEN {<<"limit", <<c, IF c \in d.limited THEN "container" ELSE "node">>>> : c \in d.containers}
  ELSE {}

Labels(d, volumes) ==
  VolumeLabels(d, volumes) \cup VolumeLimitLabels(d, volumes) \cup LimitLabels(d)

\* NewCollector starts initGetPodsData and podWatch only for the percentages.
LookupEnabled == ContainerLimits \/ VolumeLimits

VARIABLES
  api,        \* the pods the API server has
  boot,       \* how far initGetPodsData and podWatch have come
  listed,     \* pods of the initial list still to be stored in lookup
  seen,       \* the pod informer's store
  events,     \* notifications on their way to the handlers
  evicting,   \* the name DeleteFunc is about to evict
  lookup,     \* the map from pod names to container data
  lastSeen,   \* the node's podTracker
  summary,    \* pods of the summary in hand, their gauges still to be set
  held,       \* the pod SetMetrics works on and what it read from lookup
  series,     \* <<p, l>>: pod p has a series with labels l
  missed,     \* history: names whose pod was replaced between the two lists
  stranded    \* history: names whose series a deletion may not have reached

watchVars  == <<boot, listed, seen, events, evicting>>
scrapeVars == <<lastSeen, summary, held>>
vars == <<api, watchVars, lookup, scrapeVars, series, missed, stranded>>

Notifications ==
  [kind : {"updated", "deleted", "tombstone"}, pod : Pods, object : Objects]

Idle == [pod |-> NoPod, data |-> NoData]

TypeOK ==
  /\ api \in [Pods -> Objects \cup {NoPod}]
  /\ boot \in {"list", "load", "watch"}
  /\ listed \in [Pods -> Objects \cup {NoPod}]
  /\ seen \in [Pods -> Objects \cup {NoPod}]
  /\ events \in Seq(Notifications)
  /\ evicting \in PodNames \cup {NoName}
  /\ lookup \in [PodNames -> {ContainerData(s) : s \in Specs} \cup {NoData}]
  /\ lastSeen \in LastSeen
  /\ summary \in [Pods -> Specs \cup {NoPod}]
  /\ held \in [pod : Pods, data : {ContainerData(s) : s \in Specs} \cup {NoData}] \cup {Idle}
  /\ \A x \in series :
       /\ x[1] \in Pods
       /\ \E s, u \in Specs : x[2] \in Labels(ContainerData(s), u.emptyDirs)
  /\ missed \subseteq PodNames
  /\ stranded \subseteq PodNames

NoPods == [p \in Pods |-> NoPod]

\* The exporter starts, or starts again, in a cluster that has pods already.
Init ==
  /\ api \in [Pods -> Objects \cup {NoPod}]
  /\ boot = "list"
  /\ listed = NoPods
  /\ seen = NoPods
  /\ events = <<>>
  /\ evicting = NoName
  /\ lookup = [q \in PodNames |-> NoData]
  /\ lastSeen = EmptyTracker
  /\ summary = NoPods
  /\ held = Idle
  /\ series = {}
  /\ missed = {}
  /\ stranded = {}

-----------------------------------------------------------------------------
\* The cluster: a pod is created, runs, ends and is deleted.  While the watch
\* is connected the informer sees every one of these changes.
Connected(p) == boot = "watch" /\ ~WatchGaps => seen[p] = api[p]

PodChanges(p, object) ==
  /\ Connected(p)
  /\ api' = [api EXCEPT ![p] = object]
  /\ UNCHANGED <<watchVars, lookup, scrapeVars, series, missed, stranded>>

PodCreated(p, s) ==
  /\ api[p] = NoPod
  /\ PodChanges(p, [spec |-> s, phase |-> "Pending"])

PodRuns(p) ==
  /\ api[p] # NoPod
  /\ api[p].phase = "Pending"
  /\ PodChanges(p, [api[p] EXCEPT !.phase = "Running"])

PodEnds(p) ==
  /\ api[p] # NoPod
  /\ api[p].phase = "Running"
  /\ PodChanges(p, [api[p] EXCEPT !.phase = "Succeeded"])

PodGoes(p) ==
  /\ api[p] # NoPod
  /\ PodChanges(p, NoPod)

Cluster ==
  \E p \in Pods :
    \/ \E s \in Specs : PodCreated(p, s)
    \/ PodRuns(p)
    \/ PodEnds(p)
    \/ PodGoes(p)

-----------------------------------------------------------------------------
\* Mutants of GetPodData and Resync, named for the bug.
EntryKept(p, object) ==
  lookup' = IF object.phase = "Running" /\ lookup[NameOf[p]] = NoData
            THEN [lookup EXCEPT ![NameOf[p]] = ContainerData(object.spec)]
            ELSE lookup
NoResync(p) == p \in {} /\ UNCHANGED vars

\* getPodData: only a running pod gets, or renews, its entry.
GetPodData(p, object) ==
  lookup' = IF object.phase = "Running"
            THEN [lookup EXCEPT ![NameOf[p]] = ContainerData(object.spec)]
            ELSE lookup

\* initGetPodsData: the pages of one list, then getPodData pod by pod.
ListPods ==
  /\ LookupEnabled
  /\ boot = "list"
  /\ listed' = api
  /\ boot' = "load"
  /\ UNCHANGED <<api, seen, events, evicting, lookup, scrapeVars, series, missed, stranded>>

LoadPod(p) ==
  /\ boot = "load"
  /\ listed[p] # NoPod
  /\ GetPodData(p, listed[p])
  /\ listed' = [listed EXCEPT ![p] = NoPod]
  /\ UNCHANGED <<api, boot, seen, events, evicting, scrapeVars, series, missed, stranded>>

\* WaitGroup.Done lets podWatch start its informer, which lists the pods
\* again.  There is no AddFunc, so nothing is notified of what it finds.
StartWatch ==
  /\ boot = "load"
  /\ listed = NoPods
  /\ boot' = "watch"
  /\ seen' = api
  /\ missed' = {q \in PodNames :
                  /\ lookup[q] # NoData
                  /\ \A p \in Pods : NameOf[p] = q =>
                       api[p] = NoPod \/ ContainerData(api[p].spec) # lookup[q]}
  /\ UNCHANGED <<api, listed, events, evicting, lookup, scrapeVars, series, stranded>>

-----------------------------------------------------------------------------
Notify(kind, p, object) ==
  /\ Len(events) < MaxPending
  /\ events' = Append(events, [kind |-> kind, pod |-> p, object |-> object])

\* The informer catches up with the API server.  A pod it did not know is
\* added, which no handler hears of; one that was replaced by another of its
\* name while the watch was down is an update; one whose deletion the watch
\* missed comes as a tombstone.
Observe(p) ==
  /\ boot = "watch"
  /\ seen[p] # api[p]
  /\ seen' = [seen EXCEPT ![p] = api[p]]
  /\ CASE seen[p] = NoPod -> UNCHANGED events
       [] seen[p] # NoPod /\ api[p] # NoPod -> Notify("updated", p, api[p])
       [] seen[p] # NoPod /\ api[p] = NoPod ->
            \E kind \in {"deleted"} \cup (IF WatchGaps THEN {"tombstone"} ELSE {}) :
              Notify(kind, p, seen[p])
  /\ stranded' = IF seen[p] # NoPod /\ api[p] # NoPod /\ seen[p].spec # api[p].spec
                 THEN stranded \cup {NameOf[p]} ELSE stranded
  /\ UNCHANGED <<api, boot, listed, evicting, lookup, scrapeVars, series, missed>>

\* Every sampleInterval the informer replays its store as updates.
Resync(p) ==
  /\ boot = "watch"
  /\ seen[p] # NoPod
  /\ Notify("updated", p, seen[p])
  /\ UNCHANGED <<api, boot, listed, seen, evicting, lookup, scrapeVars, series, missed, stranded>>

TakeEvent(kinds) ==
  /\ evicting = NoName
  /\ events # <<>>
  /\ Head(events).kind \in kinds
  /\ events' = Tail(events)

UpdateFunc ==
  /\ TakeEvent({"updated"})
  /\ GetPodData(Head(events).pod, Head(events).object)
  /\ UNCHANGED <<api, boot, listed, seen, evicting, scrapeVars, series, missed, stranded>>

WithoutNames(names) == {x \in series : NameOf[x[1]] \notin names}

\* DeleteFunc runs into SetMetrics of a pod of the name it evicts.
Crossing(q) ==
  IF held.pod # NoPod /\ held.data # NoData /\ NameOf[held.pod] = q
  THEN stranded \cup {q} ELSE stranded

\* Mutants of DeleteFunc and Handle, named for the bug.
EntryZeroed ==
  LET zero == [containers |-> {}, limited |-> {}, mounts |-> {}, sized |-> {}]
  IN /\ TakeEvent({"deleted", "tombstone"})
     /\ lookup' = [lookup EXCEPT ![NameOf[Head(events).pod]] = zero]
     /\ evicting' = NameOf[Head(events).pod]
     /\ UNCHANGED <<api, boot, listed, seen, scrapeVars, series, missed, stranded>>

TombstoneIgnored ==
  /\ TakeEvent({"deleted", "tombstone"})
  /\ IF Head(events).kind = "deleted"
     THEN /\ lookup' = [lookup EXCEPT ![NameOf[Head(events).pod]] = NoData]
          /\ evicting' = NameOf[Head(events).pod]
     ELSE UNCHANGED <<lookup, evicting>>
  /\ UNCHANGED <<api, boot, listed, seen, scrapeVars, series, missed, stranded>>

EvictedFirst ==
  LET q == NameOf[Head(events).pod]
  IN /\ TakeEvent({"deleted", "tombstone"})
     /\ series' = WithoutNames({q})
     /\ stranded' = Crossing(q)
     /\ evicting' = q
     /\ UNCHANGED <<api, boot, listed, seen, lookup, scrapeVars, missed>>

ForgottenLast ==
  /\ evicting # NoName
  /\ lookup' = [lookup EXCEPT ![evicting] = NoData]
  /\ evicting' = NoName
  /\ UNCHANGED <<api, boot, listed, seen, events, scrapeVars, series, missed, stranded>>

\* DeleteFunc: first the entry goes, then the series.
DeleteFunc ==
  /\ TakeEvent({"deleted", "tombstone"})
  /\ lookup' = [lookup EXCEPT ![NameOf[Head(events).pod]] = NoData]
  /\ evicting' = NameOf[Head(events).pod]
  /\ UNCHANGED <<api, boot, listed, seen, scrapeVars, series, missed, stranded>>

EvictPodByName ==
  /\ evicting # NoName
  /\ series' = WithoutNames({evicting})
  /\ evicting' = NoName
  /\ stranded' = Crossing(evicting)
  /\ UNCHANGED <<api, boot, listed, seen, events, lookup, scrapeVars, missed>>

-----------------------------------------------------------------------------
\* Mutant of Summarise: the stale names are looked for in the counts that have
\* been written already.
CountedFirst ==
  LET reported == {p \in Pods : api[p] # NoPod /\ api[p].phase = "Running"}
  IN /\ summary = NoPods
     /\ held = Idle
     /\ summary' = [p \in Pods |-> IF p \in reported THEN api[p].spec ELSE NoPod]
     /\ lastSeen' = AfterScrape(lastSeen, Names(reported))
     /\ series' = WithoutNames(StaleNames(lastSeen', Names(reported)))
     /\ UNCHANGED <<api, watchVars, lookup, held, missed, stranded>>

\* A summary arrives and EvictStalePods runs on it.
Summarise ==
  LET reported == {p \in Pods : api[p] # NoPod /\ api[p].phase = "Running"}
  IN /\ summary = NoPods
     /\ held = Idle
     /\ summary' = [p \in Pods |-> IF p \in reported THEN api[p].spec ELSE NoPod]
     /\ lastSeen' = AfterScrape(lastSeen, Names(reported))
     /\ series' = WithoutNames(StaleNames(lastSeen, Names(reported)))
     /\ UNCHANGED <<api, watchVars, lookup, held, missed, stranded>>

\* SetMetrics of pod p: reads lookup under the read lock, by name alone.
ReadLookup(p) ==
  /\ held = Idle
  /\ summary[p] # NoPod
  /\ held' = [pod |-> p, data |-> lookup[NameOf[p]]]
  /\ UNCHANGED <<api, watchVars, lookup, lastSeen, summary, series, missed, stranded>>

\* It sets the gauges from what it read: none when there was no entry.
SetGauges ==
  LET p == held.pod
  IN /\ p # NoPod
     /\ series' = IF held.data = NoData
                  THEN series
                  ELSE series \cup ({p} \X Labels(held.data, summary[p].emptyDirs))
     /\ summary' = [summary EXCEPT ![p] = NoPod]
     /\ held' = Idle
     /\ UNCHANGED <<api, watchVars, lookup, lastSeen, missed, stranded>>

-----------------------------------------------------------------------------
Start  == ListPods \/ (\E p \in Pods : LoadPod(p)) \/ StartWatch

\* Mutant of Handle: the series go before the entry.
EvictFirst == UpdateFunc \/ EvictedFirst \/ ForgottenLast
Handle == UpdateFunc \/ DeleteFunc \/ EvictPodByName

Scrape == Summarise \/ (\E p \in Pods : ReadLookup(p)) \/ SetGauges

Next ==
  \/ Cluster
  \/ Start
  \/ \E p \in Pods : Observe(p) \/ Resync(p)
  \/ Handle
  \/ Scrape

Spec == Init /\ [][Next]_vars

\* Goroutines that can run do run.  What the informer sends competes with
\* other notifications for the bounded queue.
Fairness ==
  /\ WF_vars(Start)
  /\ WF_vars(Handle)
  /\ WF_vars(Scrape)
  /\ \A p \in Pods : SF_vars(Observe(p)) /\ SF_vars(Resync(p))

FairSpec == Spec /\ Fairness

-----------------------------------------------------------------------------
\* Every series belongs to the entry its pod has in lookup now, or DeleteFunc
\* is about to evict it (k8s.go:129-131: entry first, series second), unless
\* an eviction of the name ran into a SetMetrics of it or the watch never saw
\* a pod of the name go.  For pods with distinct names.
SeriesFromLookup ==
  \A x \in series :
    LET q == NameOf[x[1]]
    IN \/ q \in missed \cup stranded \cup {evicting}
       \/ /\ lookup[q] # NoData
          /\ \E s \in Specs : x[2] \in Labels(lookup[q], s.emptyDirs)

\* lookup does not grow for ever: while the watch runs, an entry is of a name
\* that a pod the informer knows has, or whose deletion it has still to hand to
\* DeleteFunc, however updates, resyncs and gaps come before it; but for the
\* names whose pod went between the two lists.  Names may be shared.
PodDeletionPending(p) == \E i \in DOMAIN events : events[i].pod = p /\ events[i].kind # "updated"

EntriesForgettable ==
  boot = "watch" =>
    \A q \in PodNames \ missed :
      lookup[q] # NoData =>
        \E p \in Pods : NameOf[p] = q /\ (seen[p] # NoPod \/ PodDeletionPending(p))

\* The tracker and the series change as if each scrape were atomic, however
\* late the gauges of a summary are set and whatever the handlers do between:
\* from the summary on, the pods still to be set count as exported.
Exported ==
  {p \in Pods : summary[p] # NoPod} \cup {p \in Pods : \E x \in series : x[1] = p}

Atomic == INSTANCE AtomicScrapes WITH exported <- Exported

ScrapesAtomic == Atomic!Spec

\* lookup comes to hold the data of a pod that keeps running, however the pod
\* came to the exporter's attention: in the first list, in the second, while
\* the watch was up or while it was down.
LookupConverges ==
  \A p \in Pods, s \in Specs :
    <>[](api[p] = [spec |-> s, phase |-> "Running"])
      => <>[](lookup[NameOf[p]] = ContainerData(s))

\* A pod that keeps running has, again and again, every series its spec and
\* the enabled families call for: "Per-container volume (emptyDir): usage
\* bytes, limit percentage" (README.md:27).
Wanted(s) ==
  LET mounted == {m \in s.mounts : m[2] \in s.emptyDirs}
  IN {<<"volume", m>> : m \in IF VolumeUsage THEN mounted ELSE {}}
     \cup {<<"volumeLimit", m>> :
             m \in IF VolumeLimits THEN {x \in mounted : x[2] \in s.sized} ELSE {}}
     \cup {<<"limit", <<c, "container">>>> : c \in IF ContainerLimits THEN s.limited ELSE {}}
     \cup {<<"limit", <<c, "node">>>> :
             c \in IF ContainerLimits THEN s.containers \ s.limited ELSE {}}
SeriesExported ==
  \A p \in Pods, s \in Specs :
    <>[](api[p] = [spec |-> s, phase |-> "Running"])
      => \A l \in Wanted(s) : []<>(<<p, l>> \in series)

\* A deleted pod leaves neither an entry nor a series behind, unless it went
\* between the two lists.
DeletedForgotten ==
  \A p \in Pods :
    <>[](api[p] = NoPod /\ NameOf[p] \notin missed)
      => <>[](/\ boot = "watch" => lookup[NameOf[p]] = NoData
              /\ \A x \in series : x[1] # p)

\* "Source of the limit (either "container" for
\* pod.spec.containers.resources.limits or "node")" (pkg/pod/metrics.go:132):
\* a percentage is set as the container's only if the pod's own spec has one.
SourceIsOwn ==
  [][SetGauges =>
       \A x \in series' \ series :
         x[2][1] = "limit" /\ x[2][2][2] = "container" =>
           x[2][2][1] \in summary[x[1]].limited]_vars
=============================================================================
