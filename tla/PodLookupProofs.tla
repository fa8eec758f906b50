-------------------------- MODULE PodLookupProofs --------------------------
(***************************************************************************)
(* Safety of PodLookup for every set of pods and specs, every choice of    *)
(* flags, and any bound on the notifications under way.                    *)
(***************************************************************************)
EXTENDS PodLookup, TLAPS

\* Distinct pods have distinct names.
UniqueNames == \A p, r \in Pods : NameOf[p] = NameOf[r] => p = r

-----------------------------------------------------------------------------
\* SetMetrics is given pods of the summary in hand.
HeldInSummary == held.pod # NoPod => held.pod \in Pods /\ summary[held.pod] # NoPod

\* The handlers' queue takes a notification at its end and hands out the first.
LEMMA NotifyType ==
  ASSUME events \in Seq(Notifications), NEW kind \in {"updated", "deleted", "tombstone"},
         NEW p \in Pods, NEW object \in Objects, Notify(kind, p, object)
  PROVE  events' \in Seq(Notifications)
  <1>1. [kind |-> kind, pod |-> p, object |-> object] \in Notifications
    BY DEF Notifications
  <1> QED
    BY <1>1 DEF Notify

\* What it hands out is a notification of a pod that has a name.
LEMMA TakeEventType ==
  ASSUME events \in Seq(Notifications), NEW kinds, TakeEvent(kinds)
  PROVE  /\ events' \in Seq(Notifications)
         /\ Head(events) \in Notifications
         /\ Head(events).pod \in Pods /\ Head(events).object \in Objects
         /\ NameOf[Head(events).pod] \in PodNames
  <1>1. Head(events) \in Notifications /\ Tail(events) \in Seq(Notifications)
    BY DEF TakeEvent
  <1> QED
    BY <1>1, NameAssumption DEF TakeEvent, Notifications

\* Evicting stale pods keeps the tracker a tracker.
LEMMA TrackerType ==
  ASSUME NEW counts \in LastSeen, NEW names
  PROVE  AfterScrape(counts, names) \in LastSeen
  BY DEF LastSeen, AfterScrape, Reset, NotTracked

\* Everything has its type in every reachable state; so have the labels made
\* of what SetMetrics holds.
LEMMA TypesInvariant == Spec => [](TypeOK /\ HeldInSummary)
  <1>1. Init => TypeOK /\ HeldInSummary
    BY DEF Init, TypeOK, HeldInSummary, NoPods, Idle, EmptyTracker, LastSeen, NotTracked
  <1>2. TypeOK /\ HeldInSummary /\ [Next]_vars => TypeOK' /\ HeldInSummary'
    <2> SUFFICES ASSUME TypeOK, HeldInSummary, [Next]_vars
                 PROVE  TypeOK' /\ HeldInSummary'
      OBVIOUS
    <2> USE DEF watchVars, scrapeVars
    <2>0. events \in Seq(Notifications)
      BY DEF TypeOK
    <2>1. CASE Cluster
      <3>1. api' \in [Pods -> Objects \cup {NoPod}]
        BY <2>1 DEF Cluster, PodCreated, PodRuns, PodEnds, PodGoes, PodChanges, TypeOK, Objects, Phases
      <3>2. UNCHANGED <<watchVars, lookup, scrapeVars, series, missed, stranded>>
        BY <2>1 DEF Cluster, PodCreated, PodRuns, PodEnds, PodGoes, PodChanges
      <3> QED
        BY <3>1, <3>2 DEF TypeOK, HeldInSummary
    <2>2. CASE ListPods
      BY <2>2 DEF ListPods, TypeOK, HeldInSummary
    <2>3. ASSUME NEW p \in Pods, LoadPod(p)
          PROVE  TypeOK' /\ HeldInSummary'
      <3>1. listed[p] \in Objects /\ listed[p].spec \in Specs
        BY <2>3 DEF LoadPod, TypeOK, Objects
      <3>2. lookup' \in [PodNames -> {ContainerData(s) : s \in Specs} \cup {NoData}]
        BY <2>3, <3>1, NameAssumption DEF LoadPod, GetPodData, TypeOK
      <3> QED
        BY <2>3, <3>2 DEF LoadPod, TypeOK, HeldInSummary
    <2>4. CASE StartWatch
      BY <2>4 DEF StartWatch, TypeOK, HeldInSummary
    <2>5. ASSUME NEW p \in Pods, Observe(p)
          PROVE  TypeOK' /\ HeldInSummary'
      <3>1. seen' \in [Pods -> Objects \cup {NoPod}]
        BY <2>5 DEF Observe, TypeOK
      <3>2. events' \in Seq(Notifications)
        <4>1. CASE seen[p] = NoPod
          BY <2>0, <2>5, <4>1 DEF Observe
        <4>2. CASE seen[p] # NoPod /\ api[p] # NoPod
          <5>1. Notify("updated", p, api[p]) /\ api[p] \in Objects
            BY <2>5, <4>2 DEF Observe, TypeOK
          <5> QED
            BY <2>0, <5>1, NotifyType
        <4>3. CASE seen[p] # NoPod /\ api[p] = NoPod
          <5>1. \E kind \in {"deleted", "tombstone"} : Notify(kind, p, seen[p])
            BY <2>5, <4>3 DEF Observe
          <5>2. seen[p] \in Objects
            BY <4>3 DEF TypeOK
          <5> QED
            BY <2>0, <5>1, <5>2, NotifyType
        <4> QED
          BY <4>1, <4>2, <4>3
      <3>3. stranded' \subseteq PodNames
        BY <2>5, NameAssumption DEF Observe, TypeOK
      <3> QED
        BY <2>5, <3>1, <3>2, <3>3 DEF Observe, TypeOK, HeldInSummary
    <2>6. ASSUME NEW p \in Pods, Resync(p)
          PROVE  TypeOK' /\ HeldInSummary'
      <3>1. seen[p] \in Objects
        BY <2>6 DEF Resync, TypeOK
      <3>2. events' \in Seq(Notifications)
        BY <2>0, <2>6, <3>1, NotifyType DEF Resync
      <3> QED
        BY <2>6, <3>2 DEF Resync, TypeOK, HeldInSummary
    <2>7. CASE UpdateFunc
      <3>1. events' \in Seq(Notifications) /\ Head(events).object.spec \in Specs
        BY <2>0, <2>7, TakeEventType DEF UpdateFunc, Objects
      <3>2. lookup' \in [PodNames -> {ContainerData(s) : s \in Specs} \cup {NoData}]
        BY <2>0, <2>7, <3>1, TakeEventType DEF UpdateFunc, GetPodData, TypeOK
      <3> QED
        BY <2>7, <3>1, <3>2 DEF UpdateFunc, TypeOK, HeldInSummary
    <2>8. CASE DeleteFunc
      <3>1. events' \in Seq(Notifications) /\ NameOf[Head(events).pod] \in PodNames
        BY <2>0, <2>8, TakeEventType DEF DeleteFunc
      <3>2. lookup' \in [PodNames -> {ContainerData(s) : s \in Specs} \cup {NoData}]
        BY <2>8, <3>1 DEF DeleteFunc, TypeOK
      <3> QED
        BY <2>8, <3>1, <3>2 DEF DeleteFunc, TypeOK, HeldInSummary
    <2>9. CASE EvictPodByName
      BY <2>9 DEF EvictPodByName, WithoutNames, Crossing, TypeOK, HeldInSummary
    <2>10. CASE Summarise
      <3>1. summary' \in [Pods -> Specs \cup {NoPod}]
        BY <2>10 DEF Summarise, TypeOK, Objects
      <3>2. lastSeen' \in LastSeen
        BY <2>10, TrackerType DEF Summarise, TypeOK
      <3>3. HeldInSummary'
        BY <2>10 DEF Summarise, Idle, HeldInSummary
      <3>4. series' \subseteq series
        BY <2>10 DEF Summarise, WithoutNames
      <3> QED
        BY <2>10, <3>1, <3>2, <3>3, <3>4 DEF Summarise, TypeOK
    <2>11. ASSUME NEW p \in Pods, ReadLookup(p)
           PROVE  TypeOK' /\ HeldInSummary'
      <3>1. held' = [pod |-> p, data |-> lookup[NameOf[p]]] /\ summary' = summary /\ summary[p] # NoPod
        BY <2>11 DEF ReadLookup
      <3>2. lookup[NameOf[p]] \in {ContainerData(s) : s \in Specs} \cup {NoData}
        BY NameAssumption DEF TypeOK
      <3>3. HeldInSummary'
        BY <3>1 DEF HeldInSummary
      <3>4. held' \in [pod : Pods, data : {ContainerData(s) : s \in Specs} \cup {NoData}]
        BY <3>1, <3>2
      <3> QED
        BY <2>11, <3>3, <3>4 DEF ReadLookup, TypeOK
    <2>12. CASE SetGauges
      <3>1. held.pod \in Pods /\ summary[held.pod] \in Specs
        BY <2>12 DEF SetGauges, HeldInSummary, TypeOK
      <3>2. held.data # NoData => \E s \in Specs : held.data = ContainerData(s)
        <4>1. held \in [pod : Pods, data : {ContainerData(s) : s \in Specs} \cup {NoData}]
                \/ held.pod = NoPod
          BY DEF TypeOK, Idle
        <4> QED
          BY <2>12, <4>1 DEF SetGauges
      <3>3. \A x \in series' :
              /\ x[1] \in Pods
              /\ \E s, u \in Specs : x[2] \in Labels(ContainerData(s), u.emptyDirs)
        <4>1. ASSUME NEW x \in {held.pod} \X Labels(held.data, summary[held.pod].emptyDirs),
                     held.data # NoData
              PROVE  /\ x[1] \in Pods
                     /\ \E s, u \in Specs : x[2] \in Labels(ContainerData(s), u.emptyDirs)
          BY <3>1, <3>2, <4>1
        <4>2. \A x \in series :
                /\ x[1] \in Pods
                /\ \E s, u \in Specs : x[2] \in Labels(ContainerData(s), u.emptyDirs)
          BY DEF TypeOK
        <4> QED
          BY <2>12, <4>1, <4>2 DEF SetGauges
      <3>4. summary' \in [Pods -> Specs \cup {NoPod}] /\ held' = Idle
        BY <2>12 DEF SetGauges, TypeOK
      <3>5. HeldInSummary'
        BY <3>4 DEF HeldInSummary, Idle
      <3> QED
        BY <2>12, <3>3, <3>4, <3>5 DEF SetGauges, TypeOK
    <2>13. CASE UNCHANGED vars
      BY <2>13 DEF vars, TypeOK, HeldInSummary
    <2> QED
      BY <2>1, <2>2, <2>3, <2>4, <2>5, <2>6, <2>7, <2>8, <2>9, <2>10, <2>11, <2>12, <2>13
         DEF Next, Start, Handle, Scrape
  <1> QED
    BY <1>1, <1>2, PTL DEF Spec

\* lookup, the queue, the summary and the series are well formed: every series
\* has labels that some spec gives rise to.
THEOREM TypeCorrect == Spec => []TypeOK
  BY TypesInvariant, PTL

-----------------------------------------------------------------------------
(***************************************************************************)
(* The strengthening of SeriesFromLookup.  Excused names are those that it *)
(* says nothing about.                                                     *)
(***************************************************************************)
Excused(q) == q \in missed \cup stranded \cup {evicting}

\* What SetMetrics holds is what lookup still has.
HeldFromLookup ==
  held.pod # NoPod /\ held.data # NoData =>
    Excused(NameOf[held.pod]) \/ held.data = lookup[NameOf[held.pod]]

\* Before the watch, lookup is filled but never overwritten.
FilledOnce ==
  /\ boot # "watch" => events = <<>> /\ evicting = NoName /\ missed = {}
  /\ boot = "list" => \A q \in PodNames : lookup[q] = NoData
  /\ boot = "load" => \A p \in Pods : listed[p] # NoPod => lookup[NameOf[p]] = NoData
  /\ evicting \in PodNames => lookup[evicting] = NoData

\* Of the notifications of pod p, in order: updates and deletions.
Updates(p, i) == events[i].pod = p /\ events[i].kind = "updated"
Deletes(p, i) == events[i].pod = p /\ events[i].kind # "updated"
NoDeletion(p, i, j) == \A k \in i..j : ~Deletes(p, k)
DataOf(i) == ContainerData(events[i].object.spec)

\* From what lookup has of p, through the updates in the queue, to what the
\* informer has seen of p: the data changes only across a deletion.
LookupAgrees(p) ==
  lookup[NameOf[p]] # NoData =>
    /\ \A i \in DOMAIN events :
         Updates(p, i) /\ NoDeletion(p, 1, i) => DataOf(i) = lookup[NameOf[p]]
    /\ NoDeletion(p, 1, Len(events)) =>
         seen[p] # NoPod /\ ContainerData(seen[p].spec) = lookup[NameOf[p]]

UpdatesAgree(p) ==
  \A i \in DOMAIN events :
    Updates(p, i) =>
      /\ \A j \in DOMAIN events :
           i < j /\ Updates(p, j) /\ NoDeletion(p, i, j) => DataOf(i) = DataOf(j)
      /\ NoDeletion(p, i, Len(events)) =>
           seen[p] # NoPod /\ ContainerData(seen[p].spec) = DataOf(i)

ChangesByDeletion ==
  boot = "watch" =>
    \A p \in Pods : NameOf[p] \notin missed \cup stranded => LookupAgrees(p) /\ UpdatesAgree(p)

Derived ==
  /\ SeriesFromLookup
  /\ HeldFromLookup
  /\ FilledOnce
  /\ ChangesByDeletion

-----------------------------------------------------------------------------
\* A notification at the end of the queue.
LEMMA QueueAppended ==
  ASSUME events \in Seq(Notifications), NEW e \in Notifications, events' = Append(events, e)
  PROVE  /\ Len(events) \in Nat /\ Len(events') = Len(events) + 1
         /\ DOMAIN events = 1..Len(events) /\ DOMAIN events' = 1..(Len(events) + 1)
         /\ \A k \in 1..Len(events) : events'[k] = events[k]
         /\ events'[Len(events) + 1] = e
  OBVIOUS

\* The first notification gone from the queue.
LEMMA QueueTaken ==
  ASSUME events \in Seq(Notifications), events # <<>>, events' = Tail(events)
  PROVE  /\ Len(events) \in Nat \ {0} /\ Len(events') = Len(events) - 1
         /\ DOMAIN events = 1..Len(events) /\ DOMAIN events' = 1..(Len(events) - 1)
         /\ \A k \in 1..(Len(events) - 1) : events'[k] = events[k + 1]
         /\ Head(events) = events[1]
  OBVIOUS

\* Notifying of p what the informer has seen of it, of its deletion, or of
\* another pod, keeps the data of p agreeing.
LEMMA AppendAgrees ==
  ASSUME events \in Seq(Notifications), NEW kind \in {"updated", "deleted", "tombstone"},
         NEW r \in Pods, NEW object \in Objects, Notify(kind, r, object),
         NEW p \in Pods, lookup' = lookup, LookupAgrees(p), UpdatesAgree(p),
         \/ r # p /\ seen'[p] = seen[p]
         \/ /\ r = p /\ kind = "updated"
            /\ seen[p] # NoPod /\ seen'[p] # NoPod
            /\ seen'[p].spec = seen[p].spec /\ object.spec = seen[p].spec
         \/ r = p /\ kind # "updated"
  PROVE  LookupAgrees(p)' /\ UpdatesAgree(p)'
  <1> DEFINE e == [kind |-> kind, pod |-> r, object |-> object]
  <1>0. PICK N \in Nat : N = Len(events)
    OBVIOUS
  <1>1. e \in Notifications /\ events' = Append(events, e)
    BY DEF Notify, Notifications
  <1>2. /\ N \in Nat /\ Len(events') = N + 1
        /\ DOMAIN events = 1..N /\ DOMAIN events' = 1..(N + 1)
        /\ \A k \in 1..N : events'[k] = events[k]
        /\ events'[N + 1] = e
    BY <1>0, <1>1, QueueAppended
  <1>3. \A i \in 1..N : /\ Updates(p, i)' <=> Updates(p, i)
                        /\ Deletes(p, i)' <=> Deletes(p, i)
                        /\ DataOf(i)' = DataOf(i)
    BY <1>2 DEF Updates, Deletes, DataOf
  <1>4. /\ Updates(p, N + 1)' <=> r = p /\ kind = "updated"
        /\ Deletes(p, N + 1)' <=> r = p /\ kind # "updated"
        /\ DataOf(N + 1)' = ContainerData(object.spec)
    BY <1>2 DEF Updates, Deletes, DataOf
  <1>5. \A i, j \in 1..(N + 1) : NoDeletion(p, i, j)' =>
           /\ j \in 1..N => NoDeletion(p, i, j)
           /\ j = N + 1 => NoDeletion(p, i, N) /\ ~(r = p /\ kind # "updated")
    BY <1>2, <1>3, <1>4 DEF NoDeletion
  <1>6. NoDeletion(p, 1, N + 1)' => NoDeletion(p, 1, N) /\ ~(r = p /\ kind # "updated")
    BY <1>2, <1>5
  <1>7. LookupAgrees(p)'
    <2> SUFFICES ASSUME lookup[NameOf[p]] # NoData
                 PROVE  /\ \A i \in 1..(N + 1) :
                             Updates(p, i)' /\ NoDeletion(p, 1, i)' => DataOf(i)' = lookup[NameOf[p]]
                        /\ NoDeletion(p, 1, N + 1)' =>
                             seen'[p] # NoPod /\ ContainerData(seen'[p].spec) = lookup[NameOf[p]]
      BY <1>2 DEF LookupAgrees
    <2>1. /\ \A i \in 1..N : Updates(p, i) /\ NoDeletion(p, 1, i) => DataOf(i) = lookup[NameOf[p]]
          /\ NoDeletion(p, 1, N) =>
               seen[p] # NoPod /\ ContainerData(seen[p].spec) = lookup[NameOf[p]]
      BY <1>0, <1>2 DEF LookupAgrees
    <2> QED
      BY <1>2, <1>3, <1>4, <1>5, <1>6, <2>1
  <1>8. UpdatesAgree(p)'
    <2> SUFFICES ASSUME NEW i \in 1..(N + 1), Updates(p, i)'
                 PROVE  /\ \A j \in 1..(N + 1) :
                             i < j /\ Updates(p, j)' /\ NoDeletion(p, i, j)' => DataOf(i)' = DataOf(j)'
                        /\ NoDeletion(p, i, N + 1)' =>
                             seen'[p] # NoPod /\ ContainerData(seen'[p].spec) = DataOf(i)'
      BY <1>2 DEF UpdatesAgree
    <2>1. CASE i \in 1..N
      <3>1. /\ \A j \in 1..N : i < j /\ Updates(p, j) /\ NoDeletion(p, i, j) => DataOf(i) = DataOf(j)
            /\ NoDeletion(p, i, N) =>
                 seen[p] # NoPod /\ ContainerData(seen[p].spec) = DataOf(i)
        BY <1>0, <1>2, <1>3, <2>1 DEF UpdatesAgree
      <3> QED
        BY <1>2, <1>3, <1>4, <1>5, <2>1, <3>1
    <2>2. CASE i = N + 1
      BY <1>2, <1>4, <1>5, <2>2
    <2> QED
      BY <1>2, <2>1, <2>2
  <1> QED
    BY <1>7, <1>8

\* Handling the first notification: one of another pod, an update of p that
\* renews its entry or not, or anything that leaves p without an entry.
LEMMA TakeAgrees ==
  ASSUME events \in Seq(Notifications), events # <<>>, events' = Tail(events), seen' = seen,
         NEW p \in Pods, LookupAgrees(p), UpdatesAgree(p),
         \/ ~Deletes(p, 1) /\ lookup'[NameOf[p]] = lookup[NameOf[p]]
         \/ Updates(p, 1) /\ lookup'[NameOf[p]] = DataOf(1)
         \/ lookup'[NameOf[p]] = NoData
  PROVE  LookupAgrees(p)' /\ UpdatesAgree(p)'
  <1>0. PICK N \in Nat : N = Len(events)
    OBVIOUS
  <1>1. /\ N \in Nat \ {0} /\ Len(events') = N - 1
        /\ DOMAIN events = 1..N /\ DOMAIN events' = 1..(N - 1)
        /\ \A k \in 1..(N - 1) : events'[k] = events[k + 1]
    BY <1>0, QueueTaken
  <1>2. \A i \in 1..(N - 1) : /\ Updates(p, i)' <=> Updates(p, i + 1)
                              /\ Deletes(p, i)' <=> Deletes(p, i + 1)
                              /\ DataOf(i)' = DataOf(i + 1)
    BY <1>1 DEF Updates, Deletes, DataOf
  <1>3. ASSUME NEW i \in 1..N, NEW j \in 0..(N - 1), NoDeletion(p, i, j)'
        PROVE  NoDeletion(p, i + 1, j + 1)
    <2>1. ASSUME NEW k \in (i + 1)..(j + 1)
          PROVE  ~Deletes(p, k)
      <3>1. k - 1 \in i..j /\ k - 1 \in 1..(N - 1) /\ (k - 1) + 1 = k
        BY <1>1, <2>1
      <3>2. ~Deletes(p, k - 1)'
        BY <1>3, <3>1 DEF NoDeletion
      <3> QED
        BY <1>2, <3>1, <3>2
    <2> QED
      BY <2>1 DEF NoDeletion
  <1>4. ~Deletes(p, 1) => \A j \in 0..(N - 1) : NoDeletion(p, 2, j + 1) => NoDeletion(p, 1, j + 1)
    BY <1>1 DEF NoDeletion
  <1>5. /\ \A i \in 1..N : Updates(p, i) =>
             /\ \A j \in 1..N : i < j /\ Updates(p, j) /\ NoDeletion(p, i, j) => DataOf(i) = DataOf(j)
             /\ NoDeletion(p, i, N) => seen[p] # NoPod /\ ContainerData(seen[p].spec) = DataOf(i)
        /\ lookup[NameOf[p]] # NoData =>
             /\ \A i \in 1..N :
                  Updates(p, i) /\ NoDeletion(p, 1, i) => DataOf(i) = lookup[NameOf[p]]
             /\ NoDeletion(p, 1, N) =>
                  seen[p] # NoPod /\ ContainerData(seen[p].spec) = lookup[NameOf[p]]
    BY <1>0, <1>1 DEF UpdatesAgree, LookupAgrees
  <1>6. UpdatesAgree(p)'
    <2> SUFFICES ASSUME NEW i \in 1..(N - 1), Updates(p, i)'
                 PROVE  /\ \A j \in 1..(N - 1) :
                             i < j /\ Updates(p, j)' /\ NoDeletion(p, i, j)' => DataOf(i)' = DataOf(j)'
                        /\ NoDeletion(p, i, N - 1)' =>
                             seen[p] # NoPod /\ ContainerData(seen[p].spec) = DataOf(i)'
      BY <1>1 DEF UpdatesAgree
    <2>1. i + 1 \in 1..N /\ Updates(p, i + 1) /\ DataOf(i)' = DataOf(i + 1)
      BY <1>1, <1>2
    <2>2. ASSUME NEW j \in 1..(N - 1), i < j, Updates(p, j)', NoDeletion(p, i, j)'
          PROVE  DataOf(i)' = DataOf(j)'
      <3>1. j + 1 \in 1..N /\ i + 1 < j + 1 /\ Updates(p, j + 1) /\ DataOf(j)' = DataOf(j + 1)
        BY <1>1, <1>2, <2>2
      <3>2. NoDeletion(p, i + 1, j + 1)
        BY <1>1, <1>3, <2>2
      <3> QED
        BY <1>5, <2>1, <3>1, <3>2
    <2>3. ASSUME NoDeletion(p, i, N - 1)'
          PROVE  seen[p] # NoPod /\ ContainerData(seen[p].spec) = DataOf(i)'
      <3>1. NoDeletion(p, i + 1, N)
        <4>1. NoDeletion(p, i + 1, (N - 1) + 1)
          BY <1>1, <1>3, <2>3
        <4> QED
          BY <1>1, <4>1
      <3> QED
        BY <1>5, <2>1, <3>1
    <2> QED
      BY <2>2, <2>3
  <1>7. LookupAgrees(p)'
    <2> DEFINE q == NameOf[p]
    <2> SUFFICES ASSUME lookup'[q] # NoData
                 PROVE  /\ \A i \in 1..(N - 1) :
                             Updates(p, i)' /\ NoDeletion(p, 1, i)' => DataOf(i)' = lookup'[q]
                        /\ NoDeletion(p, 1, N - 1)' =>
                             seen[p] # NoPod /\ ContainerData(seen[p].spec) = lookup'[q]
      BY <1>1 DEF LookupAgrees
    <2>1. ~Deletes(p, 1)
      BY DEF Updates, Deletes
    <2>2. ASSUME NEW j \in 0..(N - 1), NoDeletion(p, 1, j)'
          PROVE  NoDeletion(p, 1, j + 1)
      BY <1>1, <1>3, <1>4, <2>1, <2>2
    <2>3. ASSUME NEW i \in 1..(N - 1), Updates(p, i)', NoDeletion(p, 1, i)'
          PROVE  DataOf(i)' = lookup'[q]
      <3>1. /\ i + 1 \in 1..N /\ 1 < i + 1 /\ 1 \in 1..N
            /\ Updates(p, i + 1) /\ DataOf(i)' = DataOf(i + 1)
        BY <1>1, <1>2, <2>3
      <3>2. NoDeletion(p, 1, i + 1)
        BY <1>1, <2>2, <2>3
      <3> QED
        BY <1>5, <3>1, <3>2
    <2>4. ASSUME NoDeletion(p, 1, N - 1)'
          PROVE  seen[p] # NoPod /\ ContainerData(seen[p].spec) = lookup'[q]
      <3>1. 1 \in 1..N /\ NoDeletion(p, 1, N)
        <4>1. NoDeletion(p, 1, (N - 1) + 1)
          BY <1>1, <2>2, <2>4
        <4> QED
          BY <1>1, <4>1
      <3> QED
        BY <1>5, <3>1
    <2> QED
      BY <2>3, <2>4
  <1> QED
    BY <1>6, <1>7

-----------------------------------------------------------------------------
\* The agreement of p is about lookup, the queue and what was seen of p alone.
LEMMA AgreesKept ==
  ASSUME NEW p \in Pods, events' = events, seen'[p] = seen[p],
         lookup'[NameOf[p]] = lookup[NameOf[p]],
         LookupAgrees(p), UpdatesAgree(p)
  PROVE  LookupAgrees(p)' /\ UpdatesAgree(p)'
  BY DEF LookupAgrees, UpdatesAgree, NoDeletion, Updates, Deletes, DataOf

\* A step that leaves lookup and the notifications alone.
LEMMA ChangesKept ==
  ASSUME ChangesByDeletion, UNCHANGED <<boot, events, seen, lookup, missed>>,
         stranded \subseteq stranded'
  PROVE  ChangesByDeletion'
  BY AgreesKept DEF ChangesByDeletion

\* So is what is said of the time before the watch.
LEMMA FilledKept ==
  ASSUME FilledOnce, UNCHANGED <<boot, listed, events, evicting, lookup, missed>>
  PROVE  FilledOnce'
  BY DEF FilledOnce

\* Storing the entry of a name changes what series were made from only if the
\* name had no entry, or is excused.
LEMMA EntryStored ==
  ASSUME TypeOK, HeldInSummary, SeriesFromLookup, HeldFromLookup, NEW q \in PodNames,
         \A r \in PodNames \ {q} : lookup'[r] = lookup[r],
         lookup'[q] = lookup[q] \/ lookup[q] = NoData \/ Excused(q),
         UNCHANGED <<evicting, held, series, missed, stranded>>
  PROVE  SeriesFromLookup' /\ HeldFromLookup'
  <1>1. SeriesFromLookup'
    <2> SUFFICES ASSUME NEW x \in series
                 PROVE  \/ Excused(NameOf[x[1]])
                        \/ /\ lookup'[NameOf[x[1]]] # NoData
                           /\ \E s \in Specs : x[2] \in Labels(lookup'[NameOf[x[1]]], s.emptyDirs)
      BY DEF SeriesFromLookup, Excused
    <2>1. NameOf[x[1]] \in PodNames
      BY NameAssumption DEF TypeOK
    <2> QED
      BY <2>1 DEF SeriesFromLookup, Excused
  <1>2. HeldFromLookup'
    BY NameAssumption DEF HeldFromLookup, HeldInSummary, Excused
  <1> QED
    BY <1>1, <1>2

\* The first list stores an entry for each name once.
LEMMA LoadPodDerived ==
  ASSUME UniqueNames, TypeOK, HeldInSummary, Derived, NEW p \in Pods, LoadPod(p)
  PROVE  Derived'
  <1> DEFINE q == NameOf[p]
  <1>1. /\ q \in PodNames /\ boot = "load" /\ boot' = boot /\ lookup[q] = NoData
        /\ events = <<>> /\ evicting = NoName /\ missed = {}
        /\ UNCHANGED <<events, evicting, held, series, missed, stranded>>
    BY NameAssumption DEF LoadPod, Derived, FilledOnce, scrapeVars
  <1>2. \A r \in PodNames \ {q} : lookup'[r] = lookup[r]
    BY DEF LoadPod, GetPodData, TypeOK
  <1>3. SeriesFromLookup' /\ HeldFromLookup'
    BY <1>1, <1>2, EntryStored DEF Derived
  <1>4. FilledOnce'
    <2>1. \A r \in Pods : listed'[r] # NoPod => r # p /\ listed[r] # NoPod
      BY DEF LoadPod, TypeOK
    <2>2. \A r \in Pods \ {p} : NameOf[r] \in PodNames \ {q}
      BY NameAssumption DEF UniqueNames
    <2> QED
      BY <1>1, <1>2, <2>1, <2>2, NoNameAssumption DEF Derived, FilledOnce
  <1> QED
    BY <1>1, <1>3, <1>4 DEF Derived, ChangesByDeletion

\* The second list shows the pods the first one did, or their names are missed.
LEMMA StartWatchDerived ==
  ASSUME UniqueNames, TypeOK, Derived, StartWatch
  PROVE  Derived'
  <1>1. /\ boot' = "watch" /\ seen' = api /\ missed = {} /\ events = <<>> /\ evicting = NoName
        /\ UNCHANGED <<events, evicting, lookup, held, series, stranded>>
    BY DEF StartWatch, Derived, FilledOnce, scrapeVars
  <1>2. SeriesFromLookup' /\ HeldFromLookup' /\ FilledOnce'
    BY <1>1, NoNameAssumption DEF Derived, SeriesFromLookup, HeldFromLookup, Excused, FilledOnce
  <1>3. ASSUME NEW p \in Pods, NameOf[p] \notin missed', lookup[NameOf[p]] # NoData
        PROVE  api[p] # NoPod /\ ContainerData(api[p].spec) = lookup[NameOf[p]]
    <2>1. NameOf[p] \in PodNames
      BY NameAssumption
    <2>2. PICK r \in Pods : NameOf[r] = NameOf[p] /\ api[r] # NoPod
                            /\ ContainerData(api[r].spec) = lookup[NameOf[p]]
      BY <1>3, <2>1 DEF StartWatch
    <2> QED
      BY <2>2 DEF UniqueNames
  <1>4. ChangesByDeletion'
    BY <1>1, <1>3 DEF ChangesByDeletion, LookupAgrees, UpdatesAgree
  <1> QED
    BY <1>2, <1>4 DEF Derived

\* What the informer observes of p changes its data only with a deletion in
\* the queue, or strands its name.
LEMMA ObserveDerived ==
  ASSUME UniqueNames, TypeOK, Derived, NEW p \in Pods, Observe(p)
  PROVE  Derived'
  <1>1. /\ boot = "watch" /\ boot' = boot /\ stranded \subseteq stranded'
        /\ UNCHANGED <<listed, evicting, lookup, held, series, missed>>
        /\ seen' = [seen EXCEPT ![p] = api[p]]
        /\ events \in Seq(Notifications)
    BY DEF Observe, scrapeVars, TypeOK
  <1>2. SeriesFromLookup' /\ HeldFromLookup' /\ FilledOnce'
    BY <1>1 DEF Derived, SeriesFromLookup, HeldFromLookup, Excused, FilledOnce
  <1>3. ASSUME NEW r \in Pods, NameOf[r] \notin missed' \cup stranded'
        PROVE  LookupAgrees(r)' /\ UpdatesAgree(r)'
    <2>1. LookupAgrees(r) /\ UpdatesAgree(r) /\ NameOf[r] \notin stranded
      BY <1>1, <1>3 DEF Derived, ChangesByDeletion
    <2>2. r # p => seen'[r] = seen[r]
      BY <1>1 DEF TypeOK
    <2>3. seen'[p] = api[p]
      BY <1>1 DEF TypeOK
    <2>4. CASE seen[p] = NoPod
      <3>1. events' = events
        BY <2>4 DEF Observe
      <3>2. CASE r = p
        BY <2>1, <2>4, <3>1, <3>2, <1>1
           DEF LookupAgrees, UpdatesAgree, NoDeletion, Updates, Deletes, DataOf
      <3>3. CASE r # p
        BY <1>1, <2>1, <2>2, <3>1, <3>3, AgreesKept
      <3> QED
        BY <3>2, <3>3
    <2>5. CASE seen[p] # NoPod /\ api[p] # NoPod
      <3>1. Notify("updated", p, api[p]) /\ api[p] \in Objects
        BY <2>5 DEF Observe, TypeOK
      <3>2. r = p => seen[p].spec = api[p].spec
        BY <1>3, <2>5 DEF Observe
      <3> QED
        BY <1>1, <2>1, <2>2, <2>3, <2>5, <3>1, <3>2, AppendAgrees
    <2>6. CASE seen[p] # NoPod /\ api[p] = NoPod
      <3>1. PICK kind \in {"deleted", "tombstone"} : Notify(kind, p, seen[p])
        BY <2>6 DEF Observe
      <3>2. seen[p] \in Objects
        BY <2>6 DEF TypeOK
      <3> QED
        BY <1>1, <2>1, <2>2, <3>1, <3>2, AppendAgrees
    <2> QED
      BY <2>4, <2>5, <2>6
  <1> QED
    BY <1>2, <1>3 DEF Derived, ChangesByDeletion

\* A replay repeats what was seen.
LEMMA ResyncDerived ==
  ASSUME UniqueNames, TypeOK, Derived, NEW p \in Pods, Resync(p)
  PROVE  Derived'
  <1>1. /\ boot = "watch" /\ boot' = boot /\ seen' = seen
        /\ UNCHANGED <<listed, evicting, lookup, held, series, missed, stranded>>
        /\ events \in Seq(Notifications) /\ seen[p] \in Objects /\ seen[p] # NoPod
    BY DEF Resync, scrapeVars, TypeOK
  <1>2. SeriesFromLookup' /\ HeldFromLookup' /\ FilledOnce'
    BY <1>1 DEF Derived, SeriesFromLookup, HeldFromLookup, Excused, FilledOnce
  <1>3. ASSUME NEW r \in Pods, NameOf[r] \notin missed' \cup stranded'
        PROVE  LookupAgrees(r)' /\ UpdatesAgree(r)'
    <2>1. LookupAgrees(r) /\ UpdatesAgree(r)
      BY <1>1, <1>3 DEF Derived, ChangesByDeletion
    <2>2. Notify("updated", p, seen[p])
      BY DEF Resync
    <2> QED
      BY <1>1, <2>1, <2>2, AppendAgrees
  <1> QED
    BY <1>2, <1>3 DEF Derived, ChangesByDeletion

\* An update that reaches the handler has the data lookup has, or finds none.
LEMMA UpdateFuncDerived ==
  ASSUME UniqueNames, TypeOK, HeldInSummary, Derived, UpdateFunc
  PROVE  Derived'
  <1> DEFINE p == Head(events).pod
             q == NameOf[p]
  <1>1. /\ events \in Seq(Notifications) /\ events # <<>> /\ events' = Tail(events)
        /\ p \in Pods /\ q \in PodNames /\ Updates(p, 1) /\ events[1] = Head(events)
        /\ evicting = NoName
    <2>1. events \in Seq(Notifications) /\ TakeEvent({"updated"})
      BY DEF TypeOK, UpdateFunc
    <2> QED
      BY <2>1, TakeEventType, QueueTaken DEF TakeEvent, Updates
  <1>2. /\ boot = "watch" /\ seen' = seen
        /\ UNCHANGED <<boot, listed, evicting, held, series, missed, stranded>>
    BY <1>1 DEF UpdateFunc, Derived, FilledOnce, scrapeVars
  <1>3. /\ \A r \in PodNames \ {q} : lookup'[r] = lookup[r]
        /\ lookup'[q] = lookup[q] \/ lookup'[q] = DataOf(1)
    BY <1>1 DEF UpdateFunc, GetPodData, DataOf, TypeOK
  <1>4. ASSUME q \notin missed \cup stranded, lookup[q] # NoData
        PROVE  lookup'[q] = lookup[q]
    <2>1. 1 \in DOMAIN events /\ NoDeletion(p, 1, 1)
      BY <1>1 DEF NoDeletion, Updates, Deletes
    <2>2. DataOf(1) = lookup[q]
      BY <1>1, <1>2, <1>4, <2>1 DEF Derived, ChangesByDeletion, LookupAgrees
    <2> QED
      BY <1>3, <2>2
  <1>5. SeriesFromLookup' /\ HeldFromLookup'
    BY <1>1, <1>2, <1>3, <1>4, EntryStored DEF Derived, Excused
  <1>6. FilledOnce'
    BY <1>1, <1>2, NoNameAssumption DEF FilledOnce
  <1>7. ASSUME NEW r \in Pods, NameOf[r] \notin missed' \cup stranded'
        PROVE  LookupAgrees(r)' /\ UpdatesAgree(r)'
    <2>1. LookupAgrees(r) /\ UpdatesAgree(r)
      BY <1>2, <1>7 DEF Derived, ChangesByDeletion
    <2>2. ~Deletes(r, 1)
      BY <1>1 DEF Updates, Deletes
    <2>3. r # p => lookup'[NameOf[r]] = lookup[NameOf[r]]
      BY <1>1, <1>3, NameAssumption DEF UniqueNames
    <2> QED
      BY <1>1, <1>2, <1>3, <2>1, <2>2, <2>3, TakeAgrees
  <1> QED
    BY <1>5, <1>6, <1>7 DEF Derived, ChangesByDeletion

\* DeleteFunc announces the name in evicting before any series is orphaned.
LEMMA DeleteFuncDerived ==
  ASSUME UniqueNames, TypeOK, HeldInSummary, Derived, DeleteFunc
  PROVE  Derived'
  <1> DEFINE p == Head(events).pod
             q == NameOf[p]
  <1>1. /\ events \in Seq(Notifications) /\ events # <<>> /\ events' = Tail(events)
        /\ p \in Pods /\ q \in PodNames /\ events[1] = Head(events) /\ Deletes(p, 1)
        /\ evicting = NoName /\ evicting' = q
    <2>1. events \in Seq(Notifications) /\ TakeEvent({"deleted", "tombstone"})
      BY DEF TypeOK, DeleteFunc
    <2> QED
      BY <2>1, TakeEventType, QueueTaken DEF DeleteFunc, TakeEvent, Deletes
  <1>2. /\ boot = "watch" /\ seen' = seen
        /\ UNCHANGED <<boot, listed, held, series, missed, stranded>>
    BY <1>1 DEF DeleteFunc, Derived, FilledOnce, scrapeVars
  <1>3. lookup'[q] = NoData /\ \A r \in PodNames \ {q} : lookup'[r] = lookup[r]
    BY <1>1 DEF DeleteFunc, TypeOK
  <1>4. SeriesFromLookup'
    <2> SUFFICES ASSUME NEW x \in series
                 PROVE  \/ NameOf[x[1]] \in missed \cup stranded \cup {q}
                        \/ /\ lookup'[NameOf[x[1]]] # NoData
                           /\ \E s \in Specs : x[2] \in Labels(lookup'[NameOf[x[1]]], s.emptyDirs)
      BY <1>1, <1>2 DEF SeriesFromLookup
    <2>1. NameOf[x[1]] \in PodNames
      BY NameAssumption DEF TypeOK
    <2> QED
      BY <1>1, <1>3, <2>1, NoNameAssumption DEF Derived, SeriesFromLookup
  <1>5. HeldFromLookup'
    BY <1>1, <1>2, <1>3, NameAssumption, NoNameAssumption
       DEF Derived, HeldFromLookup, HeldInSummary, Excused
  <1>6. FilledOnce'
    BY <1>1, <1>2, <1>3 DEF FilledOnce
  <1>7. ASSUME NEW r \in Pods, NameOf[r] \notin missed' \cup stranded'
        PROVE  LookupAgrees(r)' /\ UpdatesAgree(r)'
    <2>1. LookupAgrees(r) /\ UpdatesAgree(r)
      BY <1>2, <1>7 DEF Derived, ChangesByDeletion
    <2>2. r # p => ~Deletes(r, 1) /\ lookup'[NameOf[r]] = lookup[NameOf[r]]
      BY <1>1, <1>3, NameAssumption DEF UniqueNames, Deletes
    <2> QED
      BY <1>1, <1>2, <1>3, <2>1, <2>2, TakeAgrees
  <1> QED
    BY <1>4, <1>5, <1>6, <1>7 DEF Derived, ChangesByDeletion

\* The series go with the name; data held across the eviction is stranded.
LEMMA EvictPodByNameDerived ==
  ASSUME TypeOK, Derived, EvictPodByName
  PROVE  Derived'
  <1>1. /\ boot = "watch" /\ evicting' = NoName /\ evicting # NoName
        /\ UNCHANGED <<boot, listed, seen, events, lookup, held, missed>>
        /\ stranded \subseteq stranded'
        /\ \A x \in series' : x \in series /\ NameOf[x[1]] # evicting
        /\ held.pod # NoPod /\ held.data # NoData /\ NameOf[held.pod] = evicting
             => evicting \in stranded'
    BY DEF EvictPodByName, WithoutNames, Crossing, Derived, FilledOnce, scrapeVars
  <1>2. SeriesFromLookup' /\ HeldFromLookup'
    BY <1>1 DEF Derived, SeriesFromLookup, HeldFromLookup, Excused
  <1>3. FilledOnce' /\ ChangesByDeletion'
    BY <1>1, NoNameAssumption, ChangesKept DEF Derived, FilledOnce
  <1> QED
    BY <1>2, <1>3 DEF Derived

\* The scrape sets the labels of the data it holds.
LEMMA SetGaugesDerived ==
  ASSUME TypeOK, HeldInSummary, Derived, SetGauges
  PROVE  Derived'
  <1>1. /\ UNCHANGED <<boot, listed, seen, events, evicting, lookup, missed, stranded>>
        /\ held' = Idle /\ held.pod # NoPod
    BY DEF SetGauges, watchVars
  <1>2. summary[held.pod] \in Specs
    BY <1>1 DEF HeldInSummary, TypeOK
  <1>3. SeriesFromLookup'
    <2> SUFFICES ASSUME NEW x \in series'
                 PROVE  \/ Excused(NameOf[x[1]])
                        \/ /\ lookup[NameOf[x[1]]] # NoData
                           /\ \E s \in Specs : x[2] \in Labels(lookup[NameOf[x[1]]], s.emptyDirs)
      BY <1>1 DEF SeriesFromLookup, Excused
    <2>1. CASE x \in series
      BY <2>1 DEF Derived, SeriesFromLookup, Excused
    <2>2. CASE x \notin series
      <3>1. /\ held.data # NoData
            /\ x[1] = held.pod /\ x[2] \in Labels(held.data, summary[held.pod].emptyDirs)
        BY <2>2 DEF SetGauges
      <3> QED
        BY <1>1, <1>2, <3>1 DEF Derived, HeldFromLookup
    <2> QED
      BY <2>1, <2>2
  <1>4. HeldFromLookup'
    BY <1>1 DEF HeldFromLookup, Idle
  <1> QED
    BY <1>1, <1>3, <1>4, ChangesKept, FilledKept DEF Derived

\* Everything else leaves lookup and the watch alone.
LEMMA OtherStepsDerived ==
  ASSUME Derived, UNCHANGED <<watchVars, lookup, missed, stranded>>, series' \subseteq series,
         held' = held \/ \E p \in Pods : held' = [pod |-> p, data |-> lookup[NameOf[p]]]
  PROVE  Derived'
  <1>1. UNCHANGED <<boot, listed, seen, events, evicting>>
    BY DEF watchVars
  <1>2. SeriesFromLookup' /\ HeldFromLookup'
    BY <1>1 DEF Derived, SeriesFromLookup, HeldFromLookup, Excused
  <1> QED
    BY <1>1, <1>2, ChangesKept, FilledKept DEF Derived

\* Every step keeps the invariant.
LEMMA DerivedStep ==
  ASSUME UniqueNames, TypeOK, HeldInSummary, Derived, [Next]_vars
  PROVE  Derived'
  <1>1. CASE Cluster \/ UNCHANGED vars
    BY <1>1, OtherStepsDerived
       DEF Cluster, PodCreated, PodRuns, PodEnds, PodGoes, PodChanges, vars, scrapeVars
  <1>2. CASE ListPods
    <2>1. /\ boot = "list" /\ boot' = "load" /\ events = <<>> /\ evicting = NoName /\ missed = {}
          /\ UNCHANGED <<events, evicting, lookup, held, series, missed, stranded>>
          /\ \A q \in PodNames : lookup[q] = NoData
      BY <1>2 DEF ListPods, scrapeVars, Derived, FilledOnce
    <2>2. FilledOnce'
      BY <2>1, NameAssumption, NoNameAssumption DEF FilledOnce
    <2> QED
      BY <2>1, <2>2 DEF Derived, SeriesFromLookup, HeldFromLookup, Excused, ChangesByDeletion
  <1>3. CASE Start /\ ~ListPods
    BY <1>3, LoadPodDerived, StartWatchDerived DEF Start
  <1>4. ASSUME NEW p \in Pods, Observe(p) \/ Resync(p)
        PROVE  Derived'
    BY <1>4, ObserveDerived, ResyncDerived
  <1>5. CASE Handle
    BY <1>5, UpdateFuncDerived, DeleteFuncDerived, EvictPodByNameDerived DEF Handle
  <1>6. CASE Summarise
    BY <1>6, OtherStepsDerived DEF Summarise, WithoutNames
  <1>7. ASSUME NEW p \in Pods, ReadLookup(p)
        PROVE  Derived'
    BY <1>7, OtherStepsDerived DEF ReadLookup
  <1>8. CASE SetGauges
    BY <1>8, SetGaugesDerived
  <1> QED
    BY <1>1, <1>2, <1>3, <1>4, <1>5, <1>6, <1>7, <1>8 DEF Next, Scrape, Start

\* For pods with distinct names, a series always agrees with the entry its pod
\* has in lookup, or DeleteFunc is about to evict it, unless an eviction of the
\* name ran into a scrape or the watch never saw a pod of the name go.
THEOREM SeriesDerived == UniqueNames => (Spec => []SeriesFromLookup)
  <1> SUFFICES ASSUME UniqueNames
               PROVE  Spec => []SeriesFromLookup
    OBVIOUS
  <1>1. Init => Derived
    BY NoNameAssumption, NameAssumption
       DEF Init, Derived, SeriesFromLookup, HeldFromLookup, FilledOnce, ChangesByDeletion,
           NoPods, Idle
  <1>2. TypeOK /\ HeldInSummary /\ Derived /\ [Next]_vars => Derived'
    BY DerivedStep
  <1>3. Derived => SeriesFromLookup
    BY DEF Derived
  <1> QED
    BY <1>1, <1>2, <1>3, TypesInvariant, PTL DEF Spec

-----------------------------------------------------------------------------
(***************************************************************************)
(* The tracker and the series of the node implement AtomicScrapes.         *)
(***************************************************************************)
Step == [Atomic!Next]_<<lastSeen, Exported>>

\* A step that leaves the tracker, the summary and the pods with series alone.
LEMMA Unseen ==
  ASSUME UNCHANGED <<lastSeen, summary, series>>
  PROVE  Step
  BY DEF Step, Exported

\* A step that only takes pods of one name away is a loss.
LEMMA Loss ==
  ASSUME NEW q \in PodNames, UNCHANGED lastSeen, Exported' \subseteq Exported,
         \A p \in Exported \ Exported' : NameOf[p] = q
  PROVE  Step
  <1> DEFINE lost == Exported \ Exported'
  <1>1. Exported' = Exported \ lost
    OBVIOUS
  <1>2. lost \in SUBSET Pods
    BY DEF Exported
  <1>3. Atomic!Lose(q, lost)
    BY <1>1 DEF Atomic!Lose
  <1> QED
    BY <1>2, <1>3 DEF Step, Atomic!Next

\* A summary is the whole scrape: the pods in it count from here on, those of
\* stale names are gone.
LEMMA SummaryIsScrape ==
  ASSUME TypeOK, Summarise
  PROVE  Step
  <1> DEFINE reported == {p \in Pods : api[p] # NoPod /\ api[p].phase = "Running"}
             names    == Names(reported)
             measured == {p \in Pods : summary'[p] # NoPod}
  <1>1. /\ summary = NoPods
        /\ summary' = [p \in Pods |-> IF p \in reported THEN api[p].spec ELSE NoPod]
        /\ lastSeen' = AfterScrape(lastSeen, names)
        /\ series' = WithoutNames(StaleNames(lastSeen, names))
    BY Zenon DEF Summarise
  <1>2. measured \subseteq reported
    BY <1>1
  <1>3. names \in SUBSET PodNames /\ measured \in SUBSET {p \in Pods : NameOf[p] \in names}
    BY <1>2, NameAssumption DEF Names
  <1>4. Exported' = {p \in Exported : NameOf[p] \notin StaleNames(lastSeen, names)} \cup measured
    <2>1. Exported = {p \in Pods : \E x \in series : x[1] = p}
      BY <1>1 DEF Exported, NoPods
    <2>2. Exported' = measured \cup {p \in Pods : \E x \in series' : x[1] = p}
      BY DEF Exported
    <2> HIDE DEF names, measured
    <2>3. {p \in Pods : \E x \in series' : x[1] = p}
            = {p \in Exported : NameOf[p] \notin StaleNames(lastSeen, names)}
      BY <1>1, <2>1 DEF WithoutNames
    <2> QED
      BY <2>2, <2>3
  <1> HIDE DEF names, measured
  <1>5. Atomic!StaleNames(lastSeen, names) = StaleNames(lastSeen, names)
    BY DEF Atomic!StaleNames, StaleNames, Atomic!ReachesTolerance, ReachesTolerance,
           Atomic!NotTracked, NotTracked, Atomic!scrapeMissTolerance, scrapeMissTolerance
  <1>6. Atomic!AfterScrape(lastSeen, names) = AfterScrape(lastSeen, names)
    BY <1>5 DEF Atomic!AfterScrape, AfterScrape, Atomic!Reset, Reset, Atomic!NotTracked, NotTracked
  <1>7. Atomic!Scrape(names, measured)
    BY <1>1, <1>4, <1>5, <1>6 DEF Atomic!Scrape, Atomic!Without
  <1> QED
    BY <1>3, <1>7 DEF Step, Atomic!Next

\* Gauges set late add no pod; a pod that gets none, having no entry, is lost.
LEMMA GaugesNotSeen ==
  ASSUME TypeOK, HeldInSummary, SetGauges
  PROVE  Step
  <1> DEFINE p == held.pod
  <1>1. /\ p \in Pods /\ NameOf[p] \in PodNames /\ p \in Exported
        /\ lastSeen' = lastSeen /\ series \subseteq series'
        /\ \A x \in series' \ series : x[1] = p
        /\ \A r \in Pods \ {p} : summary'[r] = summary[r]
    BY NameAssumption DEF SetGauges, HeldInSummary, Exported, TypeOK
  <1>2. Exported' \subseteq Exported /\ Exported \ Exported' \subseteq {p}
    BY <1>1 DEF Exported
  <1> QED
    BY <1>1, <1>2, Loss

\* DeleteFunc takes away pods of one name; those still in the summary stay.
LEMMA DeletionIsLoss ==
  ASSUME TypeOK, EvictPodByName
  PROVE  Step
  <1>1. /\ evicting \in PodNames /\ lastSeen' = lastSeen /\ summary' = summary
        /\ series' = WithoutNames({evicting})
    BY DEF EvictPodByName, TypeOK, scrapeVars
  <1>2. Exported' \subseteq Exported /\ \A p \in Exported \ Exported' : NameOf[p] = evicting
    BY <1>1 DEF Exported, WithoutNames
  <1> QED
    BY <1>1, <1>2, Loss

\* A summary's gauges may be set long after EvictStalePods has counted its
\* names, with deletions, updates and the list in between: the tracker and the
\* pods exported still change as AtomicScrapes says, names shared or not.
THEOREM ScrapesAreAtomic == Spec => ScrapesAtomic
  <1>1. Init => Atomic!Init
    BY DEF Init, Atomic!Init, Exported, NoPods, Atomic!EmptyTracker, EmptyTracker,
           Atomic!NotTracked, NotTracked
  <1>2. TypeOK /\ HeldInSummary /\ [Next]_vars => [Atomic!Next]_<<lastSeen, Exported>>
    <2> SUFFICES ASSUME TypeOK, HeldInSummary, [Next]_vars
                 PROVE  Step
      BY DEF Step
    <2>1. CASE Summarise
      BY <2>1, SummaryIsScrape
    <2>2. CASE SetGauges
      BY <2>2, GaugesNotSeen
    <2>3. CASE EvictPodByName
      BY <2>3, DeletionIsLoss
    <2>4. CASE Cluster \/ Start \/ UNCHANGED vars
      BY <2>4, Unseen
         DEF Cluster, PodCreated, PodRuns, PodEnds, PodGoes, PodChanges,
             Start, ListPods, LoadPod, StartWatch, vars, scrapeVars
    <2>5. ASSUME NEW p \in Pods, Observe(p) \/ Resync(p) \/ ReadLookup(p)
          PROVE  Step
      BY <2>5, Unseen DEF Observe, Resync, ReadLookup, scrapeVars
    <2>6. CASE UpdateFunc \/ DeleteFunc
      BY <2>6, Unseen DEF UpdateFunc, DeleteFunc, scrapeVars
    <2> QED
      BY <2>1, <2>2, <2>3, <2>4, <2>5, <2>6 DEF Next, Handle, Scrape
  <1> QED
    BY <1>1, <1>2, TypesInvariant, PTL DEF Spec, ScrapesAtomic, Atomic!Spec, Atomic!vars
-----------------------------------------------------------------------------
(***************************************************************************)
(* The strengthening of EntriesForgettable: the last notification of a pod *)
(* that the informer no longer knows is of its deletion.                   *)
(***************************************************************************)
DeletedAfter(p, i) == \E j \in DOMAIN events : i <= j /\ Deletes(p, j)

DeletedLast == \A i \in DOMAIN events : seen[events[i].pod] = NoPod => DeletedAfter(events[i].pod, i)

Forgettable ==
  /\ boot # "watch" => events = <<>>
  /\ DeletedLast
  /\ EntriesForgettable

\* Notifications are of pods.
LEMMA NotifiedPods ==
  ASSUME TypeOK
  PROVE  \A i \in DOMAIN events : events[i].pod \in Pods
  <1>1. events \in Seq(Notifications)
    BY DEF TypeOK
  <1>2. \A i \in DOMAIN events : events[i] \in Notifications
    BY <1>1
  <1> QED
    BY <1>2 DEF Notifications

\* A notification of a pod is sent while the informer knows it, or says that it
\* is gone.
LEMMA AppendForgettable ==
  ASSUME TypeOK, Forgettable, NEW p \in Pods, NEW object \in Objects,
         NEW kind \in {"updated", "deleted", "tombstone"}, Notify(kind, p, object),
         kind # "updated" \/ seen'[p] # NoPod,
         \A r \in Pods \ {p} : seen'[r] = seen[r],
         boot = "watch", UNCHANGED <<boot, lookup, missed>>
  PROVE  Forgettable'
  <1> DEFINE e == [kind |-> kind, pod |-> p, object |-> object]
  <1>0. PICK N \in Nat : N = Len(events)
    BY DEF TypeOK
  <1>1. /\ DOMAIN events = 1..N /\ DOMAIN events' = 1..(N + 1)
        /\ \A k \in 1..N : events'[k] = events[k]
        /\ events'[N + 1] = e
    <2>1. events \in Seq(Notifications) /\ e \in Notifications /\ events' = Append(events, e)
      BY DEF Notify, Notifications, TypeOK
    <2> QED
      BY <1>0, <2>1, QueueAppended
  <1>2. \A i \in 1..N : events[i].pod \in Pods
    BY <1>1, NotifiedPods
  <1>3. DeletedLast'
    <2> SUFFICES ASSUME NEW i \in 1..(N + 1), seen'[events'[i].pod] = NoPod
                 PROVE  \E j \in 1..(N + 1) :
                          i <= j /\ events'[j].pod = events'[i].pod /\ events'[j].kind # "updated"
      BY <1>1 DEF DeletedLast, DeletedAfter, Deletes
    <2>1. CASE events'[i].pod = p
      BY <1>1, <2>1
    <2>2. CASE events'[i].pod # p
      <3>1. i \in 1..N /\ seen[events[i].pod] = NoPod
        BY <1>1, <1>2, <2>2
      <3> QED
        BY <1>1, <3>1 DEF Forgettable, DeletedLast, DeletedAfter, Deletes
    <2> QED
      BY <2>1, <2>2
  <1>4. \A r \in Pods : seen[r] # NoPod \/ PodDeletionPending(r) =>
          seen'[r] # NoPod \/ PodDeletionPending(r)'
    BY <1>1 DEF PodDeletionPending
  <1> QED
    BY <1>3, <1>4 DEF Forgettable, EntriesForgettable

\* UpdateFunc stores the entry of a pod that is known or whose deletion is on
\* its way still, and DeleteFunc removes the entry of the name.
LEMMA TakeForgettable ==
  ASSUME TypeOK, Forgettable, UpdateFunc \/ DeleteFunc
  PROVE  Forgettable'
  <1> DEFINE p == Head(events).pod
  <1>1. /\ events \in Seq(Notifications) /\ events # <<>> /\ events' = Tail(events)
        /\ p \in Pods /\ NameOf[p] \in PodNames
    <2>1. events \in Seq(Notifications)
      BY DEF TypeOK
    <2>2. \E kinds : TakeEvent(kinds)
      BY DEF UpdateFunc, DeleteFunc
    <2> QED
      BY <2>1, <2>2, TakeEventType DEF TakeEvent
  <1>0. PICK N \in Nat : N = Len(events)
    BY <1>1
  <1>2. /\ 1 <= N
        /\ DOMAIN events = 1..N /\ DOMAIN events' = 1..(N - 1)
        /\ \A k \in 1..(N - 1) : events'[k] = events[k + 1]
        /\ p = events[1].pod /\ Head(events) = events[1]
    BY <1>0, <1>1, QueueTaken
  <1>3. boot = "watch" /\ UNCHANGED <<boot, seen, missed>>
    BY <1>1 DEF UpdateFunc, DeleteFunc, Forgettable
  <1>4. DeletedLast'
    <2> SUFFICES ASSUME NEW i \in 1..(N - 1), seen[events'[i].pod] = NoPod
                 PROVE  \E j \in 1..(N - 1) :
                          i <= j /\ events'[j].pod = events'[i].pod /\ events'[j].kind # "updated"
      BY <1>2, <1>3 DEF DeletedLast, DeletedAfter, Deletes
    <2>1. PICK j \in 1..N :
            i + 1 <= j /\ events[j].pod = events[i + 1].pod /\ events[j].kind # "updated"
      <3>1. i + 1 \in 1..N /\ seen[events[i + 1].pod] = NoPod
        BY <1>2
      <3> QED
        BY <1>2, <3>1 DEF Forgettable, DeletedLast, DeletedAfter, Deletes
    <2>2. j - 1 \in 1..(N - 1) /\ events'[j - 1] = events[j] /\ events'[i] = events[i + 1]
      BY <1>2, <2>1
    <2> QED
      BY <2>1, <2>2
  <1>5. \A r \in Pods, j \in 2..N : Deletes(r, j) => PodDeletionPending(r)'
    <2> SUFFICES ASSUME NEW r \in Pods, NEW j \in 2..N, Deletes(r, j)
                 PROVE  PodDeletionPending(r)'
      OBVIOUS
    <2>1. j - 1 \in 1..(N - 1) /\ events'[j - 1] = events[j]
      BY <1>2
    <2> QED
      BY <1>2, <2>1 DEF PodDeletionPending, Deletes
  <1>6. \A r \in Pods : (PodDeletionPending(r) /\ ~Deletes(r, 1)) => PodDeletionPending(r)'
    <2> SUFFICES ASSUME NEW r \in Pods, PodDeletionPending(r), ~Deletes(r, 1)
                 PROVE  PodDeletionPending(r)'
      OBVIOUS
    <2>1. PICK j \in 1..N : Deletes(r, j)
      BY <1>2 DEF PodDeletionPending, Deletes
    <2> QED
      BY <1>5, <2>1
  <1>7. EntriesForgettable'
    <2> SUFFICES ASSUME NEW q \in PodNames \ missed, lookup'[q] # NoData
                 PROVE  \E r \in Pods :
                          NameOf[r] = q /\ (seen[r] # NoPod \/ PodDeletionPending(r)')
      BY <1>3 DEF EntriesForgettable
    <2>1. CASE UpdateFunc
      <3>1. ~(\E r \in Pods : Deletes(r, 1))
        BY <1>2, <2>1 DEF UpdateFunc, TakeEvent, Deletes
      <3>2. CASE q = NameOf[p]
        <4>1. seen[p] = NoPod => \E j \in 2..N : Deletes(p, j)
          <5> SUFFICES ASSUME seen[p] = NoPod
                       PROVE  \E j \in 2..N : Deletes(p, j)
            OBVIOUS
          <5>1. PICK j \in 1..N : Deletes(p, j)
            BY <1>2 DEF Forgettable, DeletedLast, DeletedAfter
          <5> QED
            BY <1>1, <1>2, <3>1, <5>1
        <4> QED
          BY <1>1, <1>5, <3>2, <4>1
      <3>3. CASE q # NameOf[p]
        <4>1. lookup[q] # NoData
          BY <2>1, <3>3 DEF UpdateFunc, GetPodData, TypeOK
        <4> QED
          BY <1>3, <1>6, <3>1, <4>1 DEF Forgettable, EntriesForgettable
      <3> QED
        BY <3>2, <3>3
    <2>2. CASE DeleteFunc
      <3>1. lookup[q] # NoData /\ q # NameOf[p]
        BY <1>1, <2>2 DEF DeleteFunc, TypeOK
      <3>2. \A r \in Pods : NameOf[r] = q => ~Deletes(r, 1)
        BY <1>2, <3>1 DEF Deletes
      <3> QED
        BY <1>3, <1>6, <3>1, <3>2 DEF Forgettable, EntriesForgettable
    <2> QED
      BY <2>1, <2>2
  <1> QED
    BY <1>3, <1>4, <1>7 DEF Forgettable

\* Every step keeps the invariant.
LEMMA ForgettableStep ==
  ASSUME TypeOK, Forgettable, [Next]_vars
  PROVE  Forgettable'
  <1>1. ASSUME UNCHANGED <<boot, seen, events, lookup, missed>>
        PROVE  Forgettable'
    BY <1>1 DEF Forgettable, DeletedLast, DeletedAfter, Deletes, EntriesForgettable, PodDeletionPending
  <1>2. CASE Cluster \/ Scrape \/ EvictPodByName \/ UNCHANGED vars
    BY <1>1, <1>2
       DEF Cluster, PodCreated, PodRuns, PodEnds, PodGoes, PodChanges, EvictPodByName,
           Scrape, Summarise, ReadLookup, SetGauges, watchVars, vars
  <1>3. CASE ListPods \/ \E p \in Pods : LoadPod(p)
    <2>1. events = <<>> /\ events' = <<>> /\ boot' # "watch"
      BY <1>3 DEF ListPods, LoadPod, Forgettable
    <2> QED
      BY <2>1 DEF Forgettable, DeletedLast, EntriesForgettable
  <1>4. CASE StartWatch
    <2>1. events = <<>> /\ events' = <<>> /\ lookup' = lookup /\ seen' = api /\ boot' = "watch"
      BY <1>4 DEF StartWatch, Forgettable
    <2>2. \A q \in PodNames \ missed' :
            lookup[q] # NoData => \E p \in Pods : NameOf[p] = q /\ api[p] # NoPod
      BY <1>4 DEF StartWatch
    <2> QED
      BY <2>1, <2>2 DEF Forgettable, DeletedLast, EntriesForgettable
  <1>5. ASSUME NEW p \in Pods, Observe(p)
        PROVE  Forgettable'
    <2>1. /\ boot = "watch" /\ UNCHANGED <<boot, lookup, missed>>
          /\ seen'[p] = api[p] /\ \A r \in Pods \ {p} : seen'[r] = seen[r]
      BY <1>5 DEF Observe, TypeOK
    <2>2. CASE seen[p] = NoPod
      <3>1. events' = events /\ seen'[p] # NoPod
        BY <1>5, <2>1, <2>2 DEF Observe
      <3>2. \A i \in DOMAIN events : events[i].pod \in Pods
        BY NotifiedPods
      <3>3. DeletedLast'
        BY <2>1, <3>1, <3>2 DEF Forgettable, DeletedLast, DeletedAfter, Deletes
      <3>4. EntriesForgettable'
        BY <2>1, <3>1 DEF Forgettable, EntriesForgettable, PodDeletionPending
      <3> QED
        BY <2>1, <3>3, <3>4 DEF Forgettable
    <2>3. CASE seen[p] # NoPod /\ api[p] # NoPod
      <3>1. Notify("updated", p, api[p]) /\ api[p] \in Objects /\ seen'[p] # NoPod
        BY <1>5, <2>1, <2>3 DEF Observe, TypeOK
      <3> QED
        BY <2>1, <3>1, AppendForgettable
    <2>4. CASE seen[p] # NoPod /\ api[p] = NoPod
      <3>1. seen[p] \in Objects /\ \E kind \in {"deleted", "tombstone"} : Notify(kind, p, seen[p])
        BY <1>5, <2>4 DEF Observe, TypeOK
      <3> QED
        BY <2>1, <3>1, AppendForgettable
    <2> QED
      BY <2>2, <2>3, <2>4
  <1>6. ASSUME NEW p \in Pods, Resync(p)
        PROVE  Forgettable'
    <2>1. /\ boot = "watch" /\ UNCHANGED <<boot, lookup, missed, seen>> /\ seen'[p] # NoPod
          /\ seen[p] \in Objects /\ Notify("updated", p, seen[p])
      BY <1>6 DEF Resync, TypeOK
    <2> QED
      BY <2>1, AppendForgettable
  <1>7. CASE UpdateFunc \/ DeleteFunc
    BY <1>7, TakeForgettable
  <1> QED
    BY <1>2, <1>3, <1>4, <1>5, <1>6, <1>7 DEF Next, Start, Handle

\* Names shared or not, and whatever gaps the watch has: an entry of lookup is
\* of a pod the informer knows or whose deletion DeleteFunc has still to hear
\* of, unless a pod of its name went between the two lists.
THEOREM EntriesForgotten == Spec => []EntriesForgettable
  <1>1. Init => Forgettable
    BY DEF Init, Forgettable, DeletedLast, EntriesForgettable
  <1>2. TypeOK /\ Forgettable /\ [Next]_vars => Forgettable'
    BY ForgettableStep
  <1>3. Forgettable => EntriesForgettable
    BY DEF Forgettable
  <1> QED
    BY <1>1, <1>2, <1>3, TypeCorrect, PTL DEF Spec
=============================================================================
