-------------------------- MODULE PodTrackerProofs --------------------------
(***************************************************************************)
(* PodTracker is correct for every set of pods, every tolerance and every  *)
(* number of scrapes.                                                      *)
(***************************************************************************)
EXTENDS PodTracker, TLAPS

\* Whatever the environment variable says, at least one miss is needed.
LEMMA ToleranceIsPositive == scrapeMissTolerance \in Nat /\ scrapeMissTolerance >= 1
  BY MissToleranceAssumption DEF scrapeMissTolerance

\* The names of pods are names.
LEMMA NamesAreNames ==
  ASSUME NEW S \in SUBSET Pods
  PROVE  Names(S) \subseteq PodNames
  BY NameAssumption DEF Names

\* EvictStalePods leaves a well-formed tracker, in which a name of the summary
\* counts no miss, an evicted name is unknown and every other name that was
\* tracked counts one miss more.
LEMMA AfterScrapeCounts ==
  ASSUME NEW seen \in LastSeen, NEW names \in SUBSET PodNames, NEW q \in PodNames
  PROVE  /\ AfterScrape(seen, names) \in LastSeen
         /\ q \in names => AfterScrape(seen, names)[q] = 0
         /\ q \in StaleNames(seen, names) => AfterScrape(seen, names)[q] = NotTracked
         /\ q \notin names /\ seen[q] = NotTracked
              => AfterScrape(seen, names)[q] = NotTracked
         /\ q \notin names \cup StaleNames(seen, names) /\ seen[q] # NotTracked
              => AfterScrape(seen, names)[q] = seen[q] + 1
  <1>1. AfterScrape(seen, names) \in LastSeen
    BY DEF AfterScrape, LastSeen, NotTracked, Reset
  <1>2. AfterScrape(seen, names)[q] =
          IF q \in names THEN 0
          ELSE IF seen[q] = NotTracked \/ q \in StaleNames(seen, names)
               THEN NotTracked
               ELSE seen[q] + 1
    BY DEF AfterScrape, Reset
  <1>3. q \in StaleNames(seen, names) => q \notin names
    BY DEF StaleNames
  <1> QED
    BY <1>1, <1>2, <1>3

-----------------------------------------------------------------------------
\* Every state of the tracker is well formed.
THEOREM TypeCorrect == Spec => []TypeOK
  <1>1. Init => TypeOK
    BY DEF Init, TypeOK, LastSeen, EmptyTracker, NotTracked
  <1>2. TypeOK /\ [Next]_vars => TypeOK'
    <2> SUFFICES ASSUME TypeOK, [Next]_vars
                 PROVE  TypeOK'
      OBVIOUS
    <2>1. ASSUME NEW present \in SUBSET Pods, NEW measured \in SUBSET present,
                 Scrape(present, measured)
          PROVE  TypeOK'
      <3>1. CurrentPods(present, measured) \in SUBSET PodNames
        BY NamesAreNames DEF CurrentPods
      <3>2. lastSeen' \in LastSeen
        BY <2>1, <3>1 DEF Scrape, AfterScrape, Reset, TypeOK, LastSeen, NotTracked
      <3> QED
        BY <2>1, <3>2 DEF Scrape, TypeOK, EvictPodByName
    <2>2. CASE EvictNode
      BY <2>2 DEF EvictNode, TypeOK, TrackerDeleted, EmptyTracker, LastSeen, NotTracked
    <2>3. CASE UNCHANGED vars
      BY <2>3 DEF vars, TypeOK
    <2> QED
      BY <2>1, <2>2, <2>3 DEF Next
  <1> QED
    BY <1>1, <1>2, PTL DEF Spec

-----------------------------------------------------------------------------
\* No exported pod is forgotten by the tracker, even when pods share names.
THEOREM ExportedTracked == Spec => []ExportedAreTracked
  <1>1. Init => ExportedAreTracked
    BY DEF Init, ExportedAreTracked
  <1>2. TypeOK /\ ExportedAreTracked /\ [Next]_vars => ExportedAreTracked'
    <2> SUFFICES ASSUME TypeOK, ExportedAreTracked, [Next]_vars
                 PROVE  ExportedAreTracked'
      OBVIOUS
    <2>1. ASSUME NEW present \in SUBSET Pods, NEW measured \in SUBSET present,
                 Scrape(present, measured), NEW p \in exported'
          PROVE  lastSeen'[NameOf[p]] # NotTracked
      <3> DEFINE current == CurrentPods(present, measured)
                 gone == StaleNames(lastSeen, current)
      <3>1. p \in Pods /\ NameOf[p] \in PodNames /\ lastSeen \in LastSeen
        BY <2>1, NameAssumption DEF Scrape, TypeOK, EvictPodByName
      <3>2. current \in SUBSET PodNames
        BY NamesAreNames DEF CurrentPods
      <3>3. lastSeen' = AfterScrape(lastSeen, current)
        BY <2>1 DEF Scrape
      <3>4. CASE NameOf[p] \in current
        BY <3>1, <3>2, <3>3, <3>4, AfterScrapeCounts DEF NotTracked
      <3>5. CASE NameOf[p] \notin current
        <4>1. p \notin measured
          BY <3>5 DEF CurrentPods, Names
        <4>2. p \in exported /\ NameOf[p] \notin gone
          BY <2>1, <4>1 DEF Scrape, EvictPodByName
        <4>3. lastSeen[NameOf[p]] \in Nat
          BY <3>1, <4>2 DEF ExportedAreTracked, LastSeen
        <4>4. lastSeen'[NameOf[p]] = lastSeen[NameOf[p]] + 1
          BY <3>1, <3>2, <3>3, <3>5, <4>2, <4>3, AfterScrapeCounts DEF NotTracked
        <4> QED
          BY <4>3, <4>4 DEF NotTracked
      <3> QED
        BY <3>4, <3>5
    <2>2. CASE EvictNode
      BY <2>2 DEF EvictNode, ExportedAreTracked
    <2>3. CASE UNCHANGED vars
      BY <2>3 DEF vars, ExportedAreTracked
    <2> QED
      BY <2>1, <2>2, <2>3 DEF Next, ExportedAreTracked
  <1> QED
    BY <1>1, <1>2, TypeCorrect, PTL DEF Spec

-----------------------------------------------------------------------------
(***************************************************************************)
(* The meaning of the miss counts.  It is inductive together with the fact *)
(* that no pod was last reported in the future.                            *)
(***************************************************************************)
LastInPast == \A p \in Pods : lastIn[p] <= scrapes

Counting == TypeOK /\ LastInPast /\ CountsConsecutiveMisses

\* Distinct pods of a node have distinct names, so a name is in the summary
\* only for the pod it belongs to.
LEMMA NameOfPresent ==
  ASSUME UniqueNames, NEW present \in SUBSET Pods, NEW measured, NEW p \in Pods
  PROVE  NameOf[p] \in CurrentPods(present, measured) <=> p \in present
  BY DEF UniqueNames, CurrentPods, Names

\* One scrape keeps the counts right.
LEMMA ScrapeCounts ==
  ASSUME UniqueNames, Counting,
         NEW present \in SUBSET Pods, NEW measured \in SUBSET present,
         Scrape(present, measured)
  PROVE  LastInPast' /\ CountsConsecutiveMisses'
  <1> DEFINE current == CurrentPods(present, measured)
             T == scrapeMissTolerance
  <1>1. scrapes \in Nat /\ lastIn \in [Pods -> Nat] /\ scrapes' = scrapes + 1
    BY DEF Counting, TypeOK, Scrape
  <1>2. ASSUME NEW p \in Pods
        PROVE  /\ lastIn'[p] = IF p \in present THEN scrapes + 1 ELSE lastIn[p]
               /\ lastIn[p] <= scrapes
    BY DEF Scrape, Counting, LastInPast
  <1>3. LastInPast'
    BY <1>1, <1>2 DEF LastInPast
  <1>4. ASSUME NEW p \in Pods
        PROVE  lastSeen'[NameOf[p]] =
                 IF lastIn'[p] > 0 /\ scrapes' - lastIn'[p] < T
                 THEN scrapes' - lastIn'[p]
                 ELSE NotTracked
    <2> DEFINE q == NameOf[p]
    <2>1. q \in PodNames /\ lastSeen \in LastSeen /\ current \in SUBSET PodNames
      BY NameAssumption, NamesAreNames DEF Counting, TypeOK, CurrentPods
    <2>2. lastSeen' = AfterScrape(lastSeen, current)
      BY DEF Scrape
    <2>3. lastSeen[q] = IF lastIn[p] > 0 /\ scrapes - lastIn[p] < T
                        THEN scrapes - lastIn[p] ELSE NotTracked
      BY DEF Counting, CountsConsecutiveMisses
    <2>4. T \in Nat /\ T >= 1
      BY ToleranceIsPositive
    <2>5. lastIn[p] \in Nat
      BY <1>1
    <2>6. CASE p \in present
      <3>1. lastSeen'[q] = 0
        BY <2>1, <2>2, <2>6, NameOfPresent, AfterScrapeCounts
      <3> QED
        BY <1>1, <1>2, <2>4, <2>6, <3>1
    <2>7. CASE p \notin present
      <3>1. q \notin current
        BY <2>7, NameOfPresent
      <3>2. lastIn'[p] = lastIn[p] /\ lastIn[p] <= scrapes
        BY <1>2, <2>7
      <3>3. CASE lastSeen[q] = NotTracked
        <4>1. lastSeen'[q] = NotTracked
          BY <2>1, <2>2, <3>1, <3>3, AfterScrapeCounts
        <4>2. ~(lastIn[p] > 0 /\ scrapes - lastIn[p] < T)
          BY <1>1, <2>3, <2>5, <3>2, <3>3 DEF NotTracked
        <4> QED
          BY <1>1, <2>4, <2>5, <3>2, <4>1, <4>2
      <3>4. CASE lastSeen[q] # NotTracked
        <4>1. lastSeen[q] = scrapes - lastIn[p] /\ lastIn[p] > 0
          BY <2>3, <3>4
        <4>2. q \in StaleNames(lastSeen, current) <=> scrapes - lastIn[p] + 1 >= T
          BY <2>1, <3>1, <3>4, <4>1 DEF StaleNames, ReachesTolerance
        <4>3. lastSeen'[q] = IF scrapes - lastIn[p] + 1 >= T
                             THEN NotTracked ELSE scrapes - lastIn[p] + 1
          BY <2>1, <2>2, <3>1, <3>4, <4>1, <4>2, AfterScrapeCounts
        <4> QED
          BY <1>1, <2>4, <2>5, <3>2, <4>1, <4>3
      <3> QED
        BY <3>3, <3>4
    <2> QED
      BY <2>6, <2>7
  <1> QED
    BY <1>3, <1>4 DEF CountsConsecutiveMisses

\* The invariant that gives the counts their meaning is inductive.
LEMMA CountingInvariant == UniqueNames => (Spec => []Counting)
  <1> SUFFICES ASSUME UniqueNames
               PROVE  Spec => []Counting
    OBVIOUS
  <1>1. Init => LastInPast /\ CountsConsecutiveMisses
    BY NameAssumption
    DEF Init, LastInPast, CountsConsecutiveMisses, EmptyTracker, NotTracked
  <1>2. Counting /\ [Next]_vars => LastInPast' /\ CountsConsecutiveMisses'
    <2> SUFFICES ASSUME Counting, [Next]_vars
                 PROVE  LastInPast' /\ CountsConsecutiveMisses'
      OBVIOUS
    <2>1. ASSUME NEW present \in SUBSET Pods, NEW measured \in SUBSET present,
                 Scrape(present, measured)
          PROVE  LastInPast' /\ CountsConsecutiveMisses'
      BY <2>1, ScrapeCounts
    <2>2. CASE EvictNode
      BY <2>2, NameAssumption
      DEF EvictNode, TrackerDeleted, LastInPast, CountsConsecutiveMisses,
          EmptyTracker, NotTracked
    <2>3. CASE UNCHANGED vars
      BY <2>3 DEF vars, Counting, LastInPast, CountsConsecutiveMisses
    <2> QED
      BY <2>1, <2>2, <2>3 DEF Next
  <1> QED
    BY <1>1, <1>2, TypeCorrect, PTL DEF Spec, Counting

\* For every tolerance and any pods with distinct names, the count of a name is
\* the number of consecutive scrapes its pod has been missing from.
THEOREM CountsCorrect == UniqueNames => (Spec => []CountsConsecutiveMisses)
  BY CountingInvariant, PTL DEF Counting

-----------------------------------------------------------------------------
\* One scrape drops exactly the series of pods absent for the tolerance.
LEMMA ScrapeKeepsPromise ==
  ASSUME UniqueNames, Counting, ExportedAreTracked,
         NEW present \in SUBSET Pods, NEW measured \in SUBSET present,
         Scrape(present, measured)
  PROVE  Promise!Scrape(present, measured)
  <1> DEFINE current == CurrentPods(present, measured)
             T == scrapeMissTolerance
  <1>1. scrapes \in Nat /\ scrapes' = scrapes + 1 /\ exported \subseteq Pods
    BY DEF Counting, TypeOK, Scrape
  <1>2. lastIn' = [p \in Pods |-> IF p \in present THEN scrapes' ELSE lastIn[p]]
    BY <1>1 DEF Scrape
  <1>3. ASSUME NEW p \in exported
        PROVE  NameOf[p] \in StaleNames(lastSeen, current)
                 <=> scrapes' - lastIn'[p] >= T
    <2>1. p \in Pods /\ NameOf[p] \in PodNames
      BY <1>1, NameAssumption
    <2>2. lastSeen[NameOf[p]] = scrapes - lastIn[p] /\ lastIn[p] \in Nat
      BY <2>1 DEF ExportedAreTracked, Counting, CountsConsecutiveMisses, TypeOK
    <2>3. lastSeen[NameOf[p]] # NotTracked
      BY DEF ExportedAreTracked
    <2>4. NameOf[p] \in current <=> p \in present
      BY <2>1, NameOfPresent
    <2>5. T \in Nat /\ T >= 1
      BY ToleranceIsPositive
    <2>6. lastIn'[p] = IF p \in present THEN scrapes + 1 ELSE lastIn[p]
      BY <1>1, <1>2, <2>1
    <2>7. NameOf[p] \in StaleNames(lastSeen, current)
            <=> p \notin present /\ scrapes - lastIn[p] + 1 >= T
      BY <2>1, <2>2, <2>3, <2>4 DEF StaleNames, ReachesTolerance
    <2> QED
      BY <1>1, <2>2, <2>5, <2>6, <2>7
  <1>4. exported' = {p \in exported : ~(scrapes' - lastIn'[p] >= T)} \cup measured
    BY <1>3 DEF Scrape, EvictPodByName
  <1> QED
    BY <1>1, <1>2, <1>4 DEF Promise!Scrape, Promise!Absent

\* The tracker implements the promise of the doc comment of EvictStalePods, for
\* every tolerance and any pods with distinct names.
THEOREM PromiseKept == UniqueNames => (Spec => KeepsPromise)
  <1> SUFFICES ASSUME UniqueNames
               PROVE  Spec => KeepsPromise
    OBVIOUS
  <1>1. Init => Promise!Init
    BY DEF Init, Promise!Init
  <1>2. Counting /\ ExportedAreTracked /\ [Next]_vars => [Promise!Next]_(Promise!vars)
    <2> SUFFICES ASSUME Counting, ExportedAreTracked, [Next]_vars
                 PROVE  [Promise!Next]_(Promise!vars)
      OBVIOUS
    <2>1. ASSUME NEW present \in SUBSET Pods, NEW measured \in SUBSET present,
                 Scrape(present, measured)
          PROVE  Promise!Next
      BY <2>1, ScrapeKeepsPromise DEF Promise!Next
    <2>2. CASE EvictNode
      BY <2>2 DEF EvictNode, Promise!Next, Promise!EvictNode
    <2>3. CASE UNCHANGED vars
      BY <2>3 DEF vars, Promise!vars
    <2> QED
      BY <2>1, <2>2, <2>3 DEF Next
  <1> QED
    BY <1>1, <1>2, CountingInvariant, ExportedTracked, PTL
    DEF Spec, KeepsPromise, Promise!Spec
=============================================================================
