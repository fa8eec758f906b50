---------------------------- MODULE GaugesProofs ----------------------------
(***************************************************************************)
(* What SetMetrics and Node.SetMetrics set, for any summary and pod spec:  *)
(* the labels, the range of the values, and that no two values are set for *)
(* the same vec and labels.                                                *)
(***************************************************************************)
EXTENDS Gauges, TLAPS

(***************************************************************************)
(* Percentages.                                                            *)
(***************************************************************************)

\* A quotient of natural numbers is one.
LEMMA QuotientNat ==
  ASSUME NEW x \in Nat, NEW y \in Nat, y # 0
  PROVE  x \div y \in Nat
  OBVIOUS

\* A part of a capacity is at most 100 percent of it.
LEMMA PartOfCapacity ==
  ASSUME NEW used \in Nat, NEW capacity \in Nat, capacity # 0, used <= capacity
  PROVE  (used * 100) \div capacity \in 0..100
  OBVIOUS

\* However far over its limit the usage is, the percentage is at most 100.
LEMMA OfLimitRange ==
  ASSUME NEW used \in Nat, NEW limit \in Nat, limit # 0
  PROVE  OfLimit(used, limit) \in 0..100
  <1> DEFINE percentage == (used * 1024 * 100) \div (limit * 1000)
  <1>1. used * 1024 * 100 \in Nat /\ limit * 1000 \in Nat /\ limit * 1000 # 0
    OBVIOUS
  <1>2. percentage \in Nat
    BY <1>1, QuotientNat
  <1>3. OfLimit(used, limit) = IF percentage > 100 THEN 100 ELSE percentage
    BY DEF OfLimit
  <1> QED
    BY <1>2, <1>3

\* So is the percentage of the node's capacity, however much is available.
LEMMA OfNodeRange ==
  ASSUME NEW figures \in FsStats
  PROVE  OfNode(figures) \in 0..100 \cup {NaN}
  <1>1. PICK capacity \in Nat, available \in Nat :
          capacity = figures.CapacityBytes /\ available = figures.AvailableBytes
    BY DEF FsStats, BytesFigures
  <1> DEFINE used == IF capacity - available > 0 THEN capacity - available ELSE 0
  <1>2. used \in Nat /\ used <= capacity
    OBVIOUS
  <1>3. OfNode(figures) = IF capacity = 0 THEN NaN ELSE (used * 100) \div capacity
    BY <1>1 DEF OfNode
  <1> HIDE DEF used
  <1>4. capacity # 0 => (used * 100) \div capacity \in 0..100
    BY <1>2, PartOfCapacity
  <1> QED
    BY <1>3, <1>4

\* A usage percentage is a number, of any size.
LEMMA OfCapacityRange ==
  ASSUME NEW stats \in FsStats, HasUsagePercentage(stats)
  PROVE  OfCapacity(stats) \in Nat
  <1>1. stats.UsedBytes \in Nat /\ stats.CapacityBytes \in Nat
    BY DEF FsStats, BytesFigures
  <1> QED
    BY <1>1, QuotientNat DEF OfCapacity, HasUsagePercentage

-----------------------------------------------------------------------------
(***************************************************************************)
(* Labels.                                                                 *)
(***************************************************************************)
NamesPod(labels, p, n) ==
  /\ {"pod_name", "pod_namespace", "node_name"} \subseteq DOMAIN labels
  /\ labels["pod_name"] = NameOf[p]
  /\ labels["pod_namespace"] = p
  /\ labels["node_name"] = n

\* Adding a label does not touch the pod's name or its node's.
LEMMA WithNamesPod ==
  ASSUME NEW labels, NEW p, NEW n, NamesPod(labels, p, n),
         NEW name, name \notin {"pod_name", "pod_namespace", "node_name"}, NEW value
  PROVE  NamesPod(With(labels, name, value), p, n)
  BY DEF NamesPod, With

\* The labels of a pod, of its containers and of its mounts name it, and tell
\* them apart.
LEMMA PodLabelled ==
  ASSUME NEW p, NEW n
  PROVE  /\ NamesPod(PodLabels(p, n), p, n)
         /\ DOMAIN PodLabels(p, n) = {"pod_name", "pod_namespace", "node_name"}
  BY DEF NamesPod, PodLabels

\* Those of a container.
LEMMA ContainerLabelled ==
  ASSUME NEW p, NEW n, NEW c
  PROVE  /\ NamesPod(ContainerLabels(p, n, c), p, n)
         /\ DOMAIN ContainerLabels(p, n, c) =
              {"pod_name", "pod_namespace", "node_name", "container"}
         /\ ContainerLabels(p, n, c)["container"] = c
  <1> DEFINE labels == PodLabels(p, n)
  <1>1. NamesPod(labels, p, n) /\ DOMAIN labels = {"pod_name", "pod_namespace", "node_name"}
    BY PodLabelled
  <1>2. ContainerLabels(p, n, c) = With(labels, "container", c)
    BY DEF ContainerLabels
  <1> HIDE DEF labels
  <1>3. NamesPod(With(labels, "container", c), p, n)
    BY <1>1, WithNamesPod
  <1>4. /\ DOMAIN With(labels, "container", c) = DOMAIN labels \cup {"container"}
        /\ With(labels, "container", c)["container"] = c
    BY DEF With
  <1> QED
    BY <1>1, <1>2, <1>3, <1>4

\* Those of a limit, with the source of the limit.
LEMMA LimitLabelled ==
  ASSUME NEW p, NEW n, NEW c, NEW source
  PROVE  LET labels == With(ContainerLabels(p, n, c), "source", source)
         IN /\ NamesPod(labels, p, n)
            /\ DOMAIN labels =
                 {"pod_name", "pod_namespace", "node_name", "container", "source"}
            /\ labels["container"] = c
            /\ labels["source"] = source
  <1> DEFINE labels == ContainerLabels(p, n, c)
  <1>1. /\ NamesPod(labels, p, n) /\ labels["container"] = c
        /\ DOMAIN labels = {"pod_name", "pod_namespace", "node_name", "container"}
    BY ContainerLabelled
  <1> HIDE DEF labels
  <1>2. NamesPod(With(labels, "source", source), p, n)
    BY <1>1, WithNamesPod
  <1>3. /\ DOMAIN With(labels, "source", source) = DOMAIN labels \cup {"source"}
        /\ With(labels, "source", source)["source"] = source
        /\ With(labels, "source", source)["container"] = labels["container"]
    BY <1>1 DEF With
  <1> QED
    BY <1>1, <1>2, <1>3 DEF labels

\* Those of a mount.
LEMMA MountLabelled ==
  ASSUME NEW p, NEW n, NEW m
  PROVE  /\ NamesPod(MountLabels(p, n, m), p, n)
         /\ DOMAIN MountLabels(p, n, m) =
              {"pod_name", "pod_namespace", "node_name", "container", "volume_name", "mount_path"}
         /\ MountLabels(p, n, m)["volume_name"] = m.volume
  <1> DEFINE container == ContainerLabels(p, n, m.container)
             labels    == With(container, "volume_name", m.volume)
  <1>1. /\ NamesPod(container, p, n)
        /\ DOMAIN container = {"pod_name", "pod_namespace", "node_name", "container"}
    BY ContainerLabelled
  <1>2. MountLabels(p, n, m) = With(labels, "mount_path", m.path)
    BY DEF MountLabels
  <1> HIDE DEF container
  <1>3. NamesPod(labels, p, n)
    BY <1>1, WithNamesPod
  <1>4. DOMAIN labels = DOMAIN container \cup {"volume_name"} /\ labels["volume_name"] = m.volume
    BY DEF With, labels
  <1> HIDE DEF labels
  <1>5. NamesPod(With(labels, "mount_path", m.path), p, n)
    BY <1>3, WithNamesPod
  <1>6. /\ DOMAIN With(labels, "mount_path", m.path) = DOMAIN labels \cup {"mount_path"}
        /\ With(labels, "mount_path", m.path)["volume_name"] = labels["volume_name"]
    BY <1>4 DEF With
  <1> QED
    BY <1>1, <1>2, <1>4, <1>5, <1>6

-----------------------------------------------------------------------------
(***************************************************************************)
(* What SetMetrics says of a pod p of node n, family by family.            *)
(***************************************************************************)
Scopes == {"Rootfs", "Logs"}
Figures == BytesFigures \cup InodesFigures

PodSays(s, p, n, e) ==
  \E f \in {"UsedBytes"} \cup InodesFigures :
    s = Series(<<"Pod", f>>, PodLabels(p, n), e.figures[f])

FsSays(s, p, n, e) ==
  \E x \in Scopes, c \in DOMAIN e.containers, f \in Figures :
    s = Series(<<x, f>>, ContainerLabels(p, n, c), e.containers[c][x][f])

UsageSays(s, p, n, e) ==
  \E x \in Scopes, c \in DOMAIN e.containers :
    /\ HasUsagePercentage(e.containers[c][x])
    /\ s = Series(<<x, "UsagePercentage">>, ContainerLabels(p, n, c),
                  OfCapacity(e.containers[c][x]))

VolumeSays(s, d, p, n, e) ==
  \E m \in d.mounts :
    /\ m.volume \in DOMAIN e.volumes
    /\ s = Series(<<"Volume", "UsedBytes">>, MountLabels(p, n, m), e.volumes[m.volume])

VolumeLimitSays(s, d, p, n, e) ==
  \E m \in d.mounts :
    /\ m.volume \in DOMAIN e.volumes
    /\ m.sizeLimit # 0
    /\ s = Series(<<"Volume", "LimitPercentage">>, MountLabels(p, n, m),
                  OfLimit(e.volumes[m.volume], m.sizeLimit))

LimitSays(s, d, p, n, e) ==
  \E c \in DOMAIN d.limits :
    /\ d.limits[c] # 0
    /\ s = Series(<<"Container", "LimitPercentage">>,
                  With(ContainerLabels(p, n, c), "source", "container"),
                  OfLimit(e.figures.UsedBytes, d.limits[c]))

NodeLimitSays(s, d, p, n, e) ==
  \E c \in DOMAIN d.limits :
    s = Series(<<"Container", "LimitPercentage">>,
               With(ContainerLabels(p, n, c), "source", "node"), OfNode(e.figures))

Says(s, d, p, n, e) ==
  \/ PodSays(s, p, n, e)
  \/ FsSays(s, p, n, e)
  \/ UsageSays(s, p, n, e)
  \/ VolumeSays(s, d, p, n, e)
  \/ VolumeLimitSays(s, d, p, n, e)
  \/ LimitSays(s, d, p, n, e)
  \/ NodeLimitSays(s, d, p, n, e)

\* The series of the rootfs and the logs, with the flags that enable them.
EnabledScopes(flags) ==
  (IF "rootfs" \in flags THEN {"Rootfs"} ELSE {}) \cup (IF "logs" \in flags THEN {"Logs"} ELSE {})
EnabledFigures(flags) ==
  BytesFigures \cup (IF "inodes" \in flags THEN InodesFigures ELSE {})

\* FsSeries sets no others: the byte and inode figures, and the percentages.
LEMMA FsSeriesAre ==
  ASSUME NEW flags, NEW p, NEW n, NEW e, NEW s
  PROVE  s \in FsSeries(flags, p, n, e) <=>
           \/ \E x \in EnabledScopes(flags), c \in DOMAIN e.containers, f \in EnabledFigures(flags) :
                s = Series(<<x, f>>, ContainerLabels(p, n, c), e.containers[c][x][f])
           \/ \E x \in EnabledScopes(flags), c \in DOMAIN e.containers :
                /\ HasUsagePercentage(e.containers[c][x])
                /\ s = Series(<<x, "UsagePercentage">>, ContainerLabels(p, n, c),
                              OfCapacity(e.containers[c][x]))
  <1> DEFINE scopes  == (IF "rootfs" \in flags THEN {"Rootfs"} ELSE {}) \cup
                        (IF "logs" \in flags THEN {"Logs"} ELSE {})
             figures == BytesFigures \cup (IF "inodes" \in flags THEN InodesFigures ELSE {})
             Stats(x) == e.containers[x[2]][x[1]]
  <1>1. s \in FsSeries(flags, p, n, e) <=>
          \/ \E x \in scopes \X (DOMAIN e.containers) \X figures :
               s = Series(<<x[1], x[3]>>, ContainerLabels(p, n, x[2]), Stats(x)[x[3]])
          \/ \E x \in {y \in scopes \X (DOMAIN e.containers) : HasUsagePercentage(Stats(y))} :
               s = Series(<<x[1], "UsagePercentage">>, ContainerLabels(p, n, x[2]),
                          OfCapacity(Stats(x)))
    BY Zenon DEF FsSeries
  <1>2. scopes = EnabledScopes(flags) /\ figures = EnabledFigures(flags)
    BY DEF EnabledScopes, EnabledFigures
  <1> HIDE DEF scopes, figures
  <1>3. (\E x \in scopes \X (DOMAIN e.containers) \X figures :
           s = Series(<<x[1], x[3]>>, ContainerLabels(p, n, x[2]), Stats(x)[x[3]]))
        <=> \E x \in scopes, c \in DOMAIN e.containers, f \in figures :
              s = Series(<<x, f>>, ContainerLabels(p, n, c), e.containers[c][x][f])
    <2> DEFINE Is(x, c, f) == s = Series(<<x, f>>, ContainerLabels(p, n, c), e.containers[c][x][f])
    <2> HIDE DEF Is
    <2>1. (\E y \in scopes \X (DOMAIN e.containers) \X figures : Is(y[1], y[2], y[3]))
          <=> \E x \in scopes, c \in DOMAIN e.containers, f \in figures : Is(x, c, f)
      <3>1. ASSUME NEW y \in scopes \X (DOMAIN e.containers) \X figures, Is(y[1], y[2], y[3])
            PROVE  \E x \in scopes, c \in DOMAIN e.containers, f \in figures : Is(x, c, f)
        <4>1. y[1] \in scopes /\ y[2] \in DOMAIN e.containers /\ y[3] \in figures
          OBVIOUS
        <4> QED
          BY <3>1, <4>1, Zenon
      <3>2. ASSUME NEW x \in scopes, NEW c \in DOMAIN e.containers, NEW f \in figures, Is(x, c, f)
            PROVE  \E y \in scopes \X (DOMAIN e.containers) \X figures : Is(y[1], y[2], y[3])
        <4>1. <<x, c, f>> \in scopes \X (DOMAIN e.containers) \X figures
          OBVIOUS
        <4>2. <<x, c, f>>[1] = x /\ <<x, c, f>>[2] = c /\ <<x, c, f>>[3] = f
          OBVIOUS
        <4> QED
          BY <3>2, <4>1, <4>2, Zenon
      <3> QED
        BY <3>1, <3>2, Zenon
    <2> QED
      BY <2>1, Zenon DEF Is
  <1>4. (\E x \in {y \in scopes \X (DOMAIN e.containers) : HasUsagePercentage(Stats(y))} :
           s = Series(<<x[1], "UsagePercentage">>, ContainerLabels(p, n, x[2]),
                      OfCapacity(Stats(x))))
        <=> \E x \in scopes, c \in DOMAIN e.containers :
              /\ HasUsagePercentage(e.containers[c][x])
              /\ s = Series(<<x, "UsagePercentage">>, ContainerLabels(p, n, c),
                            OfCapacity(e.containers[c][x]))
    <2> DEFINE Has(x, c) == HasUsagePercentage(e.containers[c][x])
               Is(x, c)  == s = Series(<<x, "UsagePercentage">>, ContainerLabels(p, n, c),
                                       OfCapacity(e.containers[c][x]))
    <2> HIDE DEF Is, Has
    <2>1. (\E y \in {z \in scopes \X (DOMAIN e.containers) : Has(z[1], z[2])} : Is(y[1], y[2]))
          <=> \E x \in scopes, c \in DOMAIN e.containers : Has(x, c) /\ Is(x, c)
      <3>1. ASSUME NEW y \in scopes \X (DOMAIN e.containers), Has(y[1], y[2]), Is(y[1], y[2])
            PROVE  \E x \in scopes, c \in DOMAIN e.containers : Has(x, c) /\ Is(x, c)
        <4>1. y[1] \in scopes /\ y[2] \in DOMAIN e.containers
          OBVIOUS
        <4> QED
          BY <3>1, <4>1, Zenon
      <3>2. ASSUME NEW x \in scopes, NEW c \in DOMAIN e.containers, Has(x, c), Is(x, c)
            PROVE  \E y \in scopes \X (DOMAIN e.containers) : Has(y[1], y[2]) /\ Is(y[1], y[2])
        <4>1. <<x, c>> \in scopes \X (DOMAIN e.containers)
          OBVIOUS
        <4>2. <<x, c>>[1] = x /\ <<x, c>>[2] = c
          OBVIOUS
        <4> QED
          BY <3>2, <4>1, <4>2, Zenon
      <3> QED
        BY <3>1, <3>2, Zenon
    <2> QED
      BY <2>1, Zenon DEF Is, Has
  <1> QED
    BY <1>1, <1>2, <1>3, <1>4

\* Everything SetMetrics sets is in one of the seven families.
LEMMA SetMetricsSays ==
  ASSUME NEW flags, NEW d, NEW p, NEW n, NEW e, NEW s \in SetMetrics(flags, d, p, n, e)
  PROVE  Says(s, d, p, n, e)
  <1>1. CASE s \in VolumeSeries(flags, d, p, n, e)
    <2> DEFINE mounts == {m \in d.mounts : m.volume \in DOMAIN e.volumes}
               sized  == {m \in mounts : m.sizeLimit # 0}
    <2>1. \/ \E m \in IF "volumeUsage" \in flags THEN mounts ELSE {} :
              s = Series(<<"Volume", "UsedBytes">>, MountLabels(p, n, m), e.volumes[m.volume])
          \/ \E m \in IF "volumeLimits" \in flags THEN sized ELSE {} :
              s = Series(<<"Volume", "LimitPercentage">>, MountLabels(p, n, m),
                         OfLimit(e.volumes[m.volume], m.sizeLimit))
      BY <1>1, Zenon DEF VolumeSeries
    <2> QED
      BY <2>1 DEF Says, VolumeSays, VolumeLimitSays
  <1>2. CASE s \in LimitSeries(flags, d, p, n, e)
    <2>1. PICK c \in DOMAIN d.limits :
            s = IF d.limits[c] # 0
                THEN Series(<<"Container", "LimitPercentage">>,
                            With(ContainerLabels(p, n, c), "source", "container"),
                            OfLimit(e.figures.UsedBytes, d.limits[c]))
                ELSE Series(<<"Container", "LimitPercentage">>,
                            With(ContainerLabels(p, n, c), "source", "node"),
                            OfNode(e.figures))
      BY <1>2, Zenon DEF LimitSeries
    <2> QED
      BY <2>1 DEF Says, LimitSays, NodeLimitSays
  <1>3. CASE s \in FsSeries(flags, p, n, e)
    <2>1. EnabledScopes(flags) \subseteq Scopes /\ EnabledFigures(flags) \subseteq Figures
      BY DEF EnabledScopes, EnabledFigures, Scopes, Figures
    <2>2. FsSays(s, p, n, e) \/ UsageSays(s, p, n, e)
      BY <1>3, <2>1, FsSeriesAre DEF FsSays, UsageSays
    <2> QED
      BY <2>2 DEF Says
  <1>4. CASE s \in PodSeries(flags, p, n, e)
    BY <1>4 DEF PodSeries, Says, PodSays
  <1> QED
    BY <1>1, <1>2, <1>3, <1>4 DEF SetMetrics

\* Each is on a pod vec, with the labels the vec is registered with.
LEMMA SaysOfPod ==
  ASSUME NEW d, NEW p, NEW n, NEW e, NEW s, Says(s, d, p, n, e)
  PROVE  /\ s.vec \in PodVecs
         /\ NamesPod(s.labels, p, n)
         /\ DOMAIN s.labels = LabelNames(s.vec)
  <1> USE DEF Series
  <1>1. CASE PodSays(s, p, n, e)
    <2>1. PICK f \in {"UsedBytes"} \cup InodesFigures :
            s.vec = <<"Pod", f>> /\ s.labels = PodLabels(p, n)
      BY <1>1 DEF PodSays
    <2>2. s.vec \in PodVecs
      BY <2>1 DEF PodVecs, InodesVecs
    <2>3. LabelNames(s.vec) = {"pod_name", "pod_namespace", "node_name"}
      BY <2>1 DEF LabelNames
    <2> QED
      BY <2>1, <2>2, <2>3, PodLabelled
  <1>2. CASE FsSays(s, p, n, e) \/ UsageSays(s, p, n, e)
    <2>1. PICK x \in Scopes, f \in Figures \cup {"UsagePercentage"} :
            s.vec = <<x, f>> /\ \E c : s.labels = ContainerLabels(p, n, c)
      BY <1>2 DEF FsSays, UsageSays
    <2>2. s.vec \in PodVecs
      BY <2>1 DEF PodVecs, FsVecs, InodesVecs, Scopes, Figures
    <2>3. LabelNames(s.vec) = {"pod_name", "pod_namespace", "node_name", "container"}
      BY <2>1 DEF LabelNames, Scopes
    <2> QED
      BY <2>1, <2>2, <2>3, ContainerLabelled
  <1>3. CASE VolumeSays(s, d, p, n, e) \/ VolumeLimitSays(s, d, p, n, e)
    <2>1. PICK f \in {"UsedBytes", "LimitPercentage"} :
            s.vec = <<"Volume", f>> /\ \E m : s.labels = MountLabels(p, n, m)
      BY <1>3 DEF VolumeSays, VolumeLimitSays
    <2>2. s.vec \in PodVecs
      BY <2>1 DEF PodVecs, LookupVecs
    <2>3. LabelNames(s.vec) = {"pod_name", "pod_namespace", "node_name", "container",
                               "volume_name", "mount_path"}
      BY <2>1 DEF LabelNames
    <2> QED
      BY <2>1, <2>2, <2>3, MountLabelled
  <1>4. CASE LimitSays(s, d, p, n, e) \/ NodeLimitSays(s, d, p, n, e)
    <2>1. /\ s.vec = <<"Container", "LimitPercentage">>
          /\ \E c, source : s.labels = With(ContainerLabels(p, n, c), "source", source)
      BY <1>4 DEF LimitSays, NodeLimitSays
    <2>2. s.vec \in PodVecs
      BY <2>1 DEF PodVecs, LookupVecs
    <2>3. LabelNames(s.vec) = {"pod_name", "pod_namespace", "node_name", "container", "source"}
      BY <2>1 DEF LabelNames
    <2> QED
      BY <2>1, <2>2, <2>3, LimitLabelled
  <1> QED
    BY <1>1, <1>2, <1>3, <1>4 DEF Says

\* The values a series of the vec may have.
InRange(s) == s.value \in (IF s.vec[2] \in Capped THEN 0..100 ELSE Nat) \cup {NaN}

\* Of a well-formed summary and spec, each has a value in range.
LEMMA SaysInRange ==
  ASSUME NEW d, NEW p, NEW n, NEW e, NEW s, Says(s, d, p, n, e), IsEntry(e), IsContainerData(d)
  PROVE  InRange(s)
  <1> USE DEF Series, InRange, Capped
  <1>1. CASE PodSays(s, p, n, e)
    <2>1. \A f \in {"UsedBytes"} \cup InodesFigures :
            e.figures[f] \in Nat /\ f \notin Capped
      BY DEF IsEntry, FsStats, BytesFigures, InodesFigures
    <2> QED
      BY <1>1, <2>1 DEF PodSays
  <1>2. CASE FsSays(s, p, n, e)
    <2>1. \A f \in Figures, stats \in FsStats : stats[f] \in Nat /\ f \notin Capped
      BY DEF FsStats, Figures, BytesFigures, InodesFigures
    <2> QED
      BY <1>2, <2>1 DEF FsSays, IsEntry, Scopes
  <1>3. CASE UsageSays(s, p, n, e)
    BY <1>3, OfCapacityRange DEF UsageSays, IsEntry, Scopes
  <1>4. CASE VolumeSays(s, d, p, n, e)
    BY <1>4 DEF VolumeSays, IsEntry
  <1>5. CASE VolumeLimitSays(s, d, p, n, e)
    BY <1>5, OfLimitRange DEF VolumeLimitSays, IsEntry, IsContainerData
  <1>6. CASE LimitSays(s, d, p, n, e)
    <2>1. e.figures.UsedBytes \in Nat
      BY DEF IsEntry, FsStats, BytesFigures
    <2>2. PICK c \in DOMAIN d.limits :
            /\ d.limits[c] # 0
            /\ s.vec[2] = "LimitPercentage"
            /\ s.value = OfLimit(e.figures.UsedBytes, d.limits[c])
      BY <1>6 DEF LimitSays
    <2>3. s.value \in 0..100
      BY <2>1, <2>2, OfLimitRange DEF IsContainerData
    <2> QED
      BY <2>2, <2>3
  <1>7. CASE NodeLimitSays(s, d, p, n, e)
    BY <1>7, OfNodeRange DEF NodeLimitSays, IsEntry
  <1> QED
    BY <1>1, <1>2, <1>3, <1>4, <1>5, <1>6, <1>7 DEF Says

\* A family is told from the others by its vec, and the source of a limit.
LEMMA FamiliesApart ==
  ASSUME NEW d, NEW p, NEW n, NEW e, NEW s, Says(s, d, p, n, e)
  PROVE  /\ s.vec[1] = "Pod" => PodSays(s, p, n, e)
         /\ s.vec[1] \in Scopes /\ s.vec[2] # "UsagePercentage" => FsSays(s, p, n, e)
         /\ s.vec[1] \in Scopes /\ s.vec[2] = "UsagePercentage" => UsageSays(s, p, n, e)
         /\ s.vec = <<"Volume", "UsedBytes">> => VolumeSays(s, d, p, n, e)
         /\ s.vec = <<"Volume", "LimitPercentage">> => VolumeLimitSays(s, d, p, n, e)
         /\ s.vec[1] = "Container" /\ s.labels["source"] = "container" => LimitSays(s, d, p, n, e)
         /\ s.vec[1] = "Container" /\ s.labels["source"] = "node" => NodeLimitSays(s, d, p, n, e)
  <1> USE DEF Series
  <1>1. PodSays(s, p, n, e) => s.vec[1] = "Pod"
    BY DEF PodSays
  <1>2. FsSays(s, p, n, e) => s.vec[1] \in Scopes /\ s.vec[2] # "UsagePercentage"
    BY DEF FsSays, Figures, BytesFigures, InodesFigures
  <1>3. UsageSays(s, p, n, e) => s.vec[1] \in Scopes /\ s.vec[2] = "UsagePercentage"
    BY DEF UsageSays
  <1>4. VolumeSays(s, d, p, n, e) => s.vec[1] = "Volume" /\ s.vec[2] = "UsedBytes"
    BY DEF VolumeSays
  <1>5. VolumeLimitSays(s, d, p, n, e) => s.vec[1] = "Volume" /\ s.vec[2] = "LimitPercentage"
    BY DEF VolumeLimitSays
  <1>6. LimitSays(s, d, p, n, e) => s.vec[1] = "Container" /\ s.labels["source"] = "container"
    BY LimitLabelled DEF LimitSays
  <1>7. NodeLimitSays(s, d, p, n, e) => s.vec[1] = "Container" /\ s.labels["source"] = "node"
    BY LimitLabelled DEF NodeLimitSays
  <1> QED
    BY <1>1, <1>2, <1>3, <1>4, <1>5, <1>6, <1>7 DEF Says, Scopes

\* A summary says one thing of each vec and labels.
LEMMA SaysOnce ==
  ASSUME NEW d, IsContainerData(d), NEW p, NEW n, NEW e,
         NEW s, Says(s, d, p, n, e), NEW x, Says(x, d, p, n, e),
         s.vec = x.vec, s.labels = x.labels
  PROVE  s = x
  <1> USE DEF Series
  <1>1. CASE s.vec[1] = "Pod"
    BY <1>1, FamiliesApart DEF PodSays
  <1>2. CASE s.vec[1] \in Scopes /\ s.vec[2] # "UsagePercentage"
    <2>1. FsSays(s, p, n, e) /\ FsSays(x, p, n, e)
      BY <1>2, FamiliesApart
    <2> QED
      BY <2>1, ContainerLabelled DEF FsSays
  <1>3. CASE s.vec[1] \in Scopes /\ s.vec[2] = "UsagePercentage"
    <2>1. UsageSays(s, p, n, e) /\ UsageSays(x, p, n, e)
      BY <1>3, FamiliesApart
    <2> QED
      BY <2>1, ContainerLabelled DEF UsageSays
  <1>4. CASE s.vec = <<"Volume", "UsedBytes">>
    <2>1. VolumeSays(s, d, p, n, e) /\ VolumeSays(x, d, p, n, e)
      BY <1>4, FamiliesApart
    <2> QED
      BY <2>1, MountLabelled DEF VolumeSays
  <1>5. CASE s.vec = <<"Volume", "LimitPercentage">>
    <2>1. VolumeLimitSays(s, d, p, n, e) /\ VolumeLimitSays(x, d, p, n, e)
      BY <1>5, FamiliesApart
    <2> QED
      BY <2>1, MountLabelled DEF VolumeLimitSays, IsContainerData
  <1>6. CASE s.vec[1] = "Container" /\ s.labels["source"] = "container"
    <2>1. LimitSays(s, d, p, n, e) /\ LimitSays(x, d, p, n, e)
      BY <1>6, FamiliesApart
    <2> QED
      BY <2>1, LimitLabelled DEF LimitSays
  <1>7. CASE s.vec[1] = "Container" /\ s.labels["source"] = "node"
    <2>1. NodeLimitSays(s, d, p, n, e) /\ NodeLimitSays(x, d, p, n, e)
      BY <1>7, FamiliesApart
    <2> QED
      BY <2>1, LimitLabelled DEF NodeLimitSays
  <1>8. \/ s.vec[1] = "Pod"
        \/ s.vec[1] \in Scopes
        \/ s.vec = <<"Volume", "UsedBytes">> \/ s.vec = <<"Volume", "LimitPercentage">>
        \/ s.vec[1] = "Container" /\ s.labels["source"] \in {"container", "node"}
    BY LimitLabelled DEF Says, PodSays, FsSays, UsageSays, VolumeSays, VolumeLimitSays,
                         LimitSays, NodeLimitSays
  <1> QED
    BY <1>1, <1>2, <1>3, <1>4, <1>5, <1>6, <1>7, <1>8

-----------------------------------------------------------------------------
(***************************************************************************)
(* The usage percentage of a rootfs or of logs, and the bytes it is shown  *)
(* beside: they are set together, so they agree in whatever is exported.   *)
(***************************************************************************)
UsageVecs(x) == {<<x, "CapacityBytes">>, <<x, "UsedBytes">>, <<x, "UsagePercentage">>}

\* Of a rootfs or of logs, SetMetrics sets the capacity and the used bytes, and
\* the percentage if there is a capacity.
LEMMA UsageSetTogether ==
  ASSUME NEW flags, NEW d, NEW p, NEW n, NEW e, NEW s \in SetMetrics(flags, d, p, n, e),
         NEW x \in Scopes, s.vec \in UsageVecs(x)
  PROVE  \E stats :
           /\ Series(<<x, "CapacityBytes">>, s.labels, stats.CapacityBytes) \in SetMetrics(flags, d, p, n, e)
           /\ Series(<<x, "UsedBytes">>, s.labels, stats.UsedBytes) \in SetMetrics(flags, d, p, n, e)
           /\ stats.CapacityBytes > 0 =>
                Series(<<x, "UsagePercentage">>, s.labels, OfCapacity(stats))
                  \in SetMetrics(flags, d, p, n, e)
  <1>1. s \in FsSeries(flags, p, n, e)
    <2>1. s.vec[1] \in Scopes
      BY DEF UsageVecs
    <2>2. s \notin VolumeSeries(flags, d, p, n, e) /\ s \notin PodSeries(flags, p, n, e)
      BY <2>1 DEF VolumeSeries, PodSeries, Series, Scopes
    <2>3. s \notin LimitSeries(flags, d, p, n, e)
      <3>1. s \in LimitSeries(flags, d, p, n, e) =>
              \E c \in DOMAIN d.limits :
                s = IF d.limits[c] # 0
                    THEN Series(<<"Container", "LimitPercentage">>,
                                With(ContainerLabels(p, n, c), "source", "container"),
                                OfLimit(e.figures.UsedBytes, d.limits[c]))
                    ELSE Series(<<"Container", "LimitPercentage">>,
                                With(ContainerLabels(p, n, c), "source", "node"),
                                OfNode(e.figures))
        BY Zenon DEF LimitSeries
      <3> QED
        BY <2>1, <3>1 DEF Series, Scopes
    <2> QED
      BY <2>2, <2>3 DEF SetMetrics
  <1>2. PICK c \in DOMAIN e.containers : x \in EnabledScopes(flags) /\ s.labels = ContainerLabels(p, n, c)
    <2>1. s.vec[1] = x
      BY DEF UsageVecs
    <2> QED
      BY <1>1, <2>1, FsSeriesAre DEF Series
  <1> DEFINE stats == e.containers[c][x]
  <1>3. "CapacityBytes" \in EnabledFigures(flags) /\ "UsedBytes" \in EnabledFigures(flags)
    BY DEF EnabledFigures, BytesFigures
  <1>4. Series(<<x, "CapacityBytes">>, s.labels, stats["CapacityBytes"]) \in FsSeries(flags, p, n, e)
    BY <1>2, <1>3, FsSeriesAre
  <1>5. Series(<<x, "UsedBytes">>, s.labels, stats["UsedBytes"]) \in FsSeries(flags, p, n, e)
    BY <1>2, <1>3, FsSeriesAre
  <1>6. HasUsagePercentage(stats) =>
          Series(<<x, "UsagePercentage">>, s.labels, OfCapacity(stats)) \in FsSeries(flags, p, n, e)
    BY <1>2, FsSeriesAre
  <1> QED
    BY <1>4, <1>5, <1>6 DEF HasUsagePercentage, SetMetrics

\* No two series of a set have the same vec and labels.
OneValue(S) == \A s, x \in S : s.vec = x.vec /\ s.labels = x.labels => s = x

\* What a set of series shows for labels on a vec.
ShownIn(S, vec, labels) == {s.value : s \in {x \in S : x.vec = vec /\ x.labels = labels}}

UsageAgrees(S) ==
  \A x \in Scopes, s \in S :
    s.vec = <<x, "CapacityBytes">> /\ s.value > 0 =>
      ShownIn(S, <<x, "UsagePercentage">>, s.labels) =
        {(u * 100) \div s.value : u \in ShownIn(S, <<x, "UsedBytes">>, s.labels)}

\* Series set together: whoever sets one of a rootfs or of logs sets both byte
\* figures, and the percentage of a capacity.
SetTogether(new) ==
  \A s \in new, x \in Scopes :
    s.vec \in UsageVecs(x) =>
      \E stats :
        /\ Series(<<x, "CapacityBytes">>, s.labels, stats.CapacityBytes) \in new
        /\ Series(<<x, "UsedBytes">>, s.labels, stats.UsedBytes) \in new
        /\ stats.CapacityBytes > 0 =>
             Series(<<x, "UsagePercentage">>, s.labels, OfCapacity(stats)) \in new

\* Setting series of which no two have the same labels keeps it so.
LEMMA SetAllOneValue ==
  ASSUME NEW S, OneValue(S), NEW new, OneValue(new)
  PROVE  OneValue(SetAll(S, new))
  BY DEF OneValue, SetAll

\* What is set replaces what was shown, and only that.
LEMMA SetAllShows ==
  ASSUME NEW S, NEW new, NEW vec, NEW labels
  PROVE  /\ (\E s \in new : s.vec = vec /\ s.labels = labels) =>
              ShownIn(SetAll(S, new), vec, labels) = ShownIn(new, vec, labels)
         /\ ~(\E s \in new : s.vec = vec /\ s.labels = labels) =>
              ShownIn(SetAll(S, new), vec, labels) = ShownIn(S, vec, labels)
  BY DEF ShownIn, SetAll

\* Series set together agree among themselves.
LEMMA SetTogetherAgrees ==
  ASSUME NEW new, OneValue(new), SetTogether(new)
  PROVE  UsageAgrees(new)
  <1> SUFFICES ASSUME NEW x \in Scopes, NEW s \in new, s.vec = <<x, "CapacityBytes">>, s.value > 0
               PROVE  ShownIn(new, <<x, "UsagePercentage">>, s.labels) =
                        {(u * 100) \div s.value : u \in ShownIn(new, <<x, "UsedBytes">>, s.labels)}
    BY DEF UsageAgrees
  <1>1. PICK stats :
          /\ Series(<<x, "CapacityBytes">>, s.labels, stats.CapacityBytes) \in new
          /\ Series(<<x, "UsedBytes">>, s.labels, stats.UsedBytes) \in new
          /\ stats.CapacityBytes > 0 =>
               Series(<<x, "UsagePercentage">>, s.labels, OfCapacity(stats)) \in new
    BY DEF SetTogether, UsageVecs
  <1>2. \A vec, value : Series(vec, s.labels, value) \in new => ShownIn(new, vec, s.labels) = {value}
    <2> TAKE vec, value
    <2> HAVE Series(vec, s.labels, value) \in new
    <2>1. \A y \in new : y.vec = vec /\ y.labels = s.labels => y.value = value
      BY DEF OneValue, Series
    <2>2. value \in ShownIn(new, vec, s.labels)
      BY DEF ShownIn, Series
    <2> QED
      BY <2>1, <2>2 DEF ShownIn
  <1>3. s.value = stats.CapacityBytes
    BY <1>1 DEF OneValue, Series
  <1>4. ShownIn(new, <<x, "UsedBytes">>, s.labels) = {stats.UsedBytes}
    BY <1>1, <1>2
  <1>5. ShownIn(new, <<x, "UsagePercentage">>, s.labels) = {OfCapacity(stats)}
    BY <1>1, <1>2, <1>3
  <1> QED
    BY <1>3, <1>4, <1>5 DEF OfCapacity

\* What is exported agrees after such series have been set.
LEMMA SetAllAgrees ==
  ASSUME NEW S, UsageAgrees(S), NEW new, OneValue(new), SetTogether(new)
  PROVE  UsageAgrees(SetAll(S, new))
  <1> SUFFICES ASSUME NEW x \in Scopes, NEW s \in SetAll(S, new),
                      s.vec = <<x, "CapacityBytes">>, s.value > 0
               PROVE  ShownIn(SetAll(S, new), <<x, "UsagePercentage">>, s.labels) =
                        {(u * 100) \div s.value :
                           u \in ShownIn(SetAll(S, new), <<x, "UsedBytes">>, s.labels)}
    BY DEF UsageAgrees
  <1>1. \A y \in new, vec \in UsageVecs(x) :
          y.vec = vec /\ y.labels = s.labels =>
            /\ \E z \in new : z.vec = <<x, "CapacityBytes">> /\ z.labels = s.labels
            /\ \E z \in new : z.vec = <<x, "UsedBytes">> /\ z.labels = s.labels
    BY DEF SetTogether, Series
  <1>2. CASE s \in new
    <2>1. PICK stats :
            /\ Series(<<x, "CapacityBytes">>, s.labels, stats.CapacityBytes) \in new
            /\ Series(<<x, "UsedBytes">>, s.labels, stats.UsedBytes) \in new
            /\ stats.CapacityBytes > 0 =>
                 Series(<<x, "UsagePercentage">>, s.labels, OfCapacity(stats)) \in new
      BY <1>2 DEF SetTogether, UsageVecs
    <2>2. s.value = stats.CapacityBytes
      BY <1>2, <2>1 DEF OneValue, Series
    <2>3. ShownIn(SetAll(S, new), <<x, "UsedBytes">>, s.labels) =
            ShownIn(new, <<x, "UsedBytes">>, s.labels)
      BY <2>1, SetAllShows DEF Series
    <2>4. ShownIn(SetAll(S, new), <<x, "UsagePercentage">>, s.labels) =
            ShownIn(new, <<x, "UsagePercentage">>, s.labels)
      BY <2>1, <2>2, SetAllShows DEF Series
    <2> QED
      BY <1>2, <2>3, <2>4, SetTogetherAgrees DEF UsageAgrees
  <1>3. CASE s \notin new
    <2>1. s \in S /\ \A y \in new : y.vec # s.vec \/ y.labels # s.labels
      BY <1>3 DEF SetAll
    <2>2. \A vec \in UsageVecs(x) : ~\E y \in new : y.vec = vec /\ y.labels = s.labels
      BY <1>1, <2>1
    <2>3. \A vec \in UsageVecs(x) : ShownIn(SetAll(S, new), vec, s.labels) = ShownIn(S, vec, s.labels)
      BY <2>2, SetAllShows
    <2> QED
      BY <2>1, <2>3 DEF UsageAgrees, UsageVecs
  <1> QED
    BY <1>2, <1>3

\* An eviction that goes through all of these vecs takes all that has the same
\* labels, or nothing of it.
LEMMA EvictionAgrees ==
  ASSUME NEW S, UsageAgrees(S), NEW vs, FsVecs \subseteq vs, NEW matches
  PROVE  UsageAgrees(DeletePartialMatch(S, vs, matches))
  <1> DEFINE T == DeletePartialMatch(S, vs, matches)
  <1> SUFFICES ASSUME NEW x \in Scopes, NEW s \in T, s.vec = <<x, "CapacityBytes">>, s.value > 0
               PROVE  ShownIn(T, <<x, "UsagePercentage">>, s.labels) =
                        {(u * 100) \div s.value : u \in ShownIn(T, <<x, "UsedBytes">>, s.labels)}
    BY DEF UsageAgrees
  <1>1. UsageVecs(x) \subseteq vs
    BY DEF UsageVecs, FsVecs, BytesFigures, Scopes
  <1>2. s \in S /\ \A m \in matches : ~Matches(s.labels, m)
    BY <1>1 DEF DeletePartialMatch, UsageVecs
  <1>3. \A y : y.labels = s.labels => (y \in T <=> y \in S)
    BY <1>2 DEF DeletePartialMatch
  <1>4. \A vec : ShownIn(T, vec, s.labels) = ShownIn(S, vec, s.labels)
    BY <1>3 DEF ShownIn
  <1> QED
    BY <1>2, <1>4 DEF UsageAgrees

-----------------------------------------------------------------------------
(***************************************************************************)
(* The gauges of a node.                                                   *)
(***************************************************************************)
NodeGauges(flags) ==
  (IF "nodeAvailable" \in flags THEN {"AvailableBytes"} ELSE {}) \cup
  (IF "nodeCapacity" \in flags THEN {"CapacityBytes"} ELSE {}) \cup
  (IF "nodePercentage" \in flags THEN {"Percentage"} ELSE {})

NodeValue(f, figures) == IF f = "Percentage" THEN OfNode(figures) ELSE figures[f]

\* Node.SetMetrics sets every gauge that is enabled, for its node only.
LEMMA NodeSeriesAre ==
  ASSUME NEW flags, NEW n, NEW figures, NEW s
  PROVE  s \in NodeSeries(flags, n, figures) <=>
           \E f \in NodeGauges(flags) :
             s = Series(<<"Node", f>>, [node_name |-> n], NodeValue(f, figures))
  BY Zenon DEF NodeSeries, NodeGauges, NodeValue

\* The series of a node are well formed: labels, vec and range.
LEMMA NodeSeriesTyped ==
  ASSUME NEW flags, NEW n, NEW figures, NEW s \in NodeSeries(flags, n, figures)
  PROVE  /\ s.vec \in NodeVecs
         /\ s.labels = [node_name |-> n] /\ DOMAIN s.labels = LabelNames(s.vec)
         /\ figures \in FsStats => InRange(s)
  <1>1. PICK f \in NodeGauges(flags) :
          s = Series(<<"Node", f>>, [node_name |-> n], NodeValue(f, figures))
    BY NodeSeriesAre
  <1>2. f \in {"AvailableBytes", "CapacityBytes", "Percentage"}
    BY DEF NodeGauges
  <1>3. s.vec = <<"Node", f>> /\ s.labels = [node_name |-> n] /\ s.value = NodeValue(f, figures)
    BY <1>1 DEF Series
  <1>4. DOMAIN s.labels = {"node_name"} /\ LabelNames(s.vec) = {"node_name"}
    BY <1>3 DEF LabelNames
  <1>5. ASSUME figures \in FsStats
        PROVE  InRange(s)
    <2>1. CASE f = "Percentage"
      BY <1>3, <1>5, <2>1, OfNodeRange DEF InRange, Capped, NodeValue
    <2>2. CASE f # "Percentage"
      <3>1. figures[f] \in Nat
        BY <1>2, <1>5, <2>2 DEF FsStats, BytesFigures
      <3> QED
        BY <1>2, <1>3, <2>2, <3>1 DEF InRange, Capped, NodeValue
    <2> QED
      BY <2>1, <2>2
  <1> QED
    BY <1>2, <1>3, <1>4, <1>5 DEF NodeVecs

\* So is the polling rate.
LEMMA RateSeriesTyped ==
  ASSUME NEW flags, NEW n, NEW s \in RateSeries(flags, n)
  PROVE  /\ s.vec = RateVec /\ "adjustedPollingRate" \in flags
         /\ s.labels = [node_name |-> n] /\ DOMAIN s.labels = LabelNames(s.vec)
         /\ s.value = NaN
  BY DEF RateSeries, Series, RateVec, LabelNames

\* No vec is both a pod's and a node's.
LEMMA NodeVecsApart ==
  /\ \A flags : EvictedWithNode(flags) \cap PodVecs = {}
  /\ NodeVecs \cap PodVecs = {} /\ RateVec \notin PodVecs \cup NodeVecs
  BY DEF EvictedWithNode, NodeVecs, RateVec, PodVecs, FsVecs, InodesVecs, LookupVecs

NodeAgrees(S, n) ==
  LET Gauge(f) == ShownIn(S, <<"Node", f>>, [node_name |-> n])
  IN \A c \in Gauge("CapacityBytes"), a \in Gauge("AvailableBytes"),
        percentage \in Gauge("Percentage") :
       percentage = OfNode([CapacityBytes |-> c, AvailableBytes |-> a])

\* Gauges that the flags leave out are never set.
OnlyEnabled(flags, S) == \A s \in S : s.vec \in NodeVecs => s.vec[2] \in NodeGauges(flags)

\* Fewer series agree as well.
LEMMA FewerAgree ==
  ASSUME NEW S, NEW T \in SUBSET S, NEW n, NodeAgrees(S, n)
  PROVE  NodeAgrees(T, n)
  <1>1. \A f : ShownIn(T, <<"Node", f>>, [node_name |-> n])
                 \subseteq ShownIn(S, <<"Node", f>>, [node_name |-> n])
    BY DEF ShownIn
  <1> QED
    BY <1>1 DEF NodeAgrees

\* The gauges of a node agree after one pod's figures have been set: all that
\* are enabled are replaced, those of another node are left alone.
LEMMA NodeSetAgrees ==
  ASSUME NEW flags, NEW S, OnlyEnabled(flags, S), NEW m, NodeAgrees(S, m),
         NEW n, NEW nodeNew,
         nodeNew = {} \/ \E figures : nodeNew = NodeSeries(flags, n, figures),
         NEW new, nodeNew \subseteq new, \A s \in new : s.vec \in NodeVecs => s \in nodeNew
  PROVE  NodeAgrees(SetAll(S, new), m) /\ OnlyEnabled(flags, SetAll(S, new))
  <1> DEFINE T == SetAll(S, new)
             In(U, f) == ShownIn(U, <<"Node", f>>, [node_name |-> m])
             three == {"AvailableBytes", "CapacityBytes", "Percentage"}
  <1>1. \A f \in three : <<"Node", f>> \in NodeVecs
    BY DEF NodeVecs
  <1>2. OnlyEnabled(flags, T)
    <2>1. \A s \in nodeNew : s.vec[2] \in NodeGauges(flags)
      BY NodeSeriesAre DEF Series
    <2> QED
      BY <2>1 DEF OnlyEnabled, SetAll
  <1>3. CASE \A f \in three : ~\E s \in new : s.vec = <<"Node", f>> /\ s.labels = [node_name |-> m]
    <2>1. /\ In(T, "AvailableBytes") = In(S, "AvailableBytes")
          /\ In(T, "CapacityBytes") = In(S, "CapacityBytes")
          /\ In(T, "Percentage") = In(S, "Percentage")
      BY <1>3, SetAllShows
    <2> QED
      BY <1>2, <2>1 DEF NodeAgrees
  <1>4. ASSUME NEW f \in three,
               \E s \in new : s.vec = <<"Node", f>> /\ s.labels = [node_name |-> m]
        PROVE  NodeAgrees(T, m)
    <2>1. PICK figures : nodeNew = NodeSeries(flags, n, figures)
      BY <1>1, <1>4
    <2>2. [node_name |-> n] = [node_name |-> m]
      BY <1>1, <1>4, <2>1, NodeSeriesTyped
    <2>3. CASE three \subseteq NodeGauges(flags)
      <3>1. ASSUME NEW g \in three
            PROVE  In(T, g) = {NodeValue(g, figures)}
        <4>1. Series(<<"Node", g>>, [node_name |-> m], NodeValue(g, figures)) \in new
          BY <2>1, <2>2, <2>3, NodeSeriesAre
        <4>2. In(T, g) = In(new, g)
          BY <4>1, SetAllShows DEF Series
        <4>3. \A s \in new : s.vec = <<"Node", g>> => s.value = NodeValue(g, figures)
          BY <1>1, <2>1, NodeSeriesAre DEF Series
        <4>4. NodeValue(g, figures) \in In(new, g)
          BY <4>1 DEF ShownIn, Series
        <4> QED
          BY <4>2, <4>3, <4>4 DEF ShownIn
      <3>2. OfNode([CapacityBytes |-> figures["CapacityBytes"],
                    AvailableBytes |-> figures["AvailableBytes"]]) = OfNode(figures)
        BY DEF OfNode
      <3> QED
        BY <3>1, <3>2 DEF NodeAgrees, NodeValue
    <2>4. CASE ~(three \subseteq NodeGauges(flags))
      <3>1. PICK g \in three : g \notin NodeGauges(flags)
        BY <2>4
      <3>2. In(T, g) = {}
        BY <1>1, <1>2, <3>1 DEF OnlyEnabled, ShownIn
      <3> QED
        BY <3>2 DEF NodeAgrees
    <2> QED
      BY <2>3, <2>4
  <1> QED
    BY <1>2, <1>3, <1>4

-----------------------------------------------------------------------------
(***************************************************************************)
(* Evictions.                                                              *)
(***************************************************************************)

\* Evicting the names gone deletes their series on every pod vec, and nothing else.
LEMMA NamesEvicted ==
  ASSUME NEW names, NEW S, NEW s \in S
  PROVE  s \in EvictPodsByName(S, names)
           <=> (s.vec \in PodVecs /\ "pod_name" \in DOMAIN s.labels => s.labels["pod_name"] \notin names)
  <1>1. \A q : Matches(s.labels, [pod_name |-> q])
                <=> "pod_name" \in DOMAIN s.labels /\ s.labels["pod_name"] = q
    BY DEF Matches
  <1> QED
    BY <1>1 DEF EvictPodsByName, DeletePartialMatch, EvictedByName

\* Evicting a node leaves nothing of it on the vecs evict and EvictPodByNode go
\* through, and all of the other nodes.
LEMMA NodeEvicted ==
  ASSUME NEW flags, NEW n, NEW S, NEW s, s.vec \in EvictedWithNode(flags) \cup PodVecs,
         "node_name" \in DOMAIN s.labels
  PROVE  s \in EvictNode(flags, S, n) <=> s \in S /\ s.labels["node_name"] # n
  <1>1. Matches(s.labels, [node_name |-> n])
          <=> "node_name" \in DOMAIN s.labels /\ s.labels["node_name"] = n
    BY DEF Matches
  <1> QED
    BY <1>1 DEF EvictNode, DeletePartialMatch, EvictedByNode
=============================================================================
