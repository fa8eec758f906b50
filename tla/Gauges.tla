------------------------------- MODULE Gauges -------------------------------
(***************************************************************************)
(* The 25 Prometheus vecs of the exporter as pure operators: the labels    *)
(* each is registered with (createMetrics), the series and values that one *)
(* pod of a stats summary sets (SetMetrics), and what an eviction deletes. *)
(*                                                                         *)
(* A vec is a pair <<scope, figure>>.  A series is a record of its vec,    *)
(* its labels and its value; labels are a record too, and no two series of *)
(* a vec have the same labels.                                             *)
(***************************************************************************)
EXTENDS StaleTracking

CONSTANT NaN   \* math.NaN()

ASSUME NaNAssumption == NaN \notin Int

-----------------------------------------------------------------------------
(***************************************************************************)
(* createMetrics.                                                          *)
(***************************************************************************)
BytesFigures == {"UsedBytes", "AvailableBytes", "CapacityBytes"}
InodesFigures == {"Inodes", "InodesFree", "InodesUsed"}

\* Figures of a file system, unsigned numbers all of them.
FsStats == [BytesFigures \cup InodesFigures -> Nat]

FsVecs == {"Rootfs", "Logs"} \X (BytesFigures \cup {"UsagePercentage"})
InodesVecs == {"Rootfs", "Logs", "Pod"} \X InodesFigures
LookupVecs == {<<"Volume", "UsedBytes">>, <<"Volume", "LimitPercentage">>,
               <<"Container", "LimitPercentage">>}
PodVecs == FsVecs \cup InodesVecs \cup LookupVecs \cup {<<"Pod", "UsedBytes">>}

NodeVecs == {"Node"} \X {"AvailableBytes", "CapacityBytes", "Percentage"}
RateVec == <<"Node", "AdjustedPollingRate">>

RegisteredWithNode(flags) ==
  NodeVecs \cup (IF "adjustedPollingRate" \in flags THEN {RateVec} ELSE {})

\* The label names a vec is registered with.
LabelNames(vec) ==
  {"node_name"} \cup
    (IF vec[1] = "Node" THEN {} ELSE {"pod_name", "pod_namespace"}) \cup
    (IF vec[1] \in {"Node", "Pod"} THEN {} ELSE {"container"}) \cup
    (IF vec[1] = "Volume" THEN {"volume_name", "mount_path"} ELSE {}) \cup
    (IF vec[1] = "Container" THEN {"source"} ELSE {})

-----------------------------------------------------------------------------
\* Mutants of the definitions below, named for the bug.
LimitUncapped(used, limit) == (used * 1024 * 100) \div (limit * 1000)
ZeroUsageSkipped(stats) == stats.CapacityBytes > 0 /\ stats.UsedBytes > 0
-----------------------------------------------------------------------------

Series(vec, labels, value) == [vec |-> vec, labels |-> labels, value |-> value]

\* Pod p stands for its own namespace: it tells p from its namesakes.
PodLabels(p, n) == [pod_name |-> NameOf[p], pod_namespace |-> p, node_name |-> n]

\* labels with one more label
With(labels, name, value) ==
  [l \in DOMAIN labels \cup {name} |-> IF l = name THEN value ELSE labels[l]]

ContainerLabels(p, n, c) == With(PodLabels(p, n), "container", c)

MountLabels(p, n, m) ==
  With(With(ContainerLabels(p, n, m.container), "volume_name", m.volume),
       "mount_path", m.path)

(***************************************************************************)
(* Percentages, whole numbers here.  A limit is in *bibytes: the usage is  *)
(* multiplied by 1.024 before the comparison, and the result capped.       *)
(***************************************************************************)
OfLimit(used, limit) ==
  LET percentage == (used * 1024 * 100) \div (limit * 1000)
  IN IF percentage > 100 THEN 100 ELSE percentage

OfNode(figures) ==
  LET used == figures.CapacityBytes - figures.AvailableBytes
  IN IF figures.CapacityBytes = 0 THEN NaN
     ELSE ((IF used > 0 THEN used ELSE 0) * 100) \div figures.CapacityBytes

OfCapacity(stats) == (stats.UsedBytes * 100) \div stats.CapacityBytes

HasUsagePercentage(stats) == stats.CapacityBytes > 0

\* The percentages that cannot exceed 100; a usage percentage is as large as
\* the summary makes it.
Capped == {"LimitPercentage", "Percentage"}

(***************************************************************************)
(* Collector.SetMetrics, family by family.  flags are the families enabled,*)
(* data is the pod's entry in lookup (limits, a function from containers   *)
(* to limits, 0 for none, and mounts of emptyDirs), e its entry in the     *)
(* summary: figures of the pod, used bytes of volumes, and the Rootfs and  *)
(* Logs stats of containers.                                               *)
(***************************************************************************)
IsEntry(e) ==
  /\ e.figures \in FsStats
  /\ \A v \in DOMAIN e.volumes : e.volumes[v] \in Nat
  /\ \A c \in DOMAIN e.containers, x \in {"Rootfs", "Logs"} : e.containers[c][x] \in FsStats

\* A size limit belongs to a volume, and a pod's volumes have distinct names.
IsContainerData(d) ==
  /\ \A c \in DOMAIN d.limits : d.limits[c] \in Nat
  /\ \A m \in d.mounts : m.sizeLimit \in Nat
  /\ \A m, x \in d.mounts : m.volume = x.volume => m.sizeLimit = x.sizeLimit

VolumeSeries(flags, data, p, n, e) ==
  LET mounts == {m \in data.mounts : m.volume \in DOMAIN e.volumes}
      sized  == {m \in mounts : m.sizeLimit # 0}
  IN {Series(<<"Volume", "UsedBytes">>, MountLabels(p, n, m), e.volumes[m.volume]) :
        m \in IF "volumeUsage" \in flags THEN mounts ELSE {}}
     \cup
     {Series(<<"Volume", "LimitPercentage">>, MountLabels(p, n, m),
             OfLimit(e.volumes[m.volume], m.sizeLimit)) :
        m \in IF "volumeLimits" \in flags THEN sized ELSE {}}

LimitSeries(flags, data, p, n, e) ==
  LET Limit(c, source, value) ==
        Series(<<"Container", "LimitPercentage">>,
               With(ContainerLabels(p, n, c), "source", source), value)
  IN {IF data.limits[c] # 0
      THEN Limit(c, "container", OfLimit(e.figures.UsedBytes, data.limits[c]))
      ELSE Limit(c, "node", OfNode(e.figures)) :
        c \in IF "containerLimits" \in flags THEN DOMAIN data.limits ELSE {}}

FsSeries(flags, p, n, e) ==
  LET scopes  == (IF "rootfs" \in flags THEN {"Rootfs"} ELSE {}) \cup
                 (IF "logs" \in flags THEN {"Logs"} ELSE {})
      figures == BytesFigures \cup (IF "inodes" \in flags THEN InodesFigures ELSE {})
      Stats(x) == e.containers[x[2]][x[1]]
  IN {Series(<<x[1], x[3]>>, ContainerLabels(p, n, x[2]), Stats(x)[x[3]]) :
        x \in scopes \X (DOMAIN e.containers) \X figures}
     \cup
     {Series(<<x[1], "UsagePercentage">>, ContainerLabels(p, n, x[2]), OfCapacity(Stats(x))) :
        x \in {y \in scopes \X (DOMAIN e.containers) : HasUsagePercentage(Stats(y))}}

PodSeries(flags, p, n, e) ==
  {Series(<<"Pod", f>>, PodLabels(p, n), e.figures[f]) :
     f \in (IF "podUsage" \in flags THEN {"UsedBytes"} ELSE {}) \cup
           (IF "inodes" \in flags THEN InodesFigures ELSE {})}

SetMetrics(flags, data, p, n, e) ==
  VolumeSeries(flags, data, p, n, e) \cup LimitSeries(flags, data, p, n, e) \cup
    FsSeries(flags, p, n, e) \cup PodSeries(flags, p, n, e)

\* Node.SetMetrics, with the figures of one of the node's pods.
NodeSeries(flags, n, figures) ==
  {Series(<<"Node", f>>, [node_name |-> n],
          IF f = "Percentage" THEN OfNode(figures) ELSE figures[f]) :
     f \in (IF "nodeAvailable" \in flags THEN {"AvailableBytes"} ELSE {}) \cup
           (IF "nodeCapacity" \in flags THEN {"CapacityBytes"} ELSE {}) \cup
           (IF "nodePercentage" \in flags THEN {"Percentage"} ELSE {})}

\* The value, the time left of the interval, is not modelled.
RateSeries(flags, n) ==
  IF "adjustedPollingRate" \in flags THEN {Series(RateVec, [node_name |-> n], NaN)} ELSE {}

\* A pod without a namespace or figures is skipped.
HasFigures(e) == \E f \in DOMAIN e.figures : e.figures[f] # 0

-----------------------------------------------------------------------------
\* Mutants of the definitions below, named for the bug.
NameListIncomplete == PodVecs \ {<<"Logs", "InodesUsed">>}
NodeListIncomplete == PodVecs \ {<<"Volume", "LimitPercentage">>}
-----------------------------------------------------------------------------

\* GaugeVec.With(labels).Set(value) for each series of new; With panics if
\* the vec has other label names.
SetAll(series, new) ==
  {s \in series : \A x \in new : x.vec # s.vec \/ x.labels # s.labels} \cup new

Matches(labels, match) ==
  \A l \in DOMAIN match : l \in DOMAIN labels /\ labels[l] = match[l]

\* GaugeVec.DeletePartialMatch on each of vecs, for each of matches.
DeletePartialMatch(series, vecs, matches) ==
  {s \in series : s.vec \in vecs => \A m \in matches : ~Matches(s.labels, m)}

\* The vecs evictPodByName and EvictPodByNode go through.
EvictedByName == PodVecs
EvictedByNode == PodVecs

EvictPodsByName(series, names) ==
  DeletePartialMatch(series, EvictedByName, {[pod_name |-> q] : q \in names})

\* The vecs Node.evict goes through before it calls EvictPodByNode.
EvictedWithNode(flags) ==
  NodeVecs \cup (IF "adjustedPollingRate" \in flags THEN {RateVec} ELSE {})

EvictNode(flags, series, n) ==
  DeletePartialMatch(series, EvictedWithNode(flags) \cup EvictedByNode, {[node_name |-> n]})
=============================================================================
