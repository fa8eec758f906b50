----------------------------- MODULE MCProcess -----------------------------
(* Values of the constants of Process for model checking. *)
EXTENDS Process, TLC

CONSTANTS n1, p1, p2, a, b, c, v

TwoPods == (p1 :> a) @@ (p2 :> b)

(***************************************************************************)
(* Environments: all families in a Deployment, all but the optional gauges *)
(* in a DaemonSet, and each way the start-up can fail.                     *)
(***************************************************************************)
NodeFlags == {"nodeAvailable", "nodeCapacity", "nodePercentage"}
PodFlags  == {"podUsage", "inodes", "rootfs", "logs"}
AllFlags  == NodeFlags \cup PodFlags \cup
               {"volumeUsage", "volumeLimits", "containerLimits",
                "adjustedPollingRate", "scrapeFromKubelet"}

Env(deployType, node, fs) ==
  [deployType |-> deployType, currentNode |-> node, invalid |-> {}, flags |-> fs]
Everything == Env("Deployment", NoNode, AllFlags)
DaemonSet  == Env("DaemonSet", n1, NodeFlags \cup {"podUsage", "rootfs"})

SomeEnvironments ==
  {Everything, DaemonSet, Env("DaemonSet", NoNode, PodFlags), Env("other", n1, AllFlags)}
    \cup {[Everything EXCEPT !.invalid = {setting}] : setting \in Settings}

(***************************************************************************)
(* Summaries.  p1 has a container with a limit and a sized volume; it may  *)
(* be idle with more available than there is, full with no limit left, or  *)
(* have no figures at all.  p2 has no limit, and its file system no        *)
(* capacity.                                                               *)
(***************************************************************************)
Stats(used, available, capacity) ==
  [UsedBytes |-> used, AvailableBytes |-> available, CapacityBytes |-> capacity,
   Inodes |-> capacity, InodesFree |-> available, InodesUsed |-> used]

Entry(s, volumes, containers) ==
  [figures |-> s, volumes |-> volumes,
   containers |-> [x \in containers |-> [Rootfs |-> s, Logs |-> s]]]

SomeReports ==
  p1 :> {Entry(Stats(0, 9, 8), v :> 4, {c}),
         Entry(Stats(8, 0, 8), v :> 8, {c}),
         Entry(Stats(0, 0, 0), <<>>, {})}
  @@ p2 :> {Entry(Stats(2, 0, 0), <<>>, {c})}

SomeSpecs ==
  a :> [limits |-> c :> 8,
        mounts |-> {[container |-> c, volume |-> v, path |-> c, sizeLimit |-> 8]}]
  @@ b :> [limits |-> c :> 0,
           mounts |-> {[container |-> c, volume |-> v, path |-> c, sizeLimit |-> 0]}]
=============================================================================
