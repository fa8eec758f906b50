CONSTANTS
  n1 = n1
  n2 = n2
  p1 = p1
  p2 = p2
  a = a
  b = b
  w1 = w1
  w2 = w2
  t1 = t1
  t2 = t2
  t3 = t3
  t4 = t4
  Nodes = {n1}
  Pods = {p1}
  PodNames = {a}
  NameOf <- OnePod
  MissTolerance = 2
  Workers = {w1}
  Watcher = Watcher
  TrackerIds = {t1, t2}
  NoNode = NoNode
  NoTracker = NoTracker
  Deployment = TRUE
  CurrentNode = n1
  ScrapeFromKubelet = TRUE
  AdjustedPollingRate = TRUE
  Disturbances = {"leave", "down", "hung", "garbled", "readiness"}
  MaxPending = 1
SPECIFICATION FairSpec
PROPERTIES
  ReadyNodeMonitored
  RunningPodExported
  StoppedPodEvicted
  DepartedNodeEvicted
