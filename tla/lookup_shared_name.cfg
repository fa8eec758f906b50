CONSTANTS
  p1 = p1
  p2 = p2
  a = a
  b = b
  c = c
  v = v
  Pods = {p1, p2}
  PodNames = {a}
  NameOf <- SharedName
  MissTolerance = 2
  Specs <- BothSpecs
  NoPod = NoPod
  NoData = NoData
  NoName = NoName
  ContainerLimits = TRUE
  VolumeUsage = FALSE
  VolumeLimits = FALSE
  WatchGaps = FALSE
  MaxPending = 2
SPECIFICATION Spec
PROPERTY SourceIsOwn
