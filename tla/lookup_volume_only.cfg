CONSTANTS
  p1 = p1
  p2 = p2
  a = a
  b = b
  c = c
  v = v
  Pods = {p1}
  PodNames = {a}
  NameOf <- OnePod
  MissTolerance = 2
  Specs <- BothSpecs
  NoPod = NoPod
  NoData = NoData
  NoName = NoName
  ContainerLimits = FALSE
  VolumeUsage = TRUE
  VolumeLimits = FALSE
  WatchGaps = FALSE
  MaxPending = 2
SPECIFICATION FairSpec
PROPERTY SeriesExported
