CONSTANTS
  p1 = p1
  p2 = p2
  a = a
  b = b
  c = c
  v = v
  Pods = {p1}
  PodNames = {a}
  NameOf <- OnePod
  MissTolerance = 2
  Specs <- BothSpecs
  NoPod = NoPod
  NoData = NoData
  NoName = NoName
  ContainerLimits = TRUE
  VolumeUsage = TRUE
  VolumeLimits = TRUE
  WatchGaps = TRUE
  MaxPending = 1
SPECIFICATION FairSpec
INVARIANTS
  TypeOK
  SeriesFromLookup
  EntriesForgettable
PROPERTIES
  ScrapesAtomic
  LookupConverges
  SeriesExported
  DeletedForgotten
