CONSTANTS
  n1 = n1
  p1 = p1
  p2 = p2
  a = a
  b = b
  c = c
  v = v
  Pods = {p1, p2}
  PodNames = {a, b}
  NameOf <- TwoPods
  MissTolerance = 1
  NaN = NaN
  Nodes = {n1}
  NoNode = NoNode
  Environments <- SomeEnvironments
  Reports <- SomeReports
  Absent = Absent
  Specs <- SomeSpecs
  MaxNodeQueryConcurrency = 1
SPECIFICATION FairSpec
INVARIANTS
  TypeOK
  NeverCrashes
  EverySeriesTracked
  EvictedNodeBlank
  PercentagesAgree
PROPERTIES
  VecsAtomic
  ReportedKept
  MonitoredScraped
