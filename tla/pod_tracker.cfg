CONSTANTS
  p1 = p1
  p2 = p2
  p3 = p3
  a = a
  b = b
  c = c
  Pods = {p1, p2, p3}
  PodNames = {a, b, c}
  NameOf <- DistinctNames
  MissTolerance = 3
  MaxScrapes = 6
SPECIFICATION Spec
INVARIANTS
  TypeOK
  CountsConsecutiveMisses
  ExportedAreTracked
PROPERTY KeepsPromise
