SPECIFICATION Spec
CONSTANTS
  h1 = h1
  h2 = h2
  h3 = h3
  r1 = r1
  r2 = r2
  r3 = r3
  Hosts = {h1, h2, h3}
  Checks = {c1}
  Names = {n1}
  Requests = {r1, r2}
  HostSeq <- BoardOfThree
  Durations = {1, 5}
  Half = 4
  Key <- PairKey
  Filters <- FilterSet
  Spans <- SpanSet
  MaxTime = 3
  None = None
SYMMETRY RequestSymmetry
INVARIANTS
  TypeOK
  RefusedLeavesNothing
  WidePromiseKept
  SpansLast
