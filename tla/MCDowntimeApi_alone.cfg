SPECIFICATION Spec
CONSTANTS
  h1 = h1
  h2 = h2
  h3 = h3
  r1 = r1
  r2 = r2
  r3 = r3
  Hosts = {h1, h2}
  Checks = {c1}
  Names = {n1}
  Requests = {r1, r2}
  HostSeq <- BoardOfTwo
  Durations = {1}
  Half = 4
  Key <- PairKey
  Filters <- FilterSet
  Spans <- SpanSet
  MaxTime = 3
  None = None
SYMMETRY RequestSymmetry
INVARIANT
  AloneServed
