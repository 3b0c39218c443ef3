SPECIFICATION Spec
CONSTANTS
  a = a
  b = b
  Colon = colon
  Nul = nul
  Char <- Alphabet
  HostNames <- HostSet
  CheckNames <- CheckSet
  Hosts <- HostSet
  Checks <- CheckSet
  Names = {n1, n2}
  Filters <- FilterSet
  Spans <- SpanSet
  MaxTime = 2
  None = None
INVARIANTS
  TypeOK
  UniqueNames
  PlacedRight
PROPERTIES
  ImplementsBook
