SPECIFICATION Spec
CONSTANTS
  h1 = h1
  h2 = h2
  l1 = l1
  l2 = l2
  None = None
  Hostnames = {h1, h2}
  Labels = {l1, l2}
  Files <- FilesValue
  Strings <- StringsValue
INVARIANTS
  TypeOK
  AssignedRight
  AssumptionsMet
  KeysOwned
\* The start is over when the scheduler runs, or when the configuration is refused.
CHECK_DEADLOCK FALSE
