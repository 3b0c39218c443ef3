SPECIFICATION Spec
CONSTANTS
  a1 = a1
  a2 = a2
  s1 = s1
  Assignments = {a1, a2}
  Slots = {s1}
  SlotOf <- Shared
  MinFail <- Twos
  MinSuccess <- Twos
  CountCap = 2
  Outcomes = {"OK", "error"}
  Clients = {c1}
  None = None
INVARIANTS
  NoOrphanIncident
  RegistryAlive
  BoardAgrees
  Shielded
PROPERTIES
  Debounced
  UsesTable
\* The system stops when Run returns.
CHECK_DEADLOCK FALSE
