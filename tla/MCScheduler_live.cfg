SPECIFICATION FairSpec
CONSTANTS
  a1 = a1
  a2 = a2
  s1 = s1
  Assignments = {a1}
  Slots = {s1}
  SlotOf <- Single
  MinFail <- Twos
  MinSuccess <- Twos
  CountCap = 3
  Outcomes = {"OK", "WARNING", "CRITICAL", "UNKNOWN", "error"}
  Clients = {c1, c2}
  None = None
INVARIANTS
  TypeOK
  IncidentsAgree
PROPERTIES
  TriggerServed
  ShutdownCompletes
  OutageAnnounced
  RecoveryResolves
\* The system stops when Run returns.
CHECK_DEADLOCK FALSE
