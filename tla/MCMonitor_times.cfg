SPECIFICATION MonitorSpec
CONSTANTS
  c1 = c1
  c2 = c2
  k1 = k1
  Callers = {c1, c2}
  Keys = {k1}
  KeyOf <- KeyOfValue
  Notifiers = 2
  RepeatInterval = 4
  MaxTime = 13
  CheckInterval = 2
  RetryInterval = 1
  MinFail = 2
  MinSuccess = 1
  MaxExec = 1
  MaxSend = 1
INVARIANTS
  MonitorTypeOK
  AlertsSpaced
  OutageTold
PROPERTY
  ImplementsTable
