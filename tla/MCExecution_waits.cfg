SPECIFICATION FairSpec
CONSTANTS
  Timeout = 4
  DialLimit = 6
  PingTimeout = 3
  ResolveTime = 1
  StopTime = 1
  Milli = 2
  Addresses = 2
  Rounds = 1
  Waits = 1
  Header = 2
  Packets <- MCPackets
INVARIANTS
  TypeOK
  Released
  AnswerGenuine
  InTime
PROPERTY
  Ends
\* One execution, which ends.
CHECK_DEADLOCK FALSE
