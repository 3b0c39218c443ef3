CONSTANTS
  Hosts <- MCHosts
  Checks <- MCChecks
  Has <- MCHas
  Reported <- MCReported
  Candidates <- MCCandidates
  Asked <- MCAsked
  DefaultCount = 2
  MaxInt = 7
  Junk = Junk
SPECIFICATION Spec
INVARIANT StatusesAccepted
