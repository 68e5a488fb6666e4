CONSTANTS
  MaxRequests = 2
SPECIFICATION FairSpec
INVARIANTS ClosedLast EndsOnlyIfHeard
PROPERTIES ShutdownCompletes
