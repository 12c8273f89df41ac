\* Two scopes, a deque of two records, five launches (an evicted run that ends
\* late and two launches of its scope after it), one thread that does not start.
CONSTANTS
  Scopes = {a, b}
  NoScope = none
  MaxRecords = 2
  MaxLaunches = 5
  MaxFaults = 1
SPECIFICATION FairSpec
INVARIANTS OneInProgress
PROPERTIES ClaimsEnd
CHECK_DEADLOCK FALSE
