\* Two users with a weather region of their own, two runs of jobs, refreshes or
\* fetches, one new login or lost secret, one tick.  The model stops when time
\* and the runs are used up.
SPECIFICATION HealthSpec
CONSTANTS
  u1 = u1
  u2 = u2
  all = all
  Users <- MCUsers
  Regional <- MCUsers
  Faulty <- MCFaulty
  Fresh <- MCFresh
  Modes <- MCModes
  All = all
  SetupFresh = 1
  MaxTime = 2
  MaxRuns = 2
  MaxChanges = 1
SYMMETRY MCSymmetry
INVARIANTS
  SetupReadyIsTrue
  ViewsAgree
  FailureReachesHeadline
CHECK_DEADLOCK FALSE
