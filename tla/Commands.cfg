\* Two users with a draft each, one collected task, two commands, one fault.
CONSTANTS
  u1 = u1
  u2 = u2
  d1 = d1
  d2 = d2
  t1 = t1
  Users = {u1, u2}
  Drafts = {d1, d2}
  Collected = {t1}
  OwnerOf <- MCOwnerOf
  KindOf <- MCKindOf
  NoDraft = none
  Listener = listener
  Operator = operator
  AssistantPlans <- MCPlans
  Instants = {1}
  MaxRequests = 2
  MaxFaults = 1
  Sent <- MCSent
  MaxChanges = 1
SPECIFICATION Spec
INVARIANTS AppliedIsThere RunsTruthful
PROPERTIES ClosedStaysClosed OwnRowsOnly
CHECK_DEADLOCK FALSE
