\* One user, two materials of one file name, two contents of which one has a
\* deadline, one task of the calendar; two runs and a repair, one change, one fault.
CONSTANTS
  Users = {u1}
  Global = global
  m1 = m1
  m2 = m2
  Order <- MCOrder
  Contents = {c1, c2}
  Deadlines = {c1}
  ActionEvents = {t1}
  Assignments = {}
  Poller = poller
  Refresher = refresher
  StaticToken = FALSE
  MaxName = 2
  MaxStarts = 2
  MaxChanges = 1
  MaxFaults = 1
SPECIFICATION Spec
INVARIANTS HashOfFile PushesBounded
CHECK_DEADLOCK FALSE
