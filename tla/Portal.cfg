\* two users, the job beside one call for a user, all modes of the timetable API:
\* two changes, or one change and one fault
SPECIFICATION PortalFairSpec
CONSTANTS
  u1 = u1
  u2 = u2
  m1 = m1
  m2 = m2
  Job = Job
  Caller = Caller
  Users = {u1, u2}
  Meetings = {m1, m2}
  Modes = {"none", "api", "catalog"}
  MaxChanges = 2
  MaxFaults = 1
  MaxEvents = 2
INVARIANTS SessionTruthful UsersApart
PROPERTY TimetableArrives
CHECK_DEADLOCK FALSE
