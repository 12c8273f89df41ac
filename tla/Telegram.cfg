\* Two updates (a command behind a note, or two commands with limits of one
\* row), one reminder, two faults: a fault may hit the recovery from the first.
CONSTANTS
  MaxUpdates = 2
  Reminders = {1}
  PollLimit = 2
  CommandLimit = 1
  DueLimit = 1
  MaxErrors = 1
  MaxFaults = 2
SPECIFICATION FairSpec
INVARIANTS NoUpdateLost NoCommandSwallowed RemindersBounded
PROPERTIES AtLeastOnce CommandsExecuted RemindersSettled
