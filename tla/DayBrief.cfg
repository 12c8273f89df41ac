\* Three tasks, of which the second is alike with the first and with the third,
\* around midnight; /today and /tomorrow, a memory of one brief, two writes of
\* other processes, one rewrite of the groups, one tick of the clock.
SPECIFICATION BriefSpec
CONSTANTS
    a = a
    b = b
    c = c
    Task <- MCTask
    Place <- MCPlace
    Rank <- MCRank
    FirstDue <- MCDue
    Dues = {2}
    Similar <- MCAlike
    Commands <- MCCommands
    Keep = 1
    Seconds = 1
    MaxWrites = 2
    MaxRuns = 1
INVARIANTS StaleOnlyInItsSecond NoTaskHidden
