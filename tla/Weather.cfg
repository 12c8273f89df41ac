\* Half an hour before midnight, midnight and half past two; one of the newest
\* forecasts may be late; two runs, one change of region.
SPECIFICATION WeatherSpec
CONSTANTS
    User = {u, v}
    Region = {seoul, jeju}
    Default = seoul
    Places = {seoul, jeju}
    Times = {95, 96, 101}
    Late = 1
    MaxRuns = 2
    MaxChoices = 1
INVARIANTS RightRegion DayCovered
PROPERTY LostOnlyInRace
CHECK_DEADLOCK FALSE
