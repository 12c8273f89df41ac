\* One full run, one single-job command, the two daemons, one kill.
CONSTANTS
  SyncAlls = {all}
  OneShots = {one}
  Listener = listener
  Poller = poller
  Nobody = nobody
  Waits = {"no", "block", "timed"}
  MaxKills = 1
SPECIFICATION FairSpec
INVARIANTS OneRunPerJob LocksReleased
PROPERTIES SyncAllEnds PollerKeepsCollecting
