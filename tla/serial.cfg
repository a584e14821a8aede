SPECIFICATION Spec
CONSTANTS
  r1 = r1
  r2 = r2
  Rule = {r1, r2}
  Hour = {day}
  day = day
  c1 = c1
  c2 = c2
  Null = Null
  Blank = Blank
  Client = {c1}
  BlockId = {1}
  Tables <- TwoLocks
  Edits <- EditSet
  StrictEdits <- StrictSet
  NewRows <- NewRowSet
  LockTimes = {1, 4}
  Offsets <- EastAndWest
  DelayBodies <- DelaySet
  MaxTime = 2
  MaxMinutes = 2
  MaxRequests = 2
  MaxRestarts = 1
INVARIANTS OnePendingPerTarget NothingWaitsWhenOff
PROPERTIES DelayLoosensAfterWait LockedOnlyTightens LooseningWaits NoEarlyApply StrictOnlyTightens
CHECK_DEADLOCK FALSE
