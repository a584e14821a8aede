SPECIFICATION FairSpec
CONSTANTS
  r1 = r1
  r2 = r2
  Rule = {r1, r2}
  Hour = {day}
  day = day
  c1 = c1
  c2 = c2
  Null = Null
  Blank = Blank
  Client = {c1}
  BlockId = {1}
  Tables <- OneBlock
  Edits <- LiveEdits
  StrictEdits <- NoStrict
  NewRows <- NewRowSet
  LockTimes = {}
  Offsets <- Naive
  DelayBodies <- DelayToggle
  MaxTime = 2
  MaxMinutes = 1
  MaxRequests = 2
  MaxRestarts = 1
PROPERTIES DueChangesLeaveQueue ExpiredLocksAreReset
CHECK_DEADLOCK FALSE
