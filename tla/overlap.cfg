SPECIFICATION Spec
CONSTANTS
  r1 = r1
  r2 = r2
  Rule = {r1, r2}
  Hour = {day}
  day = day
  c1 = c1
  c2 = c2
  Null = Null
  Blank = Blank
  Client = {c1, c2}
  BlockId = {1}
  Tables <- OneBlock
  Edits <- LockEdits
  StrictEdits <- OneStrict
  NewRows <- NewRowSet
  LockTimes = {3}
  Offsets <- Naive
  DelayBodies <- DelayToggle
  MaxTime = 2
  MaxMinutes = 1
  MaxRequests = 1
  MaxRestarts = 0
SYMMETRY ClientSymmetry
INVARIANTS TypeOK
PROPERTIES StrictKeepsLock
CHECK_DEADLOCK FALSE
