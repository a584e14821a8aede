SPECIFICATION Spec
CONSTANTS
  Null = Null
  Corrupt = Corrupt
  b1 = b1
  b2 = b2
  Id = {1, 2}
  Browser = {b1, b2}
  DefaultBrowsers = {b1}
  Freeform = {"mine"}
  PolicyBodies <- Bodies
  LockTimes = {1, 3}
  Texts = {"strict", "mine"}
  FirstSettings <- ThreeStarts
  LoosenDelay = 2
  ReleaseDelay = 2
  MaxTime = 3
  MaxActs = 3
  MaxStops = 1
PROPERTY LockHolds
CHECK_DEADLOCK FALSE
