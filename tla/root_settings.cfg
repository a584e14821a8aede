SPECIFICATION FairSpec
CONSTANTS
  Null = Null
  Corrupt = Corrupt
  b1 = b1
  b2 = b2
  Id = {1, 2}
  Browser = {b1, b2}
  DefaultBrowsers = {b1}
  Freeform = {"mine"}
  PolicyBodies <- Bodies
  LockTimes = {3}
  Texts = {"strict", "mine"}
  FirstSettings <- TwoStarts
  LoosenDelay = 2
  ReleaseDelay = 2
  MaxTime = 3
  MaxActs = 2
  MaxStops = 1
INVARIANT TypeOK
PROPERTY KeepsPromise
PROPERTY RequestsAreHandled
PROPERTY WaitingEnds
CHECK_DEADLOCK FALSE
