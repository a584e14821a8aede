SPECIFICATION FairSpec
CONSTANTS
  Null = Null
  b = b
  p = p
  v = v
  w = w
  x = x
  Browser = {b}
  Profile = {p}
  HostOf <- Host
  CheckEvery = 1
  BeatEvery = 2
  Timeout = 4
  NewGrace = 1
  KeepSeen = 5
  GracePeriod = 2
  Tolerance = 1
  Window = {v, w, x}
  SeenBy <- Guest
  PidOf <- Pids
  Bans <- Apps
  MaxEvents = 4
INVARIANT TypeOK
PROPERTY HeardIsSpared
PROPERTY UnwantedIsClosed
PROPERTY GuestIsClosed
CHECK_DEADLOCK FALSE
