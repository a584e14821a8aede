SPECIFICATION Spec
CONSTANTS
  Null = Null
  Nonces = {n1, n2, n3, n4, n5}
  Intervals = {1, 2}
  MinTick = 1
  MaxTick = 2
  TickWork = 1
  MinStale = 3
  BootGrace = 2
  LoginGrace = 2
  LinkStale = 2
  CheckEvery = 1
  Jumps <- ForthOrBack
  MaxTime = 8
  MaxEvents = 2
INVARIANT TypeOK
INVARIANT DeadIsCaught
INVARIANT FallbackComesUp
PROPERTY ProofIsNew
PROPERTY HealthyIsSpared
PROPERTY NoFalseFallback
CHECK_DEADLOCK FALSE
