SPECIFICATION FairSpec
CONSTANTS
  Pid = {1, 2, 3, 4, 5, 6}
  Daemon = Daemon
  Systemd = Systemd
  Count = 2
  BeatEvery = 1
  BeatTimeout = 2
  FailThreshold = 2
  Started <- On
  RootLayout = FALSE
  Budget <- DisableOverlaps
PROPERTY DisableEndsMesh
