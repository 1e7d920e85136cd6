\* A gatherer and two remote spokes; a player may be silent for as many ticks as his queue
\* of late flags holds.
CONSTANTS
  NumPlayers = 3
  LocalPlayer = 0
  StartingTick = 0
  PregameTicks = 0
  Horizon = 3
  PostGameTicks = {}
  QueueSize = 2
  PregameWindowSize = 1
  PregameTicksBeforeNetDeath = 1
  InGameTicksBeforeNetDeath = 2
  SendPeriod = 1
  RecoverySendPeriod = 1
  MinimumSendPeriod = 1
  BandwidthReduction = TRUE
  MostFlags = 1
SPECIFICATION LateSpec
INVARIANTS LateFlagsFit
CHECK_DEADLOCK FALSE
