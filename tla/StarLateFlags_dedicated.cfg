\* A dedicated server for three spokes.
CONSTANTS
  NumPlayers = 3
  LocalPlayer <- NONE
  StartingTick = 0
  PregameTicks = 0
  Horizon = 2
  PostGameTicks = {2}
  QueueSize = 2
  PregameWindowSize = 1
  PregameTicksBeforeNetDeath = 1
  InGameTicksBeforeNetDeath = 1
  SendPeriod = 1
  RecoverySendPeriod = 1
  MinimumSendPeriod = 1
  BandwidthReduction = TRUE
  MostFlags = 2
SPECIFICATION LateSpec
INVARIANTS ReferenceIsInTheGame LateFlagsFollow LateFlagsAreLaggards
CHECK_DEADLOCK FALSE
