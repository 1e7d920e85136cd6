\* A dedicated server for two spokes, both of whom drop out.
CONSTANTS
  NumPlayers = 2
  LocalPlayer <- NONE
  StartingTick = 0
  PregameTicks = 0
  Horizon = 2
  PostGameTicks = {2}
  QueueSize = 2
  PregameWindowSize = 1
  PregameTicksBeforeNetDeath = 1
  InGameTicksBeforeNetDeath = 1
  SendPeriod = 1
  RecoverySendPeriod = 1
  MinimumSendPeriod = 1
  BandwidthReduction = TRUE
SPECIFICATION Spec
INVARIANT OnlyAwaitedAcksBooked
CHECK_DEADLOCK FALSE
