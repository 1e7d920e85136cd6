\* A gatherer and two remote spokes that may fall silent in the same tick.
CONSTANTS
  NumPlayers = 3
  LocalPlayer = 0
  StartingTick = 0
  PregameTicks = 0
  Horizon = 2
  PostGameTicks = {2}
  QueueSize = 2
  PregameWindowSize = 1
  PregameTicksBeforeNetDeath = 1
  InGameTicksBeforeNetDeath = 1
  SendPeriod = 1
  RecoverySendPeriod = 1
  MinimumSendPeriod = 1
  BandwidthReduction = TRUE
SPECIFICATION Spec
INVARIANT OnlySentTicksAcknowledged
CHECK_DEADLOCK FALSE
