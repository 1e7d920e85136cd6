\* A gatherer and one remote spoke over a wire that loses datagrams, though never until one end
\* gives up on the other, up to the end of the game and the wait of hub_cleanup.
CONSTANTS
  NumPlayers = 2
  LocalPlayer = 0
  StartingTick = 0
  PregameTicks = 0
  Horizon = 2
  PostGameTicks = {2}
  QueueSize = 2
  PregameWindowSize = 1
  PregameTicksBeforeNetDeath = 1
  InGameTicksBeforeNetDeath = 2
  SendPeriod = 1
  RecoverySendPeriod = 1
  MinimumSendPeriod = 1
  BandwidthReduction = FALSE
  Zombies = {}
  OutgoingFlagsQueueSize = 1
  ActionQueueSize = 2
  SpokePregameTicksBeforeNetDeath = 1
  SpokeInGameTicksBeforeNetDeath = 2
  SpokeRecoverySendPeriod = 1
  IdentificationPeriod = 1
  InFlight = 1
  MayFallSilent = {}
  MayMissTheHub = {}
  Adjustments = {}
  RecoveryTicks = 8
  IncrementalTicks = 3
  Leavers = {}
  GameReaders = {}
SPECIFICATION FairGameSpec
PROPERTY EverybodyPlaysOn
CHECK_DEADLOCK FALSE
