\* A gatherer and two remote spokes, one of whom may fall silent, while the other may give up the
\* hub: with bandwidth reduction
\* the hub makes up flags and sends incremental updates.
CONSTANTS
  NumPlayers = 3
  LocalPlayer = 0
  StartingTick = 0
  PregameTicks = 0
  Horizon = 2
  PostGameTicks = {}
  QueueSize = 2
  PregameWindowSize = 1
  PregameTicksBeforeNetDeath = 1
  InGameTicksBeforeNetDeath = 1
  SendPeriod = 1
  RecoverySendPeriod = 1
  MinimumSendPeriod = 1
  BandwidthReduction = TRUE
  Zombies = {}
  OutgoingFlagsQueueSize = 1
  ActionQueueSize = 1
  SpokePregameTicksBeforeNetDeath = 1
  SpokeInGameTicksBeforeNetDeath = 1
  SpokeRecoverySendPeriod = 1
  IdentificationPeriod = 1
  InFlight = 1
  MayFallSilent = {2}
  MayMissTheHub = {1}
  Adjustments = {}
  RecoveryTicks = 8
  IncrementalTicks = 1
  Leavers = {}
  GameReaders = {1}
SPECIFICATION GameSpec
INVARIANTS LockstepInCompany InStepInCompany DeathsReachTheTopology
CHECK_DEADLOCK FALSE
