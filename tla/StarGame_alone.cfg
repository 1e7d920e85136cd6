\* The gatherer's own spoke stops while its hub runs on (hub_cleanup waits for the others);
\* the remote spoke has missed some ticks.
CONSTANTS
  NumPlayers = 2
  LocalPlayer = 0
  StartingTick = 0
  PregameTicks = 0
  Horizon = 4
  PostGameTicks = {}
  QueueSize = 5
  PregameWindowSize = 1
  PregameTicksBeforeNetDeath = 1
  InGameTicksBeforeNetDeath = 1
  SendPeriod = 1
  RecoverySendPeriod = 1
  MinimumSendPeriod = 1
  BandwidthReduction = TRUE
  Zombies = {}
  OutgoingFlagsQueueSize = 5
  ActionQueueSize = 6
  SpokePregameTicksBeforeNetDeath = 5
  SpokeInGameTicksBeforeNetDeath = 5
  SpokeRecoverySendPeriod = 5
  IdentificationPeriod = 1
  InFlight = 1
  MayFallSilent = {0}
  MayMissTheHub = {0, 1}
  Adjustments = {}
  RecoveryTicks = 8
  IncrementalTicks = 3
  Leavers = {0}
  GameReaders = {}
SPECIFICATION GameSpec
INVARIANT OnlyTheDeadAreFilledIn
CHECK_DEADLOCK FALSE
