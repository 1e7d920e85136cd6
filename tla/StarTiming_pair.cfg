\* A gatherer, one remote spoke and a zombie: loss, delay, repetition, silence, the end of
\* the game, and adjustments of the remote spoke's timing in both directions.
CONSTANTS
  NumPlayers = 3
  LocalPlayer = 1
  StartingTick = 1
  PregameTicks = 1
  Horizon = 2
  PostGameTicks = {2}
  QueueSize = 3
  PregameWindowSize = 1
  PregameTicksBeforeNetDeath = 1
  InGameTicksBeforeNetDeath = 1
  SendPeriod = 2
  RecoverySendPeriod = 1
  MinimumSendPeriod = 1
  BandwidthReduction = FALSE
  Zombies = {0}
  OutgoingFlagsQueueSize = 2
  ActionQueueSize = 4
  SpokePregameTicksBeforeNetDeath = 1
  SpokeInGameTicksBeforeNetDeath = 1
  SpokeRecoverySendPeriod = 1
  IdentificationPeriod = 1
  InFlight = 1
  MayFallSilent = {1, 2}
  MayMissTheHub = {2}
  Adjustments <- EveryOffset
  RecoveryTicks = 8
  IncrementalTicks = 3
  Leavers = {}
  GameReaders = {}
  InGameWindowSize = 1
  PregameNthElement = 0
  InGameNthElement = 0
SPECIFICATION TimedSpec
INVARIANTS GameTypeOK Lockstep LinksKeepTheirPromises EverybodyFinishes
PROPERTIES PlaysTheLockstepGame HubIsAmongSpokes AsksAreSeen
CHECK_DEADLOCK FALSE
