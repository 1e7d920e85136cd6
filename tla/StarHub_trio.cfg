\* A gatherer and two remote spokes, from the pregame into the game, a queue that is full at once,
\* under fairness.
CONSTANTS
  NumPlayers = 3
  LocalPlayer = 0
  StartingTick = 1
  PregameTicks = 1
  Horizon = 2
  PostGameTicks = {1, 2}
  QueueSize = 1
  PregameWindowSize = 1
  PregameTicksBeforeNetDeath = 2
  InGameTicksBeforeNetDeath = 1
  SendPeriod = 1
  RecoverySendPeriod = 2
  MinimumSendPeriod = 1
  BandwidthReduction = TRUE
SPECIFICATION FairSpec
INVARIANTS TypeOK QueuesLineUp DispositionIsExact HousekeepingAssertsHold KeepsWhatItMayResend
PROPERTIES SentTicksStand SilentPlayersLeave MajorityNeverStalls
CHECK_DEADLOCK FALSE
