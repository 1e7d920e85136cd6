\* A gatherer's dialog and two joiners' who may leave at any time; there is room for both,
\* and the user presses PLAY when nobody's answer is awaited.
CONSTANTS
  NumJoiners = 2
  MaximumPlayers = 3
  Ungatherable = {}
  Overbooks = FALSE
  StartsAhead = FALSE
SPECIFICATION FairGatheringSpec
INVARIANTS GatheringTypeOK DialogAgrees PlayersAreTheAccepted WaitersWillAgree TopologiesAreExpected JoinersFindThemselves StartedAlike
PROPERTY WaitersGetIn
CHECK_DEADLOCK FALSE
