\* The same dialog, whose user presses PLAY while the second joiner's answer is under way.
CONSTANTS
  NumJoiners = 2
  MaximumPlayers = 3
  Ungatherable = {}
  Overbooks = TRUE
  StartsAhead = TRUE
SPECIFICATION GatheringSpec
PROPERTY TopologyIsSettled
CHECK_DEADLOCK FALSE
