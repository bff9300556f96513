SPECIFICATION FairSpec
CONSTANTS
  Streams = {1, 2}
  Levels = {256, 512}
  MaxChannels = 2
  PassLimit = 2
  MaxConns = 2
  MaxMessages = 3
  MaxKept = 1
  AllocOutcomes = {TRUE, FALSE}
INVARIANTS TypeOK Paired RightTarget BurstsShare
PROPERTIES PipesKept EveryChannelDrains
