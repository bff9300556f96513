CONSTANTS
  s1 = s1
  s2 = s2
  Streams <- TwoStreams
  MaxChannels = 1
  ReorderSlots = 2
  MaxFrags = 2
  MaxTsn = 4
  AllocOutcomes = {TRUE, FALSE}
  LateCookie = FALSE
SPECIFICATION FairSpec
INVARIANTS TypeOK InOrderOnce NoRenege NothingReadyHeld MessagesWhole
PROPERTIES InOrderDelivery EverythingAcknowledged
CHECK_DEADLOCK FALSE
