CONSTANTS
  Numbers <- MCNumbers
  Blocks <- MCBlocks
  Own <- MCOwn
  Channels <- MCChannels
  None = None
  StaleThreshold = 1
  MaxStops = 1
SPECIFICATION FairSpec
INVARIANT ChannelsKept
PROPERTIES  CoreFollowsChain
CHECK_DEADLOCK FALSE
