SPECIFICATION NotifierFairSpec
CONSTANT
  EgressCapacity = 3
INVARIANTS ChannelAlive NoStall
PROPERTIES EventuallySent
