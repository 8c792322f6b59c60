SPECIFICATION Spec
CONSTANTS
  Conversations <- SomeConversations
  OwnAddrs = {"h1", "h2"}
  Multicast = {"m1"}
  Junk <- SomeJunk
  Pads <- SomePads
  OutSz = 4
  HostPieces = 4
CHECK_DEADLOCK FALSE
INVARIANT TypeOK
INVARIANT OwnKey
INVARIANT BothWaysAlike
INVARIANT HostIsOwn
INVARIANT SniIsWhole
