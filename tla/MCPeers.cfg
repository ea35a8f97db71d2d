SPECIFICATION FairSpec
CONSTANTS
  p1 = p1
  p2 = p2
  a1 = a1
  a2 = a2
  Peer = {p1, p2}
  NoPeer = NoPeer
  Addrs = {a1, a2}
  Addr <- MCAddr
  Inbound = {p1}
  Capacity = 1
  MaxInboundPeers = 1
  MaxReplies = 1
\* the server and its peers come to an end
CHECK_DEADLOCK FALSE
INVARIANT MapMatches
PROPERTIES
  LockFreed
  PeersEnd
