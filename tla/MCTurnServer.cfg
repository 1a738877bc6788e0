SPECIFICATION Spec
CONSTANTS
  None = None
  a1 = a1
  del = del
  bind = bind
  b1 = b1
  ref = ref
  c1 = c1
  c2 = c2
  us = us
  p1 = p1
  p2 = p2
  ip = ip
  ch = ch
  Request = {a1, b1, del, bind, ref}
  Client <- MCClient
  User <- MCUser
  Method <- MCMethod
  Peer <- MCPeer
  Channel <- MCChannel
  Ip <- MCIp
  AllocLife = 3
  PermLife = 1
  ChanLife = 2
  CacheLife = 2
  IdleLife = 2
  MaxCached = 2
  MaxSessions = 1
  MaxAllocations = 1
  MaxPerUser = 1
  MaxPermissions = 1
  MaxChannels = 1
  MaxGeneration = 2
INVARIANT RelayedByGrant
PROPERTY EffectOnce
