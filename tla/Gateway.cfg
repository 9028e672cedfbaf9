SPECIFICATION FairSpec
CONSTANTS
  Threads = {t1, t2}
  Stacks <- MCStacks
  Requests <- MCRequests
  Primary <- MCPrimary
  Doh <- MCDoh
  Origins <- MCOrigins
  Replies <- MCReplies
  MaxEntries = 1
  Ttl = 1
  MaxRequests = 2
  MaxClock = 1
  MaxCnameDepth = 2
  PoolLimit = 1
  MaxAltSvcAge = 1
  Room = 1
  Messages = 2
CHECK_DEADLOCK FALSE
INVARIANTS TypeOK TrustedOrigins LabelsTrue OwnResponse
PROPERTIES CacheSound Progress
