SPECIFICATION FairSpec
CONSTANTS
  c1 = c1  c2 = c2  c3 = c3  s1 = s1  s2 = s2  p1 = p1  v1 = v1
  None = None  Absent = Absent  Empty = Empty
  Conns = {c1, c2}
  Sessions = {s1}
  Paths = {}
  Topics <- ChosenTopics
  Prefixes <- ChosenPrefixes
  StickyValues = {}
  Messages <- PubSubMessages
  Journaled <- ChosenEmpty
  HeartbeatTimeout = 0
  BroadcastCapacity = 2
  PersistCapacity = 1
  StartTime = 0
  MaxTime = 0
  MaxRequests = 5
  Quitters = {c1}
INVARIANTS Delivery
PROPERTIES ShutdownCompletes
