SPECIFICATION Spec
CONSTANTS
  c1 = c1  c2 = c2  c3 = c3  s1 = s1  s2 = s2  p1 = p1  v1 = v1
  None = None  Absent = Absent  Empty = Empty
  Conns = {c1, c2, c3}
  Sessions = {s1}
  Paths = {}
  Topics = {}
  Prefixes = {}
  StickyValues = {v1}
  Messages <- SessionMessages
  Journaled <- ChosenEmpty
  HeartbeatTimeout = 0
  BroadcastCapacity = 1
  PersistCapacity = 1
  StartTime = 0
  MaxTime = 1
  MaxRequests = 4
  Quitters = {c1, c2, c3}
PROPERTIES AnnounceIsRecorded
