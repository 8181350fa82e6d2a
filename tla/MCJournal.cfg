SPECIFICATION FairSpec
CONSTANTS
  empty = empty  short = short  long = long
  i1 = i1  i2 = i2  i3 = i3  w1 = w1  w2 = w2
  None = None  Garbled = Garbled
  Writers = {w1, w2}
  Values = {empty, short, long}
  Default = empty
  Length <- ThreeLengths
  Inodes = {i1, i2, i3}
  PersistCapacity = 1
  MaxChanges = 3
  MaxStops = 1
  MaxCrashes = 1
  MaxFaults = 1
CHECK_DEADLOCK FALSE
INVARIANTS TypeOK NoLostUpdate CleanExitSaved
PROPERTIES StaysParseable EventuallySaved
