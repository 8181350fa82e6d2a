SPECIFICATION Spec
CONSTANTS
  empty = empty  short = short  long = long
  i1 = i1  i2 = i2  i3 = i3  w1 = w1  w2 = w2
  None = None  Garbled = Garbled
  Writers = {w1}
  Values = {empty, short, long}
  Default = empty
  Length <- ThreeLengths
  Inodes = {i1, i2, i3}
  PersistCapacity = 1
  MaxChanges = 2
  MaxStops = 1
  MaxCrashes = 0
  MaxFaults = 0
CHECK_DEADLOCK FALSE
INVARIANTS NeverPartial
