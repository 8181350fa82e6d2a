SPECIFICATION Spec
CONSTANTS
  g1 = g1  g2 = g2  w1 = w1  s1 = s1  s2 = s2
  None = None
  Sessions = {s1, s2}
  Guards = {g1, g2}
  Waiters = {w1}
  SessionOf <- ChosenSessions
  TicksPerSecond = 2
  Ttl = 3
  MaxTime = 2
  MaxRestarts = 1
  WaitSeconds = 1
  CliTtl = 1
CHECK_DEADLOCK FALSE
INVARIANTS TypeOK LeaseBacked ReleasedForGood WakeupNotLost
PROPERTIES ImplementsAdvisoryClaims
