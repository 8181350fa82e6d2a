SPECIFICATION Spec
CONSTANTS
  a = a
  None = None
  Daemons <- ThreeDaemons
  Subscribers = {a}
  MaxAttempts = 1
  BaseMs = 4
  CapMs = 7
  Width = 4
  MaxCount = 2
  MaxReloads = 1
  MaxByHand = 2
  Stoppable = {1}
  MaxInstalls = 1
  MaxChanges = 1
CHECK_DEADLOCK FALSE
INVARIANTS TypeOK BackoffFollowsFailures SoleService HandoverComplete
PROPERTIES Untouched ReloadedMeansService ComesBack
