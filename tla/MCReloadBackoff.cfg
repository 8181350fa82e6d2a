SPECIFICATION Spec
CONSTANTS
  a = a
  None = None
  Daemons <- ThreeDaemons
  Subscribers = {a}
  MaxAttempts = 1
  BaseMs = 4
  CapMs = 7
  Width = 4
  MaxCount = 2
  MaxReloads = 0
  MaxByHand = 1
  Stoppable = {1}
  MaxInstalls = 0
  MaxChanges = 0
CHECK_DEADLOCK FALSE
PROPERTIES ResetAfterSurvival
