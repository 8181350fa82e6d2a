CONSTANTS
  n1 = n1
  n2 = n2
  n3 = n3
  Nodes = {n1, n2, n3}
  Names = {"a", "b"}
  NameOf <- TwoNames
  Sessions = {"s"}
  Capacity = 1
  Budgets <- Scenarios
  None = None
SPECIFICATION Spec
PROPERTIES Relayed ImplementsJoinedBuses
INVARIANTS TypeOK AtMostOnce OriginOrder StatusHonest 
CHECK_DEADLOCK FALSE
