SPECIFICATION Spec
CONSTANTS
  Kinds = {"sync"}
  Limit = 2  WaitLimit = 1
  Sessions = {"none"}  XactGoal = 1
  FaultSets <- ConnectFails
  MaxXacts = 5  MaxExtra = 3
INVARIANTS NeverStuck
CHECK_DEADLOCK FALSE
