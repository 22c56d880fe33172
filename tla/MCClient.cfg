SPECIFICATION FairSpec
CONSTANTS
  Kinds = {"sync", "async"}
  Limit = 2  WaitLimit = 1
  Sessions = {"none", "duration", "xacts"}  XactGoal = 2
  FaultSets <- HardAndFavoured
  MaxXacts = 4  MaxExtra = 2
INVARIANTS TypeOK RobotIsConsistent PendAlarmAssertHolds WaitingIsNeeded
PROPERTIES IdleStartsNothing SessionsAlternate BusyRuns
CHECK_DEADLOCK FALSE
