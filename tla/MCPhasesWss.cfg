SPECIFICATION Spec
CONSTANTS
  Clients = {c1}  Servers = {s1}
  N = 2  Synced = {0, 1}  WaitWss = {0, 1}  Instant = {}
  Freezers = {c1}  Planners = {}  Quitters = {}
INVARIANTS WssLockIsNeeded
CHECK_DEADLOCK FALSE
