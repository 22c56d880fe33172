SPECIFICATION FairSpec
CONSTANTS
  Clients = {c1, c2}  Servers = {s1}
  N = 3  Synced = {0, 1, 2}  WaitWss = {0}  Instant = {1}
  Freezers = {c1}  Planners = {c1}  Quitters = {s1}
INVARIANTS TypeOK PosMinIsExact BeliefsAreTrue HeldForAReason ClientsInStep
PROPERTIES ImplementsBarrier PhasesEnd
CHECK_DEADLOCK FALSE
