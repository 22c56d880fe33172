SPECIFICATION Spec
CONSTANTS
  Robots = {r1}  Reasons = {q1, q2}
  Names = {a, b}  NoName = none
  Servers = 2  Timeout = TRUE  Capacity = 1
  IdModulus = 4  MaxXacts = 2  MaxNet = 2
INVARIANTS AssertsHold
