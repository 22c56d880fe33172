SPECIFICATION Spec
CONSTANTS
  Ports = {1, 2, 3, 4}
  Conns = {c1, c2}
  Listeners = {l1}
INVARIANTS TypeOK OnePlacePerPort LevelIsPortsOut
PROPERTIES OnlyListenersLosePorts
