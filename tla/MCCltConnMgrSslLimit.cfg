SPECIFICATION Spec
CONSTANTS
  plain = plain  secure = secure  tunnel = tunnel  NoAddr = none
  Conns = {c1, c2, c3}
  Addrs = {plain, secure}
  SslAddrs = {secure}
  TunnelAddrs = {}
  Substs <- NoSubst
  Limit = 2
  UseLimits = {2}
  PipeDepths = {1}
  IdleTimeout = TRUE
INVARIANTS ConnLvlAssertHolds
CHECK_DEADLOCK FALSE
