SPECIFICATION FairSpec
CONSTANTS
  plain = plain  secure = secure  tunnel = tunnel  NoAddr = none
  Conns = {c1, c2, c3}
  Addrs = {secure, tunnel}
  SslAddrs = {secure}
  TunnelAddrs = {tunnel}
  Substs <- TunnelSubst
  Limit = 2
  UseLimits = {1, 2}
  PipeDepths = {2}
  IdleTimeout = TRUE
INVARIANTS TypeOK OneSituation IdleStructuresAgree IdleIsReusable LevelIsOpenConns OverLimitOnlyByClosing
PROPERTIES ClosingEnds ImplementsSlots
CHECK_DEADLOCK FALSE
