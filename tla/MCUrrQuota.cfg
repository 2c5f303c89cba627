SPECIFICATION Spec
CONSTANTS
  ul = ul
  dl = dl
  u1 = u1
  u2 = u2
  f1 = f1
  f2 = f2
  None = None
  Pdr <- MCPdr
  Uplink <- MCUplink
  Urr <- MCUrr
  UrrsOf <- UrrsTwo
  Bucket <- TwoBuckets
  Age <- MCAge
  Far <- MCFar
  Cpu = {c1}
  Lengths = {1}
  Action <- UplinkActions
  Links <- AllLinks
  Msg <- QuotaMsg
  MayFail = TRUE
  Polite = TRUE
  Horizon = 3
INVARIANTS
  TypeOK
  GateExact
  QuotaHeld
  StopIsTold
  
VIEW UsageView
CONSTRAINT TrafficOrStops
CHECK_DEADLOCK FALSE
