SPECIFICATION Spec
CONSTANTS
  ul = ul
  dl = dl
  u1 = u1
  u2 = u2
  f1 = f1
  f2 = f2
  None = None
  Pdr <- MCPdr
  Uplink <- MCUplink
  Urr <- OneUrr
  UrrsOf <- UrrsOne
  Bucket <- OneBucket
  Age <- MCAge
  Far <- MCFar
  Cpu = {c1}
  Lengths = {2}
  Action <- AnyAction
  Links <- SharedLinks
  Msg <- ShareMsg
  MayFail = FALSE
  Polite = FALSE
  Horizon = 4
INVARIANTS
  Resumed
CHECK_DEADLOCK FALSE
