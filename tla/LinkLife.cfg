CONSTANTS
  Dev = {d1, d2}
  Sock = {s1}
  Pdr = {p1}
  Cpu = {c1}
  NTables = 3
  None = None
SPECIFICATION FairSpec
CHECK_DEADLOCK FALSE
INVARIANTS TypeOK RefsExact EncapExact HeldSocketLives NothingLeft UnloadClean
PROPERTIES TunnelEnds UnloadEnds
