CONSTANTS
  Dev = {d1}
  Sock = {s1}
  Pdr = {p1}
  Cpu = {c1}
  NTables = 3
  None = None
SPECIFICATION Spec
CHECK_DEADLOCK FALSE
INVARIANTS SkUserDataProtected
