SPECIFICATION Spec
CONSTANTS
  None = None
  Pdr = {p1, p2}
  Far = {}
  Qer = {q1}
  Cpu = {c1}
  Seid = {1}
  PdrId = {i1, i2}
  FarId = {1}
  QerId = {1, 2, 3}
  UrrId = {}
  Prec = {1}
  Teid = {1}
  UeAddr = {}
  Buckets <- MCBuckets
  KeyHash <- MCKeyHash
  AddrHash <- MCAddrHash
  PdrMsg <- QerMsgs
  MayFail = FALSE
\* The system stops for good after a fault, or once rtnl_lock is leaked and
\* the last rule is deleted.
CHECK_DEADLOCK FALSE
SYMMETRY Symmetric
INVARIANTS
  QerLinked
