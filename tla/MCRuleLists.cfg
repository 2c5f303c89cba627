SPECIFICATION Spec
CONSTANTS
  None = None
  Pdr = {p1, p2, p3}
  Far = {}
  Qer = {q1}
  Cpu = {c1}
  Seid = {1}
  PdrId = {i1, i2, i3}
  FarId = {1}
  QerId = {1, 2, 3}
  UrrId = {}
  Prec = {1, 2}
  Teid = {1, 3}
  UeAddr = {1}
  Buckets <- MCBuckets
  KeyHash <- MCKeyHash
  AddrHash <- MCAddrHash
  PdrMsg <- TableMsgs
  MayFail = FALSE
\* The system stops for good after a fault, or once rtnl_lock is leaked and
\* the last rule is deleted.
CHECK_DEADLOCK FALSE
CONSTRAINT ListsOrQers
SYMMETRY Symmetric
INVARIANTS
  QerNodesExact
  FindsPrecedent
  ListsDisjoint
