SPECIFICATION Spec
CONSTANTS
  None = None
  p1 = p1
  p2 = p2
  f1 = f1
  f2 = f2
  q1 = q1
  u1 = u1
  s1 = s1
  s2 = s2
  s3 = s3
  Pdr = {p1, p2}
  Far = {f1, f2}
  Qer = {q1}
  Urr = {u1}
  Sock = {s1, s2, s3}
  Tunnel = {1, 2}
  Setup <- MCSetup
SYMMETRY Symmetric
CONSTRAINT SocketsOrTunnels
CHECK_DEADLOCK FALSE
INVARIANTS TypeOK SocketsExact BufferReady TunnelsWhole
