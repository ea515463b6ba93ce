SPECIFICATION Spec
CONSTANTS
  a1 = a1
  r1 = r1
  r2 = r2
  r3 = r3
  l1 = l1
  l2 = l2
  Requests = {r1, r2, r3}
  Links = {l1, l2}
  MaxActive = 1
  Ttl = 1
  Threshold = 2
  AnomalyWindow = 1
  MaxAnomalies = 2
  Horizon = 9
  Loads <- MCLoads
  Addrs = {a1}
  Peer <- MCPeer
  TrustProxy = FALSE
  Conns = {c1, c2}
  Limits <- MCLimits
  HandshakeTime = 1
  MaxTries = 6
CHECK_DEADLOCK FALSE
INVARIANT FailuresBounded
 
PROPERTY BackoffKept
 
