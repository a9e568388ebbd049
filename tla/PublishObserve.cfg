SPECIFICATION Spec
CONSTANTS
  Request = {r1, r2}
  Capability <- MCCapability
  Key <- MCKey
  Identity <- MCIdentity
  Stream <- MCStream
  Offered <- ReplayOffered
  Candidate <- ReplayCandidate
  Revocable <- MCKey
  ExpiresAt <- MCExpiresAt
  Scope <- MCScope
  Skew = 1
  MaxLeases = 2
  WindowBits = 2
  Mode = "observe"
  MaxTime = 1
  None = None
SYMMETRY RequestSymmetry
INVARIANTS
  MetricsAgree
CHECK_DEADLOCK FALSE
