SPECIFICATION Spec
CONSTANTS
  Request = {r1, r2, r3}
  Capability <- MCCapability
  Key <- MCKey
  Identity <- MCIdentity
  Stream <- MCStream
  Offered <- ReplayOffered
  Candidate <- ReplayCandidate
  Revocable = {}
  ExpiresAt <- MCExpiresAt
  Scope <- MCScope
  Skew = 1
  MaxLeases = 2
  WindowBits = 2
  Mode = "enforce"
  MaxTime = 1
  None = None
SYMMETRY RequestSymmetry
INVARIANTS
  TypeOK
  AtMostOneRelease
  OneBindingPerCapability
  ReplayIsJustified
  ReleaseInv
CHECK_DEADLOCK FALSE
