SPECIFICATION Spec
CONSTANTS
  Request = {r1, r2}
  Capability <- MCCapability
  Key <- MCKey
  Identity <- MCIdentity
  Stream <- MCStream
  Offered <- ControlOffered
  Candidate <- ControlCandidate
  Revocable <- MCKey
  ExpiresAt <- MCExpiresAt
  Scope <- MCScope
  Skew = 1
  MaxLeases = 1
  WindowBits = 2
  Mode = "enforce"
  MaxTime = 1
  None = None
INVARIANTS
  OneIdentityPerStream
PROPERTIES
  RevocationIsFinal
  RevokedNeverReleased
CHECK_DEADLOCK FALSE
