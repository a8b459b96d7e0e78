SPECIFICATION Spec
CONSTANTS
  UserId = {u1, u2, u3}
  KeyId = {k1, k2, k3}
  Handler = {h1, h2}
  NoUser = NoUser
  System = System
  Nobody = Nobody
  MaxCalls = 5

SYMMETRY Symmetry
INVARIANT
  ResetYieldsKey
CHECK_DEADLOCK FALSE
