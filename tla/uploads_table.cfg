SPECIFICATION Spec
CONSTANTS
  k1 = k1
  k2 = k2
  k3 = k3
  Keys = {k1, k2, k3}
  Owners <- TwoOwners
  IndexPlace <- ByIssuer
  Times = {1, 2}
  Scopes <- TwoScopes
  Wipers = {w1}
  Orders = {"desc"}
  PageLimits = {1, 2}
  MaxInserts = 3
SYMMETRY Symmetric
VIEW LiveState
INVARIANTS TypeOK WalkMissesBounded WalkRepeatsBounded
PROPERTIES ImplementsUploadStore
