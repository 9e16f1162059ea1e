SPECIFICATION Spec
CONSTANTS
  None = None
  Names = {"a", "b"}
  Users = {"u"}
  MaxInt = 15
  Written = {0, 3, 11, 19}
  Precise = 4
  Float <- Nearest
  TooBig <- Lowest
  Declared = {0, 1, 3, 12, 15}
  Held = 3
  Overhead = 1
  Configured <- PoliciesAndBoots
  MaxUploads = 3
INVARIANTS TypeOK ServesAsConfigured CapsHoldAsStated QuotaIsExact DeriveNeverRefuses
CHECK_DEADLOCK FALSE
