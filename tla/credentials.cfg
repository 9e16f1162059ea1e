SPECIFICATION Spec
CONSTANTS
  alice = alice
  bob = bob
  k1 = k1
  k2 = k2
  h1 = h1
  h2 = h2
  Users = {alice, bob}
  Service = service
  Nobody = nobody
  JWTs <- SomeJWTs
  KeyIds = {k1, k2}
  Handlers = {h1, h2}
  MaxTime = 2
  PerSecond = 2
  Skew = 1
  None = None
SYMMETRY Symmetric
INVARIANTS TypeOK RevokedForGood DeadKeysAreRefused EnabledCredentialsOnly
PROPERTIES KeysNeedALogin SignedOutForGood
