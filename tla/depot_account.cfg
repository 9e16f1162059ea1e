SPECIFICATION Spec
CONSTANTS
  Users <- OneUser
  Admins <- OneUser
  Anonymous = anonymous
  u1 = u1
  u2 = u2
  h1 = h1
  h2 = h2
  Uniques = {u1}
  Filenames = {"f", "g"}
  MaxSize = 1
  Limit <- AliceOne
  Handlers = {h1, h2}
  MaxFaults = 1
  MaxCrashes = 1
  None = None
SYMMETRY Symmetric
INVARIANTS QuotaOvershootBounded
PROPERTIES OrphansHaveACause
