SPECIFICATION FairRemovalSpec
CONSTANTS
  Users <- BothAlices
  Admins <- OneUser
  Anonymous = anonymous
  u1 = u1
  u2 = u2
  h1 = h1
  h2 = h2
  Uniques = {}
  Filenames = {"f"}
  MaxSize = 1
  Limit <- NoLimit
  Handlers = {h1, h2}
  MaxFaults = 1
  MaxCrashes = 1
  None = None
INVARIANT RemovedUserHasNoRow
PROPERTIES RemovedUserStoresByCapability RemovedRowsLoseBytes
