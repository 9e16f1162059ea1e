SPECIFICATION Spec
CONSTANTS
  Users <- Everyone
  Admins <- OnlyRoot
  Anonymous = anonymous
  u1 = u1
  u2 = u2
  h1 = h1
  h2 = h2
  Uniques = {u1, u2}
  Filenames = {}
  MaxSize = 2
  Limit <- AliceThree
  Handlers = {h1, h2}
  MaxFaults = 1
  MaxCrashes = 1
  None = None
SYMMETRY Symmetric
INVARIANTS TypeOK DumpKeyIsFresh StoredWithinRow
PROPERTIES DeletionLeavesNoPhantom CommittedUploadHasBytes BytesBecomeFinal
\* Every unique segment may be used up and every row deleted.
CHECK_DEADLOCK FALSE
