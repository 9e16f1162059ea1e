SPECIFICATION RemovalSpec
CONSTANTS
  Users <- OneUser
  Admins <- OneUser
  Anonymous = anonymous
  u1 = u1
  u2 = u2
  h1 = h1
  h2 = h2
  Uniques = {u1}
  Filenames = {}
  MaxSize = 1
  Limit <- NoLimit
  Handlers = {h1, h2}
  MaxFaults = 0
  MaxCrashes = 0
  None = None
INVARIANT RemovedUserLeavesNothing
CHECK_DEADLOCK FALSE
