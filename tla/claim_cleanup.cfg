SPECIFICATION FairSpec
CONSTANTS
  Users <- OneUser
  Admins <- OneUser
  Anonymous = anonymous
  u1 = u1
  u2 = u2
  h1 = h1
  h2 = h2
  Uniques = {u1}
  Filenames = {}
  MaxSize = 1
  Limit <- AliceThree
  Handlers = {h1}
  MaxFaults = 0
  MaxCrashes = 0
  None = None
PROPERTY OrphansReconciled
CHECK_DEADLOCK FALSE
