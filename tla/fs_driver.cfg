SPECIFICATION Spec
CONSTANTS
  Keys <- TwoKeys
  Dirs <- TwoDirs
  Root = "root"
  DirOf <- DirOfKey
  Parent <- ParentDir
  Bodies = {"short", "long"}
  Length <- LengthOf
  Caps = {1}
  Clients = {c1, c2}
  Files = {f1, f2, f3}
  MaxInt = 7
  MaxCrashes = 1
  MaxLost = 1
  None = None
SYMMETRY Symmetric
VIEW LiveState
INVARIANTS TypeOK LinkedFilesAreWhole StrayTempsHaveACause DirectoryMissingOnlyByPrune
PROPERTIES NamesGoByTheirOwners ImplementsObjectStore
