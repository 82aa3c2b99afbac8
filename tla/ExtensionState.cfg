SPECIFICATION AllSpec
CONSTANTS
  NONE = NONE
  c1 = c1
  c2 = c2
  outer = outer
  inner = inner
  Dirs = {outer, inner}
  Inside <- Nested
  Respelled = {}
  MaxEvents = 2
  MaxLookups = 2
  MaxCrashes = 1
  Surfaces <- Two
  MaxVersion = 5
  MaxContents = 3
  Bounds <- Editing
  Flows <- Two
  MaxChanges = 2
  Paths = {"a", "b"}
  Sizes = {1, 2}
  Workspaces <- SmallWorkspaces
  Limit = 3
  Modules = {1, 2}
  Flights = {"f", "g"}
  MaxStops = 1
  Gone = 0
  CacheKeys = {"k1", "k2"}
  Readers <- Two
  Fetches = {"f1", "f2"}
  MaxEntries = 1
  MaxDrops = 2
CHECK_DEADLOCK FALSE
SYMMETRY Interchangeable
INVARIANTS ListKept RegistryExact BuffersBlamed GraphRight NothingPutOff MirrorExact FreshAfterDrop
