SPECIFICATION AllSpec
CONSTANTS
  NONE = NONE
  Editors = {"e", "f"}
  Modes = {"blame", "heatmap"}
  MaxEvents = 1
  MaxCommands = 3
  Lines = {1, 2}
  MaxVersion = 2
  MaxMoves = 3
  Files = {"a", "b"}
  MaxCommits = 2
  Page = 1
  MaxShows = 2
  MaxChanges = 1
  MaxFailures = 1
  StashSurfaces = {"view", "palette"}
  Palette = {"palette"}
  Stashed <- TwoStashes
  MaxEntries = 3
  MaxActions = 3
  Repos = {"A", "B"}
  Busy = {"A"}
  Picks = {2}
  MaxOperations = 2
  MaxOutside = 1
INVARIANTS SubsetExact GoneAsMeant  TimelineKept AnnotationsKept LineKept
PROPERTIES AskEnds
\* A document may be closed for good, and what the user does is bounded.
CHECK_DEADLOCK FALSE
