SPECIFICATION Spec
CONSTANTS
  Repos = {"A"}
  Busy = {"A"}
  Picks = {2}
  MaxCommands = 2
  MaxOutside = 0
  NONE = NONE
CHECK_DEADLOCK FALSE
INVARIANT NeverForgotten
