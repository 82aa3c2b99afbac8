SPECIFICATION Spec
CONSTANTS
  Repos = {"A", "B"}
  Rows = 2
  Retries = 1
  \* A repository is added and chosen while the panel waits for one, then an action.
  Scripts = {{"workspace", "act"}}
  Length = 3
CHECK_DEADLOCK FALSE
INVARIANTS ActionsOnTheirRepository
