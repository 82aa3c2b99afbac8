SPECIFICATION Spec
CONSTANTS
  Slots = 3
  Stretch = 3
  Around = 1
  Contents <- TwoKinds
  Files <- RepeatsItself
  MaxChanges = 0
\* The user may give up for good.
CHECK_DEADLOCK FALSE
INVARIANT NeverAstray
