SPECIFICATION Spec
CONSTANTS
  Callers = {c1, c2}
  MaxVersion = 5
  MaxContents = 3
  Bounds <- Reopening
INVARIANT NeverAnothersBlame
\* A document may be closed for good.
CHECK_DEADLOCK FALSE
