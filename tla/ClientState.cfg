SPECIFICATION AllSpec
CONSTANTS
  b1 = b1
  b2 = b2
  r1 = r1
  r2 = r2
  c1 = c1
  c2 = c2
  k1 = k1
  k2 = k2
  Requests = {r1, r2}
  Restarts = {c1, c2}
  Prompts = {k1, k2}
  MaxGenerations = 4
  Callers = {b1, b2}
  Versions = {1, 2}
  Tokens = {"none", "live", "dead"}
  MaxRequests = 3
  MaxEntries = 2
  MaxBytes = 3
  Sizes = {1, 2}
  Hosts <- Everyone
SYMMETRY Interchangeable
INVARIANTS EnginesKept PromptsExact CallersServed
PROPERTIES GenerationsApart
\* A client may have nothing left to do.
CHECK_DEADLOCK FALSE
