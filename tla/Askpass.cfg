SPECIFICATION Spec
CONSTANTS
  g1 = g1
  p1 = p1
  p2 = p2
  Gits = {g1}
  Prompts = {p1, p2}
  GitOf <- BothOfOne
  Settings <- EverySetting
INVARIANTS NeverCutShort
PROPERTIES GitsAndBrokerEnd ClientCleared
\* The clock is bounded.
CHECK_DEADLOCK FALSE
