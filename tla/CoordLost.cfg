CONSTANTS
  Jobs = {j1}
  Workers = {w1, w2}
  Pages = {p1}
  None = None
  MaxAttempts = 3
  Faults = {}
  MaxFaults = 0
SPECIFICATION Spec
INVARIANTS
  NeverLost
CHECK_DEADLOCK FALSE
