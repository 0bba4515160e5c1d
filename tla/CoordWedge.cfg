CONSTANTS
  Jobs = {j1}
  Workers = {w1}
  Pages = {p1}
  None = None
  MaxAttempts = 2
  Faults = {"throw"}
  MaxFaults = 1
SPECIFICATION Spec
INVARIANTS
  RedeliveryProceeds
CHECK_DEADLOCK FALSE
