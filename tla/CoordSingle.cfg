CONSTANTS
  Jobs = {j1}
  Workers = {w1}
  Pages = {p1}
  None = None
  MaxAttempts = 3
  Faults = {"crash", "expiry", "write", "throw", "tie"}
  MaxFaults = 3
SPECIFICATION Spec
INVARIANTS
  AttemptAdvances
  RetryCapUnlessCut
  NeverLost
CHECK_DEADLOCK FALSE
