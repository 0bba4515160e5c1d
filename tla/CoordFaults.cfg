CONSTANTS
  Jobs = {j1}
  Workers = {w1, w2}
  Pages = {p1, p2}
  None = None
  MaxAttempts = 2
  Faults = {"crash", "expiry", "write", "throw", "tie"}
  MaxFaults = 2
SPECIFICATION Spec
SYMMETRY Symmetry
INVARIANTS
  TypeOK
  AttemptFromOneTurn
  ResultsFromOneTurn
  SucceededHasResultsUnlessCut
  DeadLetterCarriesFailure
CHECK_DEADLOCK FALSE
