CONSTANTS
  TransportIds = {x1, x2}
  JobIds = {j1, j2}
  Submissions = {s1, s2}
  Receipts = {r1, r2, r3}
  None = None
  LeaseMs = 2
  BusyWait = 1
  MaxNow = 4
  MaxEnqueues = 3
SPECIFICATION Spec
SYMMETRY Symmetry
INVARIANTS
  TypeOK
  OneActiveRowPerJob
  LedgerMatchesRows
  LastSeqIsMax
  FirstDeliveryFifo
PROPERTIES
  ResolutionFinal
  LeaseHonoured
  ImplementsLeaseQueue
CHECK_DEADLOCK FALSE
