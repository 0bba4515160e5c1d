CONSTANTS
  Matter = Matter
  Records = {r1, r2}
  Details = {d1, d2}
  Null = Null
  PageSize = 2
  MaxEvents = 5
  MaxVersion = 2
  MaxDamage = 2
SPECIFICATION Spec
SYMMETRY Symmetry
INVARIANTS
  TypeOK
  CleanLogVerifies
  HistoryExplainsRows
  VerifiedMeansIntact
  
PROPERTIES
  PagesAreTheHistory
  WritesOnlyAdd
  ImplementsAuditTrail
CHECK_DEADLOCK FALSE
