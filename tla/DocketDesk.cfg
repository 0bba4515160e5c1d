SPECIFICATION Spec
CONSTANTS
  Entries = {e1, e2}
  DeadlineIds = {1, 2}
  Dues = {1}
  Calls = {c1, c2}
  Null = Null
  PageSize = 1
  MaxLoads = 2
  DateOnly = DateOnly
SYMMETRY Symmetry
INVARIANTS TypeOK DeadlineMirrorsEntry RestingScreenIsTrue
PROPERTY LateMetIsExplained
CHECK_DEADLOCK FALSE
