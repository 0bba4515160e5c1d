CONSTANTS
  Matter = Matter
  Records = {r1, r2}
  Details = {d1, d2}
  Null = Null
  PageSize = 2
  MaxEvents = 5
  MaxVersion = 2
  MaxDamage = 2
SPECIFICATION Spec
SYMMETRY Symmetry
INVARIANT BackfillAvailable
CHECK_DEADLOCK FALSE
