SPECIFICATION Spec
CONSTANTS
  Docs = {d1, d2}
  Archives = {a1}
  MaxOpens = 2
  MaxDamage = 1
  MaxCrashes = 1
  Null = Null
SYMMETRY Symmetry
INVARIANTS
  TypeOK
  BackupIsHonest
  RestoredIsComplete
  LatestCopyKept
CHECK_DEADLOCK FALSE
