CONSTANTS
  Ids = {1, 2, 3, 4}
  Matters = {m1, m2}
  Kinds = {k1}
  Levels = {0, 1, 2}
  PageSize = 1
  Null = Null
SPECIFICATION Spec
SYMMETRY Symmetry
INVARIANTS
  TypeOK
  SupersessionSound
  OneConfirmedMarker
  CatalogComplete
PROPERTIES
  NoSilentDowngrade
CHECK_DEADLOCK FALSE
