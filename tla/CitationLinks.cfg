CONSTANTS
  Matters = {m1, m2}
  Docs = {d1, d2}
  Pages = {0, 1}
  Labels = {v1}
  Anchors = {x1}
  Links = {l1, l2}
  MaxEdits = 4
  Null = Null
SPECIFICATION Spec
SYMMETRY Symmetry
INVARIANTS
  ReplyTellsTruth
CHECK_DEADLOCK FALSE
