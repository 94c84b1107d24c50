SPECIFICATION Spec
CONSTANTS
  o1 = o1
  o2 = o2
  c1 = c1
  c2 = c2
  c3 = c3
  None = None
  Objs = {o1, o2}
  Calls = {c1, c2, c3}
  OwnServer = {}
  Overlap = FALSE
  Resimulate = TRUE
  MaxAttempts = 2
  MaxFees = 2
  MaxSeq = 2
INVARIANTS
  BuildWithOpBuilds
CHECK_DEADLOCK FALSE
