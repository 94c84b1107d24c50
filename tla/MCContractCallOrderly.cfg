SPECIFICATION FairSpec
CONSTANTS
  o1 = o1
  o2 = o2
  c1 = c1
  c2 = c2
  c3 = c3
  None = None
  Objs = {o1, o2}
  Calls = {c1, c2}
  OwnServer = {o2}
  Overlap = FALSE
  Resimulate = FALSE
  MaxAttempts = 2
  MaxFees = 2
  MaxSeq = 2
INVARIANTS
  SendsWhatIsBuilt
PROPERTIES
  CallsEnd
CHECK_DEADLOCK FALSE
