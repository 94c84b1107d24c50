SPECIFICATION Spec
CONSTANTS
  b1 = b1
  b2 = b2
  t1 = t1
  t2 = t2
  pay = pay
  bad = bad
  k1 = k1
  pub = pub
  Builders = {b1, b2}
  Txs = {t1, t2}
  Ops = {pay, bad}
  BadOps = {bad}
  Keys = {k1, pub}
  PublicOnly = {pub}
  KeyLists <- MCKeyLists
  BaseFee = 100
  FirstSeq = 7
  ReuseBuilders = TRUE
  ResignInner = FALSE
  None = None
  MaxOps = 2
  MaxSigning = 1
  MaxSigs = 2
SYMMETRY MCSymmetry
INVARIANTS
  FeeCoversOperations
CHECK_DEADLOCK FALSE
