CONSTANTS
  own = own
  copy = copy
  b1 = b1
  b2 = b2
  k1 = k1
  watcher = watcher
  Sources <- MCSources
  Own = own
  Builders <- MCBuilders
  Keys <- MCKeys
  PublicOnly = watcher
  Fees = {1, 3}
  Resources = {0, 2}
  Foreign <- MCForeign
  Setters = {"timeout", "timebounds", "sorobanData", "preconditions"}
  MinBaseFee = 2
  MaxOps = 2
  MaxFee = 6
  MaxTxs = 3
  MaxSigs = 2
  MaxFailures = 1
  MaxBumps = 1
  None = None
SPECIFICATION Spec
CHECK_DEADLOCK FALSE
SYMMETRY MCSymmetry
CONSTRAINT MCBounds
INVARIANTS
  TypeOK
  EveryNumberAccountedFor
  BumpPaysMoreThanInner
  BumpHashIsOfWhatIsSent
  CloneCostsNoMore
PROPERTY NumbersAreHandedOut
