CONSTANTS
  Ids <- MCIds
  Assets <- MCAssets
  Cursors = {2}
  Limits = {1}
  DefaultLimit = 2
  Part = {1, 3}
  Paged <- MCPaged
  MaxRecords = 4
  MaxSets = 3
  MaxPages = 3
  None = None
  Accounts <- MCAccounts
  Muxed <- MCMuxed
  MemoTypes <- MCMemoTypes
  OtherTypes <- MCOtherTypes
  MaxOps = 3
  NoDestination = NoDestination
  alice = alice
  bob = bob
  muxed = muxed
SPECIFICATION MCSpec
CHECK_DEADLOCK FALSE
CONSTRAINT MCBounds
INVARIANTS
  RequestsAgree
  PagesContinue
  MemoCheckVouches
