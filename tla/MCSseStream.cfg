\* Every interleaving, an onError that may throw.
SPECIFICATION FairSpec
CONSTANTS
  NoCursor = NoCursor
  Now = Now
  NoId = NoId
  NoRetry = NoRetry
  DefaultRetry = 1000
  Cursors <- MCCursors
  Chatter <- MCChatter
  Unparsable = {2}
  ErrorHandlerThrows = TRUE
  MaxLog = 3
  MaxWire = 3
INVARIANTS
  TypeOK
  ResumesWithoutGapOrRepeat
  WireContinuesCursor
  BufferOfThisConnection
PROPERTIES
  ClosedStreamOnlyDrains
  ImplementsFeed
  EveryEventPresented
  CloseTerminates
CHECK_DEADLOCK FALSE
