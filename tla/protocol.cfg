SPECIFICATION FairSpec
CONSTANTS
  NotInt = NotInt
  TradePasswords = {NotInt, 9999}
  Selections <- UpToTwo
  MaxSelections = 2
  MaxRequests = 4
INVARIANTS
  TypeOK
  InSync
  AtRest
  RunsAsAsked
PROPERTIES
  KeepsPromise
  OthersReturn
  NoOrphan
CHECK_DEADLOCK FALSE
