SPECIFICATION FairSpec
CONSTANTS
  NotInt = NotInt
  TradePasswords = {9}
  Selections <- OneSel
  MaxSelections = 1
  MaxRequests = 3
PROPERTY RequestReturns
CHECK_DEADLOCK FALSE
