SPECIFICATION FairSpec
CONSTANTS
  a = a
  b = b
  Accounts = {a, b}
  NoAccount = NoAccount
  Chunks = 1
  RejectCodes = {"21263"}
  MaxStale = 1
  LastPage <- TwoPages
  SplitRows <- FirstRows
  MaxAttempts = 2
  AutoProbe = FALSE
  ExecBase = 1
  SplitBase = 100
  BalanceBase = 50
  Batch <- OneAccount
  Jobs = {"QUERY", "BALANCE"}
  MaxCommands = 1
INVARIANTS
  TypeOK
  WholeAccounts
  RequestBudget
  IInv
PROPERTY Answered
CHECK_DEADLOCK FALSE
