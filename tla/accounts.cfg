SPECIFICATION Spec
CONSTANTS
  a = a
  b = b
  Accounts = {a, b}
  NoAccount = NoAccount
  Chunks = 2
  RejectCodes = {"21263"}
  MaxStale = 1
  LastPage <- OnePage
  SplitRows <- ThreeSplit
  MaxAttempts = 1
  AutoProbe = TRUE
  ExecBase = 1
  SplitBase = 100
  BalanceBase = 50
  Batch <- TwoAccounts
  Jobs = {"QUERY", "BALANCE"}
  MaxCommands = 1
INVARIANTS
  WholeAccounts
  OwnAnswers
  RequestBudget
CHECK_DEADLOCK FALSE
