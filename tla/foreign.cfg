SPECIFICATION Spec
CONSTANTS
  a = a
  b = b
  Accounts = {a, b}
  NoAccount = NoAccount
  Chunks = 1
  RejectCodes = {"21263"}
  MaxStale = 1
  LastPage <- OnePage
  SplitRows <- FirstRowSplit
  MaxAttempts = 2
  AutoProbe = TRUE
  ExecBase = 1
  SplitBase = 100
  BalanceBase = 50
  Batch <- OneAccount
  Jobs = {"QUERY"}
  MaxCommands = 2
INVARIANT NoForeignRows
CHECK_DEADLOCK FALSE
