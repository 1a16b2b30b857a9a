SPECIFICATION FairSpec
CONSTANTS
  u = u
  v = v
  a = a
  b = b
  t = t
  NoPw = NoPw
  NoNumber = NoNumber
  Zeros = Zeros
  Blank = Blank
  BadPassword = NoPw
  Users = {u, v}
  Numbers = {a, b}
  Lists <- TwoUsers
  TradePasswords = {t}
  Overrides <- SecondOverridden
  Symbols <- AllOrNone
  Modes = {"session", "batch", "single", "list"}
  MaxSelections = 2
  MaxProcesses = 2
  MaxLogins = 2
  MaxEvents = 2
INVARIANT TypeOK
INVARIANT LoginOwn
INVARIANT SentAsMeant
INVARIANT LInv
PROPERTY LoginEnds
CHECK_DEADLOCK FALSE
