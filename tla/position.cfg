SPECIFICATION Spec
CONSTANTS
  u = u
  v = v
  a = a
  b = b
  t = t
  NoPw = NoPw
  NoNumber = NoNumber
  Zeros = Zeros
  Blank = Blank
  BadPassword = NoPw
  Users = {u}
  Numbers = {a, b}
  Lists <- WithGap
  TradePasswords = {t}
  Overrides <- SecondOverridden
  Symbols <- AllOrNone
  Modes = {"list", "single"}
  MaxSelections = 2
  MaxProcesses = 2
  MaxLogins = 2
  MaxEvents = 2
INVARIANT PlaceIsIndex
CHECK_DEADLOCK FALSE
