SPECIFICATION Spec
CONSTANTS
  a = a
  n = n
  d = d
  e = e
  r = r
  Window = Window
  AutoMode = AutoMode
  Programs = {Window, AutoMode}
  Days = {d, e}
  Texts = {"", r}
  Blank = ""
  Accounts = {a}
  NoAccount = NoAccount
  Numbers = {n}
  NoTable = NoTable
  NoRow = NoRow
  NoPage = NoPage
  NoFile = NoFile
  OldRows <- OldReason
  Executed <- SameNumber
INVARIANTS
  TypeOK
  OldReasonsKept
PROPERTY Remembers
