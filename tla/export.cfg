SPECIFICATION Spec
CONSTANTS
  Procs = {p1, p2, p3}
  Parts = 2
  NoFile = NoFile
  Hole = Hole
  Modes = {"single", "batch"}
  Concurrent = FALSE
SYMMETRY Processes
INVARIANTS
  TypeOK
  WholeOrNothing
  TradesAreOwn
  ExportSurvives
  MInv
CHECK_DEADLOCK FALSE
