SPECIFICATION Spec
CONSTANTS
  Procs = {p1, p2}
  Parts = 2
  NoFile = NoFile
  Hole = Hole
  Modes = {"single"}
  Concurrent = TRUE
INVARIANT ExportSurvives
CHECK_DEADLOCK FALSE
