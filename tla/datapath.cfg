SPECIFICATION Spec
CONSTANTS
  Jobs <- MCJobs
  LoginInfo <- MCLoginInfo
  Rows <- MCRows
  Splits <- MCSplits
  Blocks <- MCBlocks
  Failures <- MCFailures
  Outcomes <- MCOutcomes
INVARIANTS Readable DiagnosisReadable Conserved AmountsAgree PartialIsReported DiagnosticTrue NumbersArrive
CHECK_DEADLOCK FALSE
