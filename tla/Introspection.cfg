\* The pid is reused once; three inputs are degraded; stacks of up to two frames.
CONSTANTS
  MaxGeneration = 1
  MaxFlaws = 3
  MaxFrames = 2
SPECIFICATION Spec
INVARIANTS
  OneProcess
  NotFoundMeansGone
  DoubtsReachResult
  FieldsStandForReports
  OverallCountsFields
  WorkerNotLeft
\* The call ends.
CHECK_DEADLOCK FALSE
