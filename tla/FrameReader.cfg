\* All inputs of up to six bytes, cut into chunks in every way.
CONSTANTS
  MaxLength = 6
  Inputs <- MCInputs
  Limits <- MCLimits
  UsizeMax <- MCUsizeMax
SPECIFICATION Spec
INVARIANTS
  ChunkingInvisible
  LinesInOrder
  StorageSuffices
\* The reader stops at its first failed call.
CHECK_DEADLOCK FALSE
