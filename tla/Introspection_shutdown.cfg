\* A blocked process whose stack cannot be read, and a worker that does not stop.
CONSTANTS
  MaxGeneration = 0
  MaxFlaws = 2
  MaxFrames = 1
SPECIFICATION Spec
PROPERTY ShutdownFailureLowersConfidence
\* The call ends.
CHECK_DEADLOCK FALSE
