\* A line may come in two parts.
CONSTANTS
  Timeout = 2
  MaxEvents = 1
  MaxParts = 2
  Room = 2
SPECIFICATION Spec
INVARIANT WaitsWithinTimeout
\* The client exits.
CHECK_DEADLOCK FALSE
