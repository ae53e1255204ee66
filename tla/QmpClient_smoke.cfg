\* Two messages on their way, lines in up to two parts, a flood of events.
CONSTANTS
  Timeout = 2
  MaxEvents = 1
  MaxParts = 2
  Room = 2
SPECIFICATION FairSpec
INVARIANTS
  OkMeansRoundTrip
  LoadsOwnSnapshot
PROPERTY ClientEnds
\* The client exits.
CHECK_DEADLOCK FALSE
