\* Two calls on a channel of capacity 1: one executing and one queued, or one
\* queued and one refused.
CONSTANTS
  c1 = c1
  c2 = c2
  Calls = {c1, c2}
  NoCall = NoCall
  Capacity = 1
SPECIFICATION FairSpec
INVARIANTS
  UnreachableArms
  ReplyNeverBlocks
  AcceptedRequestOwned
  ClosedChannelExplained
  ShutdownOkQuiescent
  EarlyStopExplained
PROPERTIES
  StopIsFinal
  ImplementsService
  WaitsAreBounded
  AcceptedRequestsSettled
  WorkerEnds
\* The worker and its users come to an end.
CHECK_DEADLOCK FALSE
