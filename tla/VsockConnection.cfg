\* One call of each task; a socket holds one write, so that a sender waits.
CONSTANTS
  w1 = w1
  w2 = w2
  h = h
  g1 = g1
  g2 = g2
  Tasks <- MCTasks
  Writers <- MCWriters
  End <- MCEnd
  Capacity = 1
  MaxCalls = 1
SPECIFICATION FairSpec
INVARIANTS
  LinesAreWhole
  DeliveredInOrder
  OneCause
PROPERTIES
  ErrorsAreFinal
  CloseEndsCalls
\* Every call may be done, or wait for a peer that neither sends nor reads.
CHECK_DEADLOCK FALSE
