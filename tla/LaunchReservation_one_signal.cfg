\* One TERM or INT for each wrapper, and SIGKILL at any time.
CONSTANTS
  a = a
  b = b
  pathA = pathA
  pathB = pathB
  port = port
  disk = disk
  NoOne = NoOne
  Wrappers <- TwoWrappers
  Locks <- AllLocks
  Wants <- MCWants
  MaxSignals = 1
SPECIFICATION FairSpec
INVARIANTS
  HeldWhileRunning
  ChildReaped
  LeftoversExplained
PROPERTY SignalEndsWrapper
\* Every invocation of the script comes to an end.
CHECK_DEADLOCK FALSE
