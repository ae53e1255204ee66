\* Two signals for each wrapper.
CONSTANTS
  a = a
  b = b
  pathA = pathA
  pathB = pathB
  port = port
  disk = disk
  NoOne = NoOne
  Wrappers <- TwoWrappers
  Locks <- AllLocks
  Wants <- MCWants
  MaxSignals = 2
SPECIFICATION Spec
INVARIANT HeldWhileRunning
\* Every invocation of the script comes to an end.
CHECK_DEADLOCK FALSE
