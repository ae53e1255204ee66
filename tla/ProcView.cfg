\* Four lines, five of the maps, comms of four characters; the widths are
\* small enough to be exceeded.  Two CPUs and five ticks of the clock.
CONSTANTS
  MaxLines = 4
  MaxMaps = 5
  MaxComm = 4
  Content <- MCContent
  Numerals <- MCNumerals
  U64Max = 5
  U32Max = 2
  BackingMax = 4
  CmdlineMax = 2
  TopN = 2
  Cpus = 2
  MaxTicks = 5
  MaxSkew = 1
SPECIFICATION MCSpec
INVARIANTS
  StatFieldsUnmoved
  CgroupChoice
  ScansAgree
  ShapeAccountsForMaps
  TruncationsNamed
  WindowsMatch
\* A parser returns, and so does the sample.
CHECK_DEADLOCK FALSE
