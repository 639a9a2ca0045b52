SPECIFICATION NormSpec
CONSTANTS
  Slash = "/"
  Dot = "."
  DotDot = ".."
  TildeNames <- MCTildeNames
  PlainNames <- MCPlainNames
  Bytes <- MCBytes
  Inputs <- MCInputs
  Gone = gone
  Null = null
  MaxNames = 3
  RootedTilde = TRUE
INVARIANT AbsoluteIsNeverNull
CHECK_DEADLOCK FALSE
