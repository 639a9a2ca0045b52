SPECIFICATION NormSpec
CONSTANTS
  Slash = "/"
  Dot = "."
  DotDot = ".."
  TildeNames <- MCTildeNames
  PlainNames <- MCPlainNames
  Bytes <- MCBytes
  Inputs <- MCInputs
  Gone = gone
  Null = null
  MaxNames = 4
  RootedTilde = FALSE
INVARIANTS ResultIsWalked WritesInPlace DotsAreGone
PROPERTY ImplementsWalk
CHECK_DEADLOCK FALSE
