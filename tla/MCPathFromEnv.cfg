SPECIFICATION Spec
CONSTANTS
  Slash = "/"
  Dot = "."
  DotDot = ".."
  TildeNames <- MCTildeNames
  PlainNames <- MCPlainNames
  Bytes <- MCBytes
  Inputs <- MCInputs
  Gone = gone
  Null = null
  Unset = unset
  Defaults <- MCDefaults
  Limits = {0, 5}
  BufferSizes = {5, 10}
  AbsoluteOnly = {TRUE, FALSE}
  MaxNames = 3
  RootedTilde = FALSE
INVARIANTS FitsInBuffer AnswerIsPath AnswerIsNormal
CHECK_DEADLOCK FALSE
