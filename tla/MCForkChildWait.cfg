SPECIFICATION Spec
CONSTANTS
  Parent = parent
  Child = child
  Grandchildren = {g1}
  Siblings = {s1}
  x = x
  nl = nl
  nul = nul
  none = none
  Bytes <- MCBytes
  Newline = nl
  Nul = nul
  NoOutput = none
  ExitCodes <- MCExitCodes
  Signals <- MCSignals
  PipeCapacity = 2
  InitialSize = 1
  IntMax = 3
  MaxOutput = 3
INVARIANT ReturnsAfterChildExit
CHECK_DEADLOCK FALSE
