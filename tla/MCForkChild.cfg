SPECIFICATION FairSpec
CONSTANTS
  Parent = parent
  Child = child
  Grandchildren = {g1}
  Siblings = {s1}
  x = x
  nl = nl
  nul = nul
  none = none
  Bytes <- MCBytes
  Newline = nl
  Nul = nul
  NoOutput = none
  ExitCodes <- MCExitCodes
  Signals <- MCSignals
  PipeCapacity = 2
  InitialSize = 1
  IntMax = 4
  MaxOutput = 4
INVARIANTS StoresInBounds RoomLeft NothingLost EofIsFinal OutputComplete ExitCodeFaithful
PROPERTIES ImplementsCapture ForkChildEnds
CHECK_DEADLOCK FALSE
