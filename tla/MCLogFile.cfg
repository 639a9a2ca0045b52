SPECIFICATION Spec
CONSTANTS
  Processes = {p1, p2, p3}
  First = p1
  Files = {f1, f2}
  Null = null
  UpdateOn = "everyFork"
  Caching = {TRUE, FALSE}
  MaxLines = 2
  MaxCalls = 2
  MaxOpened = 2
SYMMETRY MCSymmetry
INVARIANTS LoggedIsKept PathIsStreams PidIsWriters LogInv
PROPERTY DropsAnnounced
CHECK_DEADLOCK FALSE
