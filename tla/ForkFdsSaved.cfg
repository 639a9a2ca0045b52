SPECIFICATION Spec
CONSTANTS
  MaxFd = 6
  MaxInherited = 2
INVARIANT SavedAreOriginal
CHECK_DEADLOCK FALSE
