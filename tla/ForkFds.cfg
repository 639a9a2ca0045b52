SPECIFICATION Spec
CONSTANTS
  MaxFd = 9
  MaxInherited = 3
INVARIANTS ChildOutputGoesToPipe RestoreStopsSending NoDescriptorLeft
PROPERTY CallerFilesStayOpen
CHECK_DEADLOCK FALSE
