SPECIFICATION Spec
CONSTANTS
  Paths = {"/a", "/a (deleted)"}
  DeletedPath = "/a (deleted)"
  Inodes = {i1, i2}
  None = none
  NotAPath = notapath
  MaxEvents = 3
INVARIANT FoundWhenUntouched
PROPERTY AnswerNamesTheFile
CHECK_DEADLOCK FALSE
