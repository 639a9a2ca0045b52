SPECIFICATION Spec
CONSTANTS
  Empty = empty
  InitialTag = initial
  tag23 = tag23
  tag24 = tag24
  Tags <- MCTags
  Length <- MCLength
  PidLengths = {1, 7}
  MessageLengths <- MCMessageLengths
  Errnos = {0, 13}
  ErrorLength <- MCErrorLength
  Null = null
  MaxSeen = 2
INVARIANTS LineEndsInNewline LevelDecides TagAndPrefixAgree
PROPERTY ErrnoKept
