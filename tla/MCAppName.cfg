CONSTANTS
  Letters <- TheLetters
  Runes <- TheRunes
  TagSets <- TheTagSets
  Sid <- TheSid
  Scopes <- TheScopes
  RuntimeName <- TheRuntime
  MaxLen = 6
SPECIFICATION Spec
INVARIANT TagsTakePrecedence
INVARIANT ReceivedAsSent
CHECK_DEADLOCK FALSE
