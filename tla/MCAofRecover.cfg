SPECIFICATION Spec
CONSTANTS
  Chars <- MCChars
  Commands <- MCCommands
  MaxFrames = 1
  BUF = 5
PROPERTIES
  TruncatesTail
