SPECIFICATION Spec
CONSTANTS
  Chars <- MCChars
  Commands <- MCCommands
  MaxFrames = 3
  BUF = 90
INVARIANTS
  ExecutesInOrder
  StreamAligned
  ReadsToTheEnd
