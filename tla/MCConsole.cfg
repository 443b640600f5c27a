SPECIFICATION ConsoleSpec
CONSTANTS
  Width = 2
  Height = 2
  Rows = 3
  PosLimit = 16
  Char <- MCChar
  MaxTyped = 2
  MaxText = 6
INVARIANT ConsoleTypeOK
INVARIANT BufferIsThePaper
INVARIANT ScreenIsThePaper
PROPERTY PrintingIsSeen
