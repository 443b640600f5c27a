SPECIFICATION CableSpec
CONSTANTS
  EDITOR_ROWS = 3
  EDITOR_COLS = 3
  CodeSize = 15
  FileName <- ShortName
  SectorSize = 3
  Char <- Letters
  ShellTexts <- WrittenTexts
  MaxTyped = 3
  MaxRow = 3
INVARIANTS
  RowsAreZeroPadded
  TextIsKept
PROPERTIES
  SaveReachesTheFile
  NoSilentEdit
