SPECIFICATION ShellSpec
CONSTANTS
  CharKeys = {"a", "q"}
  QuitKey = "q"
  MaxPresses = 4
  WireSize = 2
  MaxCommandLength = 3
  UintLimit = 2
INVARIANT
  ShellTypeOK
PROPERTIES
  RunsTheEditedLine
  TakenInOrder
  PendingIsTaken
