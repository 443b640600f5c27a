SPECIFICATION ShellSpec
CONSTANTS
  CharKeys = {"a"}
  QuitKey = "a"
  MaxPresses = 2
  WireSize = 2
  MaxCommandLength = 2
  UintLimit = 2
PROPERTY
  LastKeyArrives
