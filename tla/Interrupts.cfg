SPECIFICATION IntSpec
CONSTANTS
  Devices = {0, 1, 7, 8, 14}
  MaxRaises = 4
INVARIANTS
  DispatchIsRight
  AllAcknowledged
PROPERTY
  RaisedIsServed
