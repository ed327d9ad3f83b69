SPECIFICATION Spec
CONSTANTS
  Groups <- SomeGroups
  Kinds <- SomeKinds
  Shipped = {}
  Custom = {"a"}
  Default <- VMDefault
  Contents <- AppContents
  MaxFaults = 0
  MaxEdits = 2
INVARIANT TeamsWin
CHECK_DEADLOCK FALSE
