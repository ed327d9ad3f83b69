SPECIFICATION FairSpec
CONSTANTS
  Groups <- SomeGroups
  Kinds <- SomeKinds
  Shipped = {}
  Custom = {"a", "b"}
  Default <- VMDefault
  Contents <- AppContents
  MaxFaults = 0
  MaxEdits = 2
PROPERTY TeamExcludeHonoured
CHECK_DEADLOCK FALSE
