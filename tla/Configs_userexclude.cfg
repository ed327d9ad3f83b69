SPECIFICATION FairSpec
CONSTANTS
  Groups <- SomeGroups
  Kinds <- SomeKinds
  Shipped = {"cnv"}
  Custom = {}
  Default <- VMDefault
  Contents <- MixedContents
  MaxFaults = 0
  MaxEdits = 1
PROPERTY UserExcludeGivesWay
CHECK_DEADLOCK FALSE
