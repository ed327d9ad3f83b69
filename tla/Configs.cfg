SPECIFICATION FairSpec
CONSTANTS
  Groups <- SomeGroups
  Kinds <- SomeKinds
  Shipped = {"cnv"}
  Custom = {"cnv-2"}
  Default <- VMDefault
  Contents <- AppContents
  MaxFaults = 1
  MaxEdits = 2
INVARIANT TypeOK
PROPERTIES TeamsWinUndisturbed MergeConverges SeedingCompletes
CHECK_DEADLOCK FALSE
