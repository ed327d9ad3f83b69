SPECIFICATION Spec
CONSTANTS
  Groups <- SomeGroups
  Kinds <- SomeKinds
INVARIANTS OverlapIsExact ExcludesSpareProtected
CHECK_DEADLOCK FALSE
