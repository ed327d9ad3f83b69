SPECIFICATION FairSpec
CONSTANTS
  Plan <- OwnedPlan
  MaxGen = 2
  MaxFaults = 1
  MaxEdits = 2
INVARIANTS TypeOK RBACCovered
PROPERTIES FinalizerSparesLive ImplementsProductLife Converges DeletionCompletes
CHECK_DEADLOCK FALSE
