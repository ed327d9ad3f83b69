SPECIFICATION KeptSpec
CONSTANTS
  Plan <- ReconcilePlan
  MaxGen = 1
  MaxFaults = 1
  MaxEdits = 1
PROPERTY Converges
CHECK_DEADLOCK FALSE
