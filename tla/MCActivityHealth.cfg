CONSTANTS
  Interval = 2
  MaxErrors = 2
  MaxResets = 2
SPECIFICATION FairSpec
INVARIANTS TypeOK
PROPERTIES HealthyIsEarned HealthReturns
