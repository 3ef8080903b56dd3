CONSTANTS
  MaxRate = 2
  Tunings = {t1, t2}
  OutOfRange = outOfRange
  MaxElements = 2
  MaxOrdinal = 4
SPECIFICATION DeviceSpec
INVARIANTS DeviceTypeOK StreamAgrees OrdinalAccounts
PROPERTIES FailedCommitIsVoid
