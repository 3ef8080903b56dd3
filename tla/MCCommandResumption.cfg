CONSTANTS
  t1 = t1
  t2 = t2
  MaxRate = 1
  Tunings = {t1, t2}
  OutOfRange = outOfRange
  MaxElements = 1
  MaxOrdinal = 0
  Wanted <- MCWanted
  MaxId = 5
  MaxLives = 2
  MaxBoots = 2
  Connections = 2
  MaxCommands = 1
SPECIFICATION Spec
INVARIANTS TypeOK FreshIdentifiers ConfigurationHolds
PROPERTY ExecutedDirectly
