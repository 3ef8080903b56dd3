CONSTANTS
  Workers = {w1, w2, w3}
  RequestUnits = 2
  ResponseUnits = 1
  MaxClients = 3
  MaxChanges = 1
  MaxTurns = 2
SPECIFICATION FairSpec
INVARIANTS TypeOK FreshStatus AnsweredInTwoTurns
PROPERTY ShutdownCompletes
