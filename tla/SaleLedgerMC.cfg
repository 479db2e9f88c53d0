CONSTANTS
  Call = {c1, c2, c3}
  Total = 2
  Pool = 2
  CardLeg = TRUE
  MaxDeaths = 1
  NoCall = NoCall

SPECIFICATION Spec

INVARIANTS
  
  ReceivableFollowsBooks
  
  UndoneOnce
  LegRecordedOnce

PROPERTIES
  RequestsEnd
  ImplementsTill

\* Every request ends, and Call has no further ones.
CHECK_DEADLOCK FALSE
