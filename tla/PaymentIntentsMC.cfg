CONSTANTS
  Intent = {i1, i2}
  Call = {c1, c2, c3}
  Transfer = {i2}
  Couponed = {i1}
  MaxUses = 2
  InitStock = 2
  MaxDeaths = 1
  NoIntent = NoIntent
  NoCall = NoCall

SPECIFICATION Spec

INVARIANTS
  CompletedIsPaid
  DuplicateSalesOverlap
  StockAccountedFor
  LoggedIsPaid

PROPERTIES
  ClosedStaysClosed

SYMMETRY Calls

\* Every request ends, and Call has no further ones.
CHECK_DEADLOCK FALSE
