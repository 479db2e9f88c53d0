CONSTANTS
  Op = {o1, o2, o3, o4}
  Fee = {f1, f2, f3}
  Limit = 2
  MaxChanges = 1
  MaxFaults = 1

SPECIFICATION Spec

INVARIANTS
  SalesAccountedFor
  
  DeductedIsPaid
  

PROPERTY
  CompletedStays

SYMMETRY Swaps

\* Every request ends, and Op has no further ones.
CHECK_DEADLOCK FALSE
