CONSTANTS
  Op = {w1, w2}
  Row = {bill, due, cost}
  Sale = {due}
  Expense = {cost}
  Store = {s1, s2}
  NoStore = NoStore
  Amount = {2}
  MaxTax = 1
  MaxOps = 3

SPECIFICATION Spec

INVARIANTS
  
  StoreExplained
  TaxRemittedOnce


  

SYMMETRY Swaps

\* The requests are spent.
CHECK_DEADLOCK FALSE
