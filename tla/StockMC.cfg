CONSTANTS
  Op = {w1, w2}
  Warehouse = Warehouse
  Shop = Shop
  Supply = 3
  MaxQty = 2
  Lot = {2}
  MaxOps = 4

SPECIFICATION Spec

INVARIANTS
  NonNegative
  UnitsConserved
  BalanceExplained

PROPERTY
  ImplementsInventory

SYMMETRY Sessions

\* The operations are spent.
CHECK_DEADLOCK FALSE
