CONSTANTS
  Op = {w1, w2}
  Product = {p1, p2}
  Qty = {2}
  VoidQty <- Voids
  Uses = 1
  MaxOps = 4

SPECIFICATION Spec

INVARIANTS
  
  CheckedOutIsSold
  CouponWithinLimit

SYMMETRY Swaps

\* The operations are spent.
CHECK_DEADLOCK FALSE
