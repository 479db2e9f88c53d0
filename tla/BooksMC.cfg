CONSTANTS
  Payment = {p1, p2}
  Total = 2
  Worker = {w1, w2}
  MaxUndos = 1
  MaxFaults = 1

SPECIFICATION BooksSpec

INVARIANTS
  OneEntryPerEvent
  
  SaleBookedOnce


  

\* Payments and undos are bounded, and the consumers empty the queue.
CHECK_DEADLOCK FALSE
