CONSTANTS
  Task = {t1, t2, t3}
  Proc = {p1, p2}
  Threshold = 2
  MaxFaults = 2

SPECIFICATION ReadsSpec

INVARIANTS
  ReadsAreFresh
  ProbeIsUnderWay

SYMMETRY Swaps

\* Every request ends, and Task has no further ones.
CHECK_DEADLOCK FALSE
