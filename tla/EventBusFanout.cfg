CONSTANTS
  pay = pay
  rcpt = rcpt
  sales = sales
  payments = payments
  reporting = reporting
  Event = {pay, rcpt}
  Service = {sales, payments, reporting}
  Relay = {r1}
  Bound <- MCBound
  Handled <- MCHandled
  Emits <- MCEmits
  Born <- MCBorn
  BatchSize = 1
  MaxFaults = 0
  NoEvent = NoEvent

SPECIFICATION Spec

INVARIANTS
  EveryHandlerRuns

\* The bus comes to rest once the last event is settled.
CHECK_DEADLOCK FALSE
