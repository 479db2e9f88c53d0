CONSTANTS
  pay = pay
  rcpt = rcpt
  sales = sales
  payments = payments
  reporting = reporting
  Event = {pay, rcpt}
  Service = {sales, payments, reporting}
  Relay = {r1, r2}
  Bound <- MCBound
  Handled <- MCHandled
  Emits <- MCEmits
  Born <- MCBorn
  BatchSize = 1
  MaxFaults = 2
  NoEvent = NoEvent

SPECIFICATION Spec

INVARIANTS
  AtMostOnce
  DuplicatesArePaidFor
  PublishedIsAccountedFor

PROPERTY
  ImplementsDelivery

\* The bus comes to rest once the last event is settled.
CHECK_DEADLOCK FALSE
