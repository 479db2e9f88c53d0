CONSTANTS
  pay = pay
  rcpt = rcpt
  sales = sales
  payments = payments
  reporting = reporting
  Event = {pay, rcpt}
  Service = {sales, payments, reporting}
  Relay = {r1}
  Bound <- MCBound
  Handled <- MCHandled
  Emits <- MCEmits
  Born <- MCBorn
  BatchSize = 1
  MaxFaults = 1
  NoEvent = NoEvent

SPECIFICATION FairSpec

PROPERTIES
  EventuallyPublished
  EventuallySettled

\* The bus comes to rest once the last event is settled.
CHECK_DEADLOCK FALSE
