CONSTANTS
  Intent = {i1}
  Call = {c1, c2}
  Transfer = {}
  Couponed = {}
  MaxUses = 2
  InitStock = 2
  MaxDeaths = 0
  NoIntent = NoIntent
  NoCall = NoCall

SPECIFICATION Spec

INVARIANTS
  OneSaleForWebhookAndClient

\* Every request ends, and Call has no further ones.
CHECK_DEADLOCK FALSE
