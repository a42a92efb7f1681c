\* Three events of a tenant and one without location_id, in any order.
SPECIFICATION FairSpec
CONSTANTS
  Tenants = {smittys, unknown}
  Anonymous = {unknown}
  MaxEvents <- MCMaxEvents
INVARIANTS
  TypeOK
  ActiveOnlyIfPaid
  NewestDecides
PROPERTY EveryEventIsAcknowledged
CHECK_DEADLOCK FALSE
