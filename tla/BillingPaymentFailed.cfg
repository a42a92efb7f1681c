\* One tenant whose second event is a failed payment.
SPECIFICATION Spec
CONSTANTS
  Tenants = {smittys}
  Anonymous = {}
  MaxEvents <- MCMaxEvents
INVARIANT FailedPaymentDeactivates
CHECK_DEADLOCK FALSE
