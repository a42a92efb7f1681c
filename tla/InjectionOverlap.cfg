\* Two overlapping attempts of one order, lost results and two crashes.
SPECIFICATION FairSpec
CONSTANTS
  Orders = {o1, badOrder}
  Payments = {}
  Locals = {}
  Malformed = {badOrder}
  XmlDir = omnivore
  XmlInOrderDir = omnivore
  Polls = 2
  MaxTries = 2
  MaxCrashes = 2
INVARIANTS
  SoleAttemptIsExact
  OneExecutionPerAttempt
  NoVerdictLost
PROPERTIES
  AttemptsEnd
  QueueDrains
