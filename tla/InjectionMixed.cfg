\* One request of every kind plus an undecodable one: their files share one
\* directory, so every scan sees the others' confirmations.
SPECIFICATION Spec
CONSTANTS
  Orders = {o1, badOrder}
  Payments = {p1}
  Locals = {l1, badLocal}
  Malformed = {badOrder, badLocal}
  XmlDir = omnivore
  XmlInOrderDir = omnivore
  Polls = 1
  MaxTries = 1
  MaxCrashes = 1
INVARIANTS
  TypeOK
  AnswersAreGenuine
PROPERTIES
  PollSeesConfirmation
  ContractSpec
