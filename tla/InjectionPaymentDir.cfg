\* The directories of the README's example configuration: OUT files in
\* OMNIVORE, ORDER files in OMNIVORE_INORDER.
SPECIFICATION Spec
CONSTANTS
  Orders = {}
  Payments = {p1}
  Locals = {}
  Malformed = {}
  XmlDir = omnivore
  XmlInOrderDir = omnivoreInOrder
  Polls = 2
  MaxTries = 1
  MaxCrashes = 0
PROPERTY PollSeesConfirmation
CHECK_DEADLOCK FALSE
