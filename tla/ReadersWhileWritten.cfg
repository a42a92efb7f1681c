\* Three writes of the POS fall anywhere into the reading of five lists.
SPECIFICATION Spec
CONSTANTS
  Unread = unread
  Blank = blank
  Names = {bar, patio}
  MaxSlots = 2
  MaxChanges = 3
SYMMETRY Symmetry
INVARIANTS
  TypeOK
  ListsAreExact
  OrderTypesAreCostCenters
  SectionIsItsSlot
