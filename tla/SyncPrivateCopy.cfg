\* A GET of an entity while the full loop parses its copy of set1.xml.
SPECIFICATION Spec
CONSTANTS
  Agents = {a1}
  Handlers = {get1}
  Torn = torn
  Missing = missing
  Empty = empty
  Mixed = mixed
  MaxChanges = 1
  MaxEnds = 0
  MaxSyncs = 2
INVARIANT OwnExportIsRead
