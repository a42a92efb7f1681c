\* Both loops and one HTTP request at a time, over a change of the POS data and
\* either a death that may leave a WExport.EXE running or a stop in the first
\* sync, after which the next agent is started beside the leaving one.
SPECIFICATION FairSpec
CONSTANTS
  Agents = {a1, a2}
  Handlers = {get1}
  Torn = torn
  Missing = missing
  Empty = empty
  Mixed = mixed
  MaxChanges = 1
  MaxEnds = 1
  MaxSyncs = 2
INVARIANTS
  TypeOK
  ExclusiveExport
  UndisturbedExportIsRead
  NeverAnOlderExport
PROPERTIES
  MutexIsGranted
  TicketsCatchUp
