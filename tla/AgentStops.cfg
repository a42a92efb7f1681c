\* A refresh, a Stop and an upload at any time, one change of the POS data and
\* two failures or restarts.
SPECIFICATION FairSpec
CONSTANTS
  Order <- MCOrder
  Exported = {"tables"}
  CacheFiles = {"tables"}
  Requests <- MCRequests
  Empty = empty
  Torn = torn
  Missing = missing
  Nothing = nothing
  MaxChanges = 1
  MaxFaults = 2
INVARIANTS
  TypeOK
  CacheIsPersisted
  SuccessfulSyncIsFresh
PROPERTIES
  NothingAfterStop
  StopReturns
