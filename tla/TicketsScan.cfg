\* Two checks at two tables, finalised and dropped while they are scanned, with
\* local time ahead of UTC.
SPECIFICATION Spec
CONSTANTS
  Checks = {c1, c2}
  Tables = {t1, t2}
  OrderTable = t1
  None = none
  Undated = {}
  Skew = 1
  Window = 1
  MaxTime = 2
INVARIANTS
  TypeOK
  NoCheckIsLost
PROPERTY OwnCheckIsFound
CHECK_DEADLOCK FALSE
