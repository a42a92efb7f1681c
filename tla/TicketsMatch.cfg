\* Two checks opened at the table of the order within the window.
SPECIFICATION Spec
CONSTANTS
  Checks = {c1, c2}
  Tables = {t1, t2}
  OrderTable = t1
  None = none
  Undated = {}
  Skew = 0
  Window = 1
  MaxTime = 2
INVARIANT MatchIsTheNewCheck
CHECK_DEADLOCK FALSE
