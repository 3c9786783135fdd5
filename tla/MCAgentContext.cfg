SPECIFICATION Spec
CONSTANTS
  p1 = p1
  p2 = p2
  t1 = t1
  t2 = t2
  n1 = n1
  n2 = n2
  pad1 = pad1
  None = None
  Procs = {p1, p2}
  Texts = {t1, t2}
  Nodes = {n1, n2}
  Expiring = {n2}
  Files = {pad1}
  Budgets <- MCBudgets
INVARIANTS RowsHydrate UpOrDown LastWriteStands
CHECK_DEADLOCK FALSE
