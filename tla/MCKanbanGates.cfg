SPECIFICATION Spec
CONSTANTS
  w1 = w1
  w2 = w2
  shared = shared
  Workers = {w1, w2}
  Coders = {w1}
  Shared = shared
  Linked = {w1, w2}
  QualityOn = TRUE
  Budgets <- MCBudgets
PROPERTIES VerifiedBeforeDone ValidatedBeforeDone GetsDone
CHECK_DEADLOCK FALSE
