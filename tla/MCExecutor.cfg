SPECIFICATION Spec
CONSTANTS
  rebase = rebase
  commit1 = commit1
  commit2 = commit2
  main = main
  Calls = {rebase, commit1, commit2}
  Nested = {rebase}
  Keys = {main}
  Commits <- MCCommits
  KeyOf <- MCKeyOf
  Slots = 1
  MaxTries = 2
INVARIANTS KeyExclusive OnceOnly
PROPERTIES CallsSettle
CHECK_DEADLOCK FALSE
