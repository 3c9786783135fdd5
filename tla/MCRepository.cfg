SPECIFICATION Spec
CONSTANTS
  p1 = p1
  p2 = p2
  main = main
  dev = dev
  a1 = a1
  a2 = a2
  Procs = {p1, p2}
  Branches = {main, dev}
  Main = main
  Ephemeral = {dev}
  Kinds <- AllKinds
  Authors = {a1, a2}
  MaxNodes = 4
  MaxCalls = 3
INVARIANTS NoLostChange RefsResolve StashKept CacheTruth
CHECK_DEADLOCK FALSE
SYMMETRY Symmetry
