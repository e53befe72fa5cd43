SPECIFICATION MemSpec
CONSTANTS
  a1 = a1
  a2 = a2
  a3 = a3
  a4 = a4
  buff = buff
  srv = srv
  Node <- MCNode
  NULL = NULL
  Address = {a1, a2, a3, a4}
  Hash <- MCHash
  Place = {buff, srv}
  Sizes = {5, 20}
  UIntRange = 64
  BRIEF = 2
  MaxAllocs = 4
  MaxDamage = 1
SYMMETRY MCSymmetry
INVARIANTS MemoryAccountedFor ReportListsAll
CHECK_DEADLOCK FALSE
