CONSTANTS
  Addr = {a1}
  NodeObj = {n1, n2}
  DevObj = {d1, d2, d3, d4}
  Proc = {p1}
  Endpoint <- OnlyOne
  MaxSub = 1
  MaxCrashes = 0
  NoAddr = NoAddr
  NoNode = NoNode
  NoDev = NoDev
  LeaveOverlapsEnumeration = TRUE
  EnumerateDuringLoad = FALSE
SPECIFICATION Spec
SYMMETRY Interchangeable
CHECK_DEADLOCK FALSE
INVARIANTS
  LeaveForgetsNode
