CONSTANTS
  Addr = {a1}
  NodeObj = {n1, n2}
  DevObj = {d1, d2, d3}
  Proc = {p1}
  Endpoint <- OneTwo
  MaxSub = 2
  MaxCrashes = 1
  NoAddr = NoAddr
  NoNode = NoNode
  NoDev = NoDev
  LeaveOverlapsEnumeration = FALSE
  EnumerateDuringLoad = FALSE
SPECIFICATION Spec
SYMMETRY Interchangeable
CHECK_DEADLOCK FALSE
INVARIANTS
  StoreMirrorsTable
  EnumerationReconciles
  LeaveForgetsNode
PROPERTIES
  ImplementsDeviceFeed
  WithdrawnOnlyWhenGone
