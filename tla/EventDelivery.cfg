CONSTANTS
  Dev = {d1, d2}
  Session = {s1, s2}
  Calls = {"devices", "capability", "enumerate"}
  MaxCalls = 1
  MaxSurveys = 1
  Nobody = nobody
SPECIFICATION FairSpec
CHECK_DEADLOCK FALSE
INVARIANTS
  OnlyACallBlocks
  ToldStopped
  SessionEventsOfListed
  StoppedUnlessAsked
PROPERTIES
  LoopReturns
