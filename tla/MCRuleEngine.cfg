CONSTANTS
  N = 3
  DependsOn <- Lists
  Capability = {lamp}
  MaxRules = 3
  Trees <- SmallTrees
  Contents <- FewContents
SPECIFICATION EngineSpec
CHECK_DEADLOCK FALSE
INVARIANTS
  DependenciesFirst
  OnceEach
  VerdictRight
  LastRuleDecides
  FailsIfReached
  DependentOverrules
PROPERTIES
  Terminates
