CONSTANTS
  MaxStarts = 3
  Reporting = {"attempt", "never"}
  Polling = {"ifFailed", "always", "never"}
  CrashDuring = {"new", "reattach", "attached"}
SPECIFICATION FairSpec
CHECK_DEADLOCK FALSE
INVARIANTS
  NoPanicWhileAttached
  OneSubscription
  SourceWhileAttached
PROPERTIES
  DetachedFallsSilent
