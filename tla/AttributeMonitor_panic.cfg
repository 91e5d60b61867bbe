CONSTANTS
  MaxStarts = 2
  Reporting = {"attempt"}
  Polling = {"ifFailed"}
  CrashDuring = {}
SPECIFICATION Spec
CHECK_DEADLOCK FALSE
INVARIANTS
  NoPanic
