CONSTANTS
  Caller = {c1, c2}
  Timer = {t1, t2, t3}
  NoTimer = NoTimer
SPECIFICATION FairSpec
CHECK_DEADLOCK FALSE
INVARIANTS
  OpenWindowHasTimer
  StatusTruthful
  ExtensionHonoured
PROPERTIES
  NetworkCloses
