CONSTANTS
  Caller = {c1}
  Timer = {t1, t2, t3}
  NoTimer = NoTimer
SPECIFICATION Spec
CHECK_DEADLOCK FALSE
INVARIANTS
  SecondWindowHonoured
