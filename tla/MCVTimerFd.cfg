SPECIFICATION Spec
CONSTANTS
  t1 = t1
  t2 = t2
  t3 = t3
  f1 = f1
  Timer = {t1, t2}
  Fd = {f1}
INVARIANTS OthersIntact
CHECK_DEADLOCK FALSE
