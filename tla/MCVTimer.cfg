SPECIFICATION FairSpec
CONSTANTS
  t1 = t1
  t2 = t2
  t3 = t3
  f1 = f1
  Timer = {t1, t2, t3}
  Fd = {f1}
INVARIANTS IInv
PROPERTIES TimerSpec TimersFire
CHECK_DEADLOCK FALSE
