SPECIFICATION DataSpec
CONSTANTS
  c1 = c1
  c2 = c2
  n1 = n1
  n2 = n2
  t1 = t1
  t2 = t2
  p1 = p1
  b1 = b1
  f = f
  NrElems <- MCNrElems
  Sizes <- MCSizes
  MaxBlocks = 8
  PtrSize = 2
  Align = 2
  SplitElems = 4
  SplitBytes = 10
  CounterMod = 2
  Client = {c1, c2}
  Name = {n1, n2}
  Value <- MCValue
  Output = {"SYSLOG", "TNDD"}
  Thread = {t1, t2}
  Pool = {p1}
  Block = {b1}
  Cb = {f}
  NULL = NULL
  MaxChanges = 3
  InSize = 3
  DInSize = 3
  DOutSize = 2
  MaxBytes = 5
  MaxFile = 7
  MaxRead = 3
  BufferLen = 5
  LineMax = 4
  MaxInput = 6
SYMMETRY Symmetry
INVARIANTS ListInv
INVARIANTS DefaultsReachAll BlocksApart CallbacksSafe
INVARIANTS WriteExact ReadExact
INVARIANTS IdsExact SetTakesEffect ResetKeepsOthers
INVARIANTS LinesExact FileExact
PROPERTIES LentUntouched PoolSpec
CHECK_DEADLOCK FALSE
