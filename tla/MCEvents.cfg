SPECIFICATION EventsSpec
CONSTANTS
  a = a
  b = b
  c1 = c1
  t1 = t1
  t2 = t2
  usr1 = usr1
  abrt = abrt
  segv = segv
  w1 = w1
  w2 = w2
  w3 = w3
  Name = {a, b}
  Conn = {c1}
  MaxHandlers = 1
  MaxWords = 2
  SigThread = {t1, t2}
  Main = t1
  Signal = {usr1}
  Defaulted = {}
  Fatal = {abrt, segv}
  SIGABRT = abrt
  PipeLen = 2
  MaxCalls = 1
  Owner = {w1, w2, w3}
  MaxVal = 3
  DemandPipe = 7
  ReadLen = 5
  CommandLen = 5
  MaxTriggers = 3
INVARIANTS HandlerReady CalledAtHome 
INVARIANTS UnitsExact EndsOnce
INVARIANTS ExecutedWasAsked
INVARIANTS KindsApart
PROPERTIES SignalsServed UnitsUsed
CHECK_DEADLOCK FALSE
