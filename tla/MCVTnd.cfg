SPECIFICATION TndFairSpec
CONSTANTS
  Request = {r1, r2, r3}
  LateAnswers = FALSE
  EnqueueAnywhere = FALSE
INVARIANTS TndInv
PROPERTIES InputSuspended AllServed
CHECK_DEADLOCK FALSE
