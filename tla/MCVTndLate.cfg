SPECIFICATION TndSpec
CONSTANTS
  Request = {r1, r2, r3}
  LateAnswers = TRUE
  EnqueueAnywhere = FALSE
INVARIANT ContextsAlive
CHECK_DEADLOCK FALSE
