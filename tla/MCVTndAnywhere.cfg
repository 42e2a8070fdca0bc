SPECIFICATION TndSpec
CONSTANTS
  Request = {r1, r2, r3}
  LateAnswers = FALSE
  EnqueueAnywhere = TRUE
PROPERTY InputSuspended
CHECK_DEADLOCK FALSE
