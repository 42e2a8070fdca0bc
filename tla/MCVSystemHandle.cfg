SPECIFICATION Spec
CONSTANTS
  c1 = c1
  c2 = c2
  Owner = {c1, c2}
  Extended = {}
  WithOutput = {}
  PipeCap = 1
  UseUntilTold = TRUE
INVARIANT HandleAlive
CHECK_DEADLOCK FALSE
