SPECIFICATION FairSpec
CONSTANTS
  c1 = c1
  c2 = c2
  Owner = {c1, c2}
  Extended = {c2}
  WithOutput = {c1}
  PipeCap = 1
  UseUntilTold = FALSE
INVARIANTS IInv
PROPERTIES CommandSpec AllReported
CHECK_DEADLOCK FALSE
