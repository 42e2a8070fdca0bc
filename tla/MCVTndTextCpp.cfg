SPECIFICATION Spec
CONSTANTS
  a = a
  b = b
  c1 = c1
  c2 = c2
  Name = {a, b}
  Conn = {c1, c2}
  MaxHandlers = 1
  MaxWords = 3
SYMMETRY Symmetry
INVARIANTS CallbacksAlive
CHECK_DEADLOCK FALSE
