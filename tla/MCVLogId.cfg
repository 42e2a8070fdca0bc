SPECIFICATION Spec
CONSTANTS
  Client = {c1, c2}
  Name = {n1}
  Value = {5, 6}
  Output = {"SYSLOG", "TNDD"}
INVARIANT IdReturned
CHECK_DEADLOCK FALSE
