SPECIFICATION FairSpec
CONSTANTS
  Action = {a1, a2, a3}
  Handle = {h1}
  OnDemand = h0
  NPrio = 2
CHECK_DEADLOCK FALSE
INVARIANTS IInv
PROPERTIES NextCycle QueueSpec ActionsServed EventsServed
