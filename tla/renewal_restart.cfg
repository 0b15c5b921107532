SPECIFICATION Spec
CONSTANTS
  d1 = d1
  d2 = d2
  c1 = c1
  c2 = c2
  Domains <- OneDomain
  Callers <- TwoCallers
  Interval = 1
  Jitter = 0
  Days = 1
  Lifetime = 2
  SweepTime = 1
  MaxTime = 2
  MaxLoops = 3
  Alone = {FALSE}
INVARIANTS OneLoop
CHECK_DEADLOCK FALSE
