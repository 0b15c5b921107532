SPECIFICATION Spec
CONSTANTS
  d1 = d1
  d2 = d2
  c1 = c1
  c2 = c2
  Domains <- TwoDomains
  Callers <- TwoCallers
  Interval = 1
  Jitter = 1
  Days = 4
  Lifetime = 5
  SweepTime = 1
  MaxTime = 5
  MaxLoops = 2
  Alone = {TRUE}
INVARIANTS TypeOK Stoppable NoneExpires
SYMMETRY Symmetry
CHECK_DEADLOCK FALSE
