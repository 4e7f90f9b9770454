SPECIFICATION Spec
CONSTANTS
  Cap = 4
  Latencies = {0, 1, 2}
  Extras = {0, 2, 4}
  MaxTime = 9
INVARIANTS
  NeverEarly
  NeverLate
  ReachesOlder
