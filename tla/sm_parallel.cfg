\* What a comment says of balancing.
SPECIFICATION Spec
CONSTANTS
  Requests = {"Idle", "Initialize", "TrickleChargeInit"}
  DELAY = 1
  CounterMod = 2
  INRUSH_DELAY = 0
  SAMPLES = 1
  MaxDuty = 1
  PowerSourceTypes = {FALSE}
  Emergencies = {}
INVARIANT BalancingInParallel
