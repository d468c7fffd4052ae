CONSTANTS
  Capacitances = {1, 2}
  MaxRequests = 1
  MaxTimeouts = 0
SPECIFICATION Spec
INVARIANT CapacitancesReachFlash
