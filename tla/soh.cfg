CONSTANTS
  Capacitances = {1, 2}
  MaxRequests = 1
  MaxTimeouts = 1
SPECIFICATION Spec
INVARIANTS TypeOK SavedIsAsked
PROPERTIES InitialKept SaveAnswered
