CONSTANTS
  SLOTS = 3
  Capacitances = {c1}
  Serials = {n1}
  MaxSaves = 3
  MaxErases = 1
  MaxResets = 1
  MaxTimeouts = 1
SPECIFICATION Spec
INVARIANTS TypeOK NextSlotIsBlank
PROPERTIES ImplementsStore SaveEnds OvertakenByRead
