\* Two disturbances of a bus with every handler at its shortest waits.
SPECIFICATION LiveSpec
CONSTANTS
  OVER_WAIT = 1
  UNDER_WAIT = 0
  UNDER_COUNT = 1
  MaxDisturbances = 2
INVARIANTS TypeOK FewFaults
PROPERTIES TripShutsDown OverVoltageShutsDown OverCurrentShutsDown Recovers
