\* Every phase ends once the environment stops disturbing it.
SPECIFICATION LiveSpec
CONSTANTS
  Requests = {"Idle", "Initialize", "TrickleChargeInit"}
  DELAY = 2
  CounterMod = 4
  INRUSH_DELAY = 0
  SAMPLES = 1
  MaxDuty = 1
  PowerSourceTypes = {FALSE}
  Emergencies = {}
  MaxDisturbances = 6
PROPERTIES ErrorShutsDown FaultIsLeft StopsInTheEnd SoftstartEnds DelayEnds
