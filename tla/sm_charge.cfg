\* Charging and balancing, with a Fault request as the way down.
SPECIFICATION Spec
CONSTANTS
  Requests = {"Idle", "Initialize", "TrickleChargeInit", "Fault"}
  DELAY = 2
  CounterMod = 4
  INRUSH_DELAY = 0
  SAMPLES = 1
  MaxDuty = 1
  PowerSourceTypes = {FALSE}
  Emergencies = {}
INVARIANTS TypeOK NoCrossConduction AtMostOneStraggler ConverterDiscipline
PROPERTY StaysBehindGoodSwitches
