\* Regulation of the bus, with emergencies and a power source type that changes.
SPECIFICATION Spec
CONSTANTS
  Requests = {"Idle", "Initialize", "RegulateInit"}
  DELAY = 1
  CounterMod = 2
  INRUSH_DELAY = 0
  SAMPLES = 1
  MaxDuty = 2
  PowerSourceTypes = {TRUE, FALSE}
  Emergencies = {TRUE}
INVARIANTS ConvertersStoppedWhenDown NoDemandNoDrive
PROPERTIES InrushBeforeInput ImplementsModes
