CONSTANTS
  HALF = 3
  ITERATIONS = 2
  SETTLE = 1
  MaxAborts = 1
SPECIFICATION Spec
INVARIANTS TypeOK OneCellConnected PolarityOfItsCell DischargesItsCell DoneMeansVerified MeanUndisturbed
PROPERTY ReadingArrives
