SPECIFICATION Spec
CONSTANTS
  Items = {i1, i2}
  Kinds = {"sweep", "workset"}
  Stages = 2
  MaxRuns = 2
  MaxFaults = 1
SYMMETRY Interchangeable
INVARIANTS ProcessedOrPending
PROPERTIES SweepEndIsFinal
CHECK_DEADLOCK FALSE
