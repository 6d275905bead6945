SPECIFICATION Spec
CONSTANTS
  Items = {i1, i2}
  Kinds = {"sweep"}
  Stages = 1
  MaxRuns = 1
  MaxFaults = 0
PROPERTIES StopHeeded
CHECK_DEADLOCK FALSE
