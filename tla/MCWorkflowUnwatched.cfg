SPECIFICATION WorkSpec
CONSTANTS
  Requests = {q1}
  Files = {f1, f2}
  Eligible = {f1, f2}
  ChildLimit = 1
  MaxEntries = 2
  MaxPages = 2
  MaxFaults = 1
PROPERTIES ApprovedRunEnds
CHECK_DEADLOCK FALSE
