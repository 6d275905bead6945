SPECIFICATION LoopSpec
CONSTANTS
  Files = {f1, f2}
  Contents = {x}
  NoContent = NoContent
  Callers = {loop, user}
  Loop = loop
  User = user
  BatchSize = 2
  TotalLimits = {2, 3}
  MaxRuns = 4
  MaxChanges = 1
  MaxFaults = 1
  MaxDisturbances = 1
SYMMETRY Interchangeable
INVARIANTS RunningIsWorkedOn
CHECK_DEADLOCK FALSE
