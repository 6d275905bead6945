SPECIFICATION Spec
CONSTANTS
  Files = {f1, f2}
  Contents = {x, y}
  NoContent = NoContent
  Callers = {a, b}
  MaxRuns = 3
  MaxChanges = 1
  MaxFaults = 1
SYMMETRY Interchangeable
INVARIANTS NothingLost AuthorizedOnce RemovesWhatWasShown CompletedRemovedAll
CHECK_DEADLOCK FALSE
