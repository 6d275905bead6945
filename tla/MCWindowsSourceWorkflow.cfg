SPECIFICATION PolledSpec
CONSTANTS
  Requests = {q1, q2}
  Files = {f1, f2, f3}
  Eligible = {f1, f2, f3}
  ChildLimit = 2
  MaxEntries = 3
  MaxPages = 2
  MaxFaults = 1
INVARIANTS ProposalIsWhole OneRunPerChild ChildrenInOrder CompletedCountsAll EveryFileOnce
PROPERTIES CompletedChildKept ApprovedRunEnds
CHECK_DEADLOCK FALSE
