SPECIFICATION FairRequestSpec
CONSTANTS
  None = None
  Requests = {q1, q2}
  Files = {f1}
  MaxIntakes = 2
  BatchSize = 1
PROPERTIES StopRequestEnds
