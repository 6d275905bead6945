SPECIFICATION Spec
CONSTANTS
  i1 = i1
  i2 = i2
  Items = {i1, i2}
  Size <- SizeTwo
  Byte = {x}
  Ops = {o1, o2}
  Handlers = {h1, h2}
  MaxChunk = 1
  None = None
SYMMETRY Interchangeable
CHECK_DEADLOCK FALSE
INVARIANTS RunSummarisesItems OneLiveOperation
PROPERTIES OnlyActiveRunsReceive
