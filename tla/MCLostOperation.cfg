SPECIFICATION Spec
CONSTANTS
  i1 = i1
  Items = {i1}
  Size <- SizeOne
  Byte = {x, y}
  Ops = {o1, o2}
  Handlers = {h1, h2}
  MaxChunk = 3
  None = None
SYMMETRY Interchangeable
CHECK_DEADLOCK FALSE
INVARIANT LostOperationReplaceable
