SPECIFICATION BridgeSpec
CONSTANTS
  None = None
  a = a
  c = c
  d = d
  q1 = q1
  q2 = q2
  Requests = {q1, q2}
  Files = {a, c, d}
  Runs = {1, 2}
  Lineages = {a, d}
  Settings <- HeldOnly
  MaxIntakes = 2
  BatchSize = 1
PROPERTIES CompletedBridgeKept
