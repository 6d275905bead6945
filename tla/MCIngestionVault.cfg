SPECIFICATION VaultSpec
CONSTANTS
  f1 = f1
  f2 = f2
  f3 = f3
  f4 = f4
  c1 = c1
  c2 = c2
  Files = {f1, f2, f3, f4}
  Contents = {c1, c2}
  ContentOf <- TwoContents
  Unusable = {f4}
  BatchSize = 2
  MaxFaults = 2
SYMMETRY Twins
INVARIANTS KnownIsKept
PROPERTIES NothingDropped
