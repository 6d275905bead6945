SPECIFICATION Spec
CONSTANTS
  a = a
  b = b
  Assets = {a, b}
  Hashable = {a, b}
  Similar = {{a, b}}
  Quality <- QualityByName
  Groups = {1, 2}
  Sessions = {s1, s2}
SYMMETRY SessionSymmetry
CONSTRAINT NoClash
INVARIANTS AtMostOneCanonical StandaloneIsCanonical
