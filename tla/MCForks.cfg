SPECIFICATION ForksSpec
CONSTANTS
  c1 = c1
  c2 = c2
  c3 = c3
  Kids = {c1, c2, c3}
  MaxDepth = 3
SYMMETRY Symmetry
INVARIANTS
  OwnTraced
  NoneForgotten
