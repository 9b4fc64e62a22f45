SPECIFICATION Spec
CONSTANTS
  Handles = {h1, h2, h3}
  Threads = {t1}
  Values = {v1, v2}
  Size = 2
  Settable = {1}
  Junk = junk
  Null = null
  Blocks = {b1, b2, b3, b4}
SYMMETRY Symmetric
INVARIANTS
  StoredWhole
PROPERTIES
  ImplementsRegisterFile
