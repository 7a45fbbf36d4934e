SPECIFICATION Spec
CONSTANTS
  KeyOrder <- Phone
  Values = {Empty, a}
  Empty = Empty
  Saves = {s1, s2}
  Reloads = {r1}
  Workers = {w1}
  MaxDbErrors = 1
  MaxRestarts = 1
SYMMETRY Symmetry
INVARIANTS TypeOK SendsConfigured AppliedWhenAlone
PROPERTIES WholeForm
