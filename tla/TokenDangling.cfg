SPECIFICATION Spec
CONSTANTS
  Tokens = {t1, t2}
  Requests = {r1}
  NoToken = NoToken
  Conns = {c1, c2, c3, c4}
  MaxIdleConns = 2
  MaxOverlap = 1
  MaxRestarts = 0
SYMMETRY Symmetry
INVARIANTS NoDanglingToken
