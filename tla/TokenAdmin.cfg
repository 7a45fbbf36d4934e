SPECIFICATION Spec
CONSTANTS
  Tokens = {t1, t2, t3}
  Requests = {r1, r2}
  NoToken = NoToken
  Conns = {c1, c2, c3, c4}
  MaxIdleConns = 2
  MaxOverlap = 3
  MaxRestarts = 1
SYMMETRY Symmetry
INVARIANTS TypeOK IntactUntilOverlap
