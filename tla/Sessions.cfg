SPECIFICATION Spec
CONSTANTS
  Cookies = {c1, c2}
  Tokens = {t1, t2, t3}
  Changes = {k1, k2}
  Passwords = {p1, p2}
  ConfigPassword = p1
  None = None
SYMMETRY Symmetry
INVARIANTS TypeOK ShownOnceToMaker LostOnlyByOverwrite
PROPERTIES NoSpuriousLogout ReplacesWhatItProved
\* every session may be gone, and every token created
CHECK_DEADLOCK FALSE
