CONSTANTS
  Msgs = {m1, m2, m3, m4}
  Workers = {w1}
  NoMsg = NoMsg
  MaxRetries = 1
  MaxStops = 1
  MaxDbErrors = 0
  MaxAdminRetries = 0
  MaxDeletes = 0
  MaxClock = 1
SPECIFICATION FairSpec
\* every row settled and every bound used up: the bounded system stops
CHECK_DEADLOCK FALSE
PROPERTIES ShutdownCompletes FirstTriesInOrder
