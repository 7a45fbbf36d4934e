CONSTANTS
  Msgs = {m1, m2}
  Workers = {w1, w2}
  NoMsg = NoMsg
  MaxRetries = 2
  MaxStops = 1
  MaxDbErrors = 0
  MaxAdminRetries = 1
  MaxDeletes = 1
  MaxClock = 0
SPECIFICATION FairSpec
PROPERTIES EventuallySettled
