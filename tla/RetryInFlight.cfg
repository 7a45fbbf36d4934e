CONSTANTS
  Msgs = {m1}
  Workers = {w1}
  NoMsg = NoMsg
  MaxRetries = 1
  MaxStops = 0
  MaxDbErrors = 0
  MaxAdminRetries = 2
  MaxDeletes = 0
  MaxClock = 0
SPECIFICATION Spec
INVARIANTS QueuedIsWaiting
