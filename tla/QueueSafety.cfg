CONSTANTS
  Msgs = {m1, m2}
  Workers = {w1, w2}
  NoMsg = NoMsg
  MaxRetries = 2
  MaxStops = 1
  MaxDbErrors = 1
  MaxAdminRetries = 2
  MaxDeletes = 1
  MaxClock = 0
SPECIFICATION Spec
SYMMETRY Symmetry
INVARIANTS TypeOK SingleHolder SendBudget DeliveriesExplained StuckOnlyAfterDbError
PROPERTIES ImplementsLifecycle
