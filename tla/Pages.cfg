SPECIFICATION Spec
CONSTANTS
  MaxId = 5
  MaxRows = 4
  Tokens = {"t1", "t2", "t3"}
  Owner <- MCOwner
  Selections = {"all", "failed", "t2"}
  PerPage = 2
  MaxRecent = 3
  HourLength = 2
  MaxEvents = 2
INVARIANTS TypeOK WalkMissesNothing WalkRepeatsNothing 
\* the walk is at its end
CHECK_DEADLOCK FALSE
