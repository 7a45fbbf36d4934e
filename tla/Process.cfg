SPECIFICATION FairSpec
CONSTANTS
  Procs = {p1, p2}
  Requests = {r1}
  None = None
  MaxStarts = 3
  MaxKills = 1
  MaxErrors = 1
INVARIANTS TypeOK DrainedBeforeClose ServesAlone DeliveredOnce HonestAnswers
PROPERTIES SignalEndsProcess
\* all starts used up and every process gone
CHECK_DEADLOCK FALSE
