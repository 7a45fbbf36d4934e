SPECIFICATION FairSpec
CONSTANTS
  Links = {l1, l2, l3}
  Disconnects = {d1}
  First = First
  None = None
INVARIANTS TypeOK OneAttempt QRIsCurrent WaitingUnlessLost
PROPERTIES CallsReturn
