\* Three updates of any kind, and two faults.
CONSTANTS
  Chat = {"c1", "c2", "c3"}
  Message <- Messages
  MaxUpdates = 3
  MaxFaults = 2
  None = None
  Torn = Torn

SPECIFICATION FairSpec

INVARIANT TypeOK
INVARIANT InvokedOnce
INVARIANT LossBounded
PROPERTY EveryUpdateSettles

CHECK_DEADLOCK FALSE
