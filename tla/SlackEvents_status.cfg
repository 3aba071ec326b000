\* One mention; the calls that set and clear the status may raise.
CONSTANTS
  Event = {"e1"}
  Ts = {"t1"}
  Payload <- OneMention
  Invocation <- Invocations
  None = None
  MaxDeliveries <- Once
  LastDelivery = 2
  WorkerTimeout = 1
  Lease = 4
  DedupWindow = 2
  Retention = 100
  MaxTime = 40
  PollDelay = 1
  MaxMessages = 1
  MaxReceive = 3
  ResentWrites = FALSE

SPECIFICATION Spec

INVARIANT StatusIsBestEffort

CHECK_DEADLOCK FALSE
