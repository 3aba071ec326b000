\* The deployed order of times, with a put_item that is applied and sent again.
CONSTANTS
  Event = {"e1"}
  Ts = {"t1"}
  Payload <- OneMention
  Invocation <- Invocations
  None = None
  MaxDeliveries <- Once
  LastDelivery = 2
  WorkerTimeout = 1
  Lease = 4
  DedupWindow = 2
  Retention = 100
  MaxTime = 40
  PollDelay = 1
  MaxMessages = 1
  MaxReceive = 3
  ResentWrites = TRUE

SPECIFICATION Spec

INVARIANT NoSilentLoss

CHECK_DEADLOCK FALSE
