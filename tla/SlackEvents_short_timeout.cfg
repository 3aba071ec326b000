\* events_worker_timeout_seconds = 30, in units of 30 seconds: visibility timeout
\* 180 s, lease 240 s, deduplication 300 s.
CONSTANTS
  Event = {"e1"}
  Ts = {"t1"}
  Payload <- OneMention
  Invocation <- Invocations
  None = None
  MaxDeliveries <- Once
  LastDelivery = 2
  WorkerTimeout = 1
  Lease = 8
  DedupWindow = 10
  Retention = 100
  MaxTime = 40
  PollDelay = 1
  MaxMessages = 1
  MaxReceive = 3
  ResentWrites = FALSE

SPECIFICATION Spec

INVARIANT AbandonedClaimRecoverable

CHECK_DEADLOCK FALSE
