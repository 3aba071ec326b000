\* Two /new messages of a thread; Slack delivers the first one twice, inside the
\* deduplication interval or after it, and before or after the second one.
CONSTANTS
  Event = {"e1", "e2"}
  Ts = {"t1", "t2"}
  Payload <- NewThenNew
  Invocation <- Invocations
  None = None
  MaxDeliveries <- FirstTwice
  LastDelivery = 1
  WorkerTimeout = 1
  Lease = 4
  DedupWindow = 1
  Retention = 100
  MaxTime = 13
  PollDelay = 0
  MaxMessages = 3
  MaxReceive = 2
  ResentWrites = FALSE

SPECIFICATION Spec

INVARIANT SessionOfLatestNew
INVARIANT NoSilentLoss
INVARIANT AbandonedClaimRecoverable
PROPERTY ImplementsService

CHECK_DEADLOCK FALSE
