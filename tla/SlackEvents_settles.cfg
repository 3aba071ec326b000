\* A mention opens a thread and a reply in it asks for a new session; both are
\* delivered once and at once.  The times keep the order of the deployed ones:
\* the worker's timeout is below the lease, and the lease below the visibility
\* timeout, six times the worker's timeout.  At 4 the lease is the longest below
\* 5 * WorkerTimeout.  The clock reaches every deadline of two receives each, so
\* that the liveness property is about whole lives of messages.
CONSTANTS
  Event = {"e1", "e2"}
  Ts = {"t1", "t2"}
  Payload <- MentionThenNew
  Invocation <- Invocations
  None = None
  MaxDeliveries <- Once
  LastDelivery = 0
  WorkerTimeout = 1
  Lease = 4
  DedupWindow = 2
  Retention = 100
  MaxTime = 26
  PollDelay = 0
  MaxMessages = 2
  MaxReceive = 2
  ResentWrites = FALSE

SPECIFICATION FairSpec

INVARIANT TypeOK
INVARIANT OneWorkerPerThread
INVARIANT InvokeUsesCurrentSession
INVARIANT FollowupsFindTheirThread
PROPERTY ImplementsClaims
PROPERTY EveryEventSettles

CHECK_DEADLOCK FALSE
