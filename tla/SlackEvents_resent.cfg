\* One direct /new that Slack delivers twice, and conditional writes whose
\* response is lost and that the client sends again.  The lease is shorter than
\* the timeout of the function, so that an invocation can outlive its own claim.
CONSTANTS
  Event = {"e1"}
  Ts = {"t1"}
  Payload <- OneDirectNew
  Invocation <- Invocations
  None = None
  MaxDeliveries <- Twice
  LastDelivery = 2
  WorkerTimeout = 2
  Lease = 1
  DedupWindow = 2
  Retention = 100
  MaxTime = 80
  PollDelay = 0
  MaxMessages = 2
  MaxReceive = 3
  ResentWrites = TRUE

SPECIFICATION Spec

INVARIANT WorkingUnderClaim
INVARIANT RepliesBounded
PROPERTY CompletedActsOnce

CHECK_DEADLOCK FALSE
