\* Three invocations race for one event; the lease runs out and the record
\* expires within the bound of the clock.
CONSTANTS
  Event = {e1}
  Invocation = {i1, i2, i3}
  Lease = 1
  Retention = 2
  MaxTime = 6
  None = None

SYMMETRY Symmetry
SPECIFICATION ClaimsSpec

INVARIANT ClaimsTypeOK
INVARIANT LiveLeaseExclusive
PROPERTY RunningLeaseFenced
PROPERTY CompletedIsFinal
PROPERTY ImplementsLedger

CHECK_DEADLOCK FALSE
