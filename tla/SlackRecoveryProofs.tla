----------------------- MODULE SlackRecoveryProofs -----------------------
(***************************************************************************)
(* Why the Slack Events path loses no event, for any conversation and any  *)
(* number of deliveries, messages and receives: the records of the table   *)
(* and the messages of the queue go together.                              *)
(*                                                                         *)
(* WorkingUnderClaim needs nothing but the queue: the only invocation that *)
(* could take an event over waits for its message.  That no event is lost  *)
(* needs two facts of the deployment:                                      *)
(*  - Lease < 5 * WorkerTimeout: the lease of an abandoned claim is over   *)
(*    before its message can be received again, since it began at most     *)
(*    WorkerTimeout after the receive that hid the message for             *)
(*    6 * WorkerTimeout;                                                   *)
(*  - ~ResentWrites: no put_item is applied and then sent again.           *)
(* The runs short_timeout and resent_put show that either is necessary.    *)
(***************************************************************************)
EXTENDS SlackEventsProofs

-----------------------------------------------------------------------------
(* Whoever works on an event has claimed it *)

(* The record of an event changes in three ways, and by an invocation of   *)
(* the event.                                                              *)
LEMMA RowStep ==
  ASSUME PathInv, [Next]_vars, NEW e \in Event, row'[e] # row[e]
  PROVE  \E i \in Invocation :
           /\ Running(i) /\ EventOf(i) = e /\ target[i] = e
           /\ Work(i)
           /\ \/ /\ TryClaim(i) /\ pc[i] \in {"put", "update"}
                 /\ row[e].status = "absent" \/ LeaseExpired(i)
                 /\ row'[e] = ClaimRow(i)
                 /\ pc'[i] = "held" \/ ResentWrites
              \/ /\ Complete(i) /\ OwnsRow(i) /\ pc[i] = "held"
                 /\ pc'[i] \in {"done", "failed"}
                 /\ row'[e] = CompletedRow(i)
              \/ Release(i) /\ OwnsRow(i) /\ pc[i] = "failed" /\ row'[e] = Absent
<1>1. TypeOK /\ InFlight /\ Sync /\ row \in [Event -> Row] /\ pc \in [Invocation -> PC]
  BY DEF PathInv, TypeOK, ClaimsTypeOK
<1>2. ASSUME NEW i \in Invocation, TryClaim(i)
      PROVE  /\ target[i] = e /\ pc[i] \in {"put", "update"}
             /\ row[e].status = "absent" \/ LeaseExpired(i)
             /\ row'[e] = ClaimRow(i)
             /\ pc'[i] = "held" \/ ResentWrites
  BY <1>1, <1>2 DEF TryClaim, ClaimPut, ClaimPutResent, ClaimUpdate, ClaimUpdateResent
<1>3. ASSUME NEW i \in Invocation, Complete(i)
      PROVE  /\ target[i] = e /\ OwnsRow(i) /\ pc[i] = "held"
             /\ pc'[i] \in {"done", "failed"}
             /\ row'[e] = CompletedRow(i)
  BY <1>1, <1>3 DEF Complete, CompleteEvent, CompleteEventResent
<1>4. ASSUME NEW i \in Invocation, Release(i)
      PROVE  target[i] = e /\ OwnsRow(i) /\ pc[i] = "failed" /\ row'[e] = Absent
  BY <1>1, <1>4 DEF Release, ReleaseEvent
<1>5. ASSUME row' = row PROVE FALSE
  BY <1>5
<1>6. ASSUME NEW i \in Invocation, Work(i) \/ Trouble(i)
      PROVE  TryClaim(i) \/ Complete(i) \/ Release(i)
  BY <1>5, <1>6
     DEF Work, Trouble, Route, ClaimEvent, Message, Reply, Invoke, Post, Clear, Return,
         Leave, RouteFails, Raise, PostRaises, StatusRaises, Fail, ClearRaises, Stop, Crash,
         ReturnLost, claimsVars
<1>7. PICK i \in Invocation : Work(i) \/ Trouble(i)
  BY <1>5 DEF Next, Ingress, IngressFails, Receive, Redrive, TimePasses, Tick, tableVars,
     claimsVars, vars
<1>8. Running(i) /\ Work(i) /\ (TryClaim(i) \/ Complete(i) \/ Release(i))
  BY <1>6, <1>7, WorkerFrame DEF Work
<1>9. target[i] = e /\ pc[i] \notin {"idle", "over"}
  BY <1>2, <1>3, <1>4, <1>8
<1>10. EventOf(i) = e
  BY <1>1, <1>9 DEF Sync
<1> QED
  BY <1>2, <1>3, <1>4, <1>8, <1>9, <1>10

(* The event of an invocation that runs is the same after the step. *)
LEMMA EventOfStep ==
  ASSUME PathInv, [Next]_vars, NEW i \in Invocation, ~Unused(MessageOf(i))
  PROVE  EventOf(i)' = EventOf(i) /\ ~Unused(MessageOf(i))'
BY MessageTypeStep, InvocationType DEF PathInv, EventOf

(* An invocation is claimed by, or finishes with, no step but its own.     *)
LEMMA OwnStep ==
  ASSUME PathInv, [Next]_vars, NEW i \in Invocation, step'[i] # step[i]
  PROVE  \/ Receive(MessageOf(i)) /\ step[i] = "idle" /\ step'[i] = "route"
         \/ Work(i) \/ Trouble(i)
<1>1. TypeOK /\ InFlight
  BY DEF PathInv
<1>2. ASSUME NEW m \in MessageId, Receive(m)
      PROVE  Receive(MessageOf(i)) /\ step[i] = "idle" /\ step'[i] = "route"
  <2>1. i = <<m, msg[m].received + 1>> /\ step'[i] = "route"
    BY <1>1, <1>2 DEF Receive, TypeOK
  <2>2. MessageOf(i) = m /\ ReceiveOf(i) = msg[m].received + 1 /\ msg[m].received \in Nat
    BY <1>1, <2>1 DEF MessageOf, ReceiveOf, TypeOK, MessageRecord
  <2>3. step[i] = "idle"
    BY <1>1, <2>2 DEF InFlight
  <2> QED
    BY <1>2, <2>1, <2>2, <2>3
<1>3. ASSUME NEW j \in Invocation, Work(j) \/ Trouble(j)
      PROVE  j = i
  BY <1>1, <1>3, ClaimFrame
<1> QED
  BY <1>2, <1>3 DEF Next, Ingress, IngressFails, Redrive, TimePasses, vars, localVars

LEMMA WorkingUnderClaimStep ==
  PathInv /\ WorkingUnderClaim /\ [Next]_vars => WorkingUnderClaim'
<1> SUFFICES ASSUME PathInv, WorkingUnderClaim, [Next]_vars, NEW i \in Invocation, Working(i)'
             PROVE  OwnsRow(i)'
  BY DEF WorkingUnderClaim
<1>1. TypeOK /\ QueueOrder /\ InFlight /\ Sync /\ PathInv' /\ Sync'
  BY PathInvStep DEF PathInv
<1>2. CASE Working(i)
  <2>1. Running(i) /\ pc[i] = "held" /\ target[i] = EventOf(i) /\ OwnsRow(i)
    BY <1>1, <1>2 DEF Sync, Working, Running, WorkingUnderClaim
  <2>2. EventOf(i) \in Event /\ ~Unused(MessageOf(i))
    BY <1>1, <2>1, RunningMessage
  <2>3. target'[i] = EventOf(i)
    <3>1. pc'[i] = "held"
      BY <1>1 DEF Sync
    <3> QED
      BY <1>1, <2>2, <3>1, EventOfStep DEF Sync
  <2>4. row'[EventOf(i)] = row[EventOf(i)]
    <3> SUFFICES ASSUME row'[EventOf(i)] # row[EventOf(i)] PROVE FALSE
      OBVIOUS
    <3>1. PICK k \in Invocation :
            /\ Running(k) /\ EventOf(k) = EventOf(i)
            /\ \/ pc[k] \in {"put", "update", "failed"}
               \/ pc'[k] \in {"done", "failed"}
      BY <2>2, RowStep
    <3>2. k = i
      BY <1>1, <2>1, <3>1, Alone
    <3> QED
      BY <1>1, <2>1, <3>1, <3>2 DEF Sync
  <2> QED
    BY <2>1, <2>3, <2>4 DEF OwnsRow
<1>3. CASE ~Working(i)
  <2>1. Work(i) \/ Trouble(i)
    BY <1>3, OwnStep DEF Working
  <2>2. TryClaim(i)
    BY <1>1, <1>3, <2>1
       DEF PathInv, TypeOK, Working, Work, Trouble, Route, Message, Reply, Invoke, Post, Complete,
           Clear, Release, Return, RouteFails, Raise, PostRaises, StatusRaises, ClearRaises,
           Stop, ReturnLost, Goto, EndStep
  <2>3. pc'[i] = "held"
    BY <1>1 DEF Sync
  <2>4. target[i] \in Event /\ target' = target
    BY <1>1, <2>2 DEF TypeOK, ClaimsTypeOK, TryClaim, ClaimPut, ClaimPutResent, ClaimUpdate,
                   ClaimUpdateResent
  <2>5. row'[target[i]] = ClaimRow(i)
    BY <1>1, <2>2, <2>3, <2>4
       DEF TypeOK, ClaimsTypeOK, TryClaim, ClaimPut, ClaimPutResent, ClaimUpdate,
           ClaimUpdateResent
  <2> QED
    BY <2>4, <2>5 DEF OwnsRow, ClaimRow
<1> QED
  BY <1>2, <1>3

(* Nobody takes an event away from the invocation that works on it, even   *)
(* when its lease runs out first: complete_event's token condition holds   *)
(* as long as the invocation runs.                                         *)
THEOREM WorkIsClaimed == Spec => []WorkingUnderClaim
<1>1. Init => WorkingUnderClaim
  BY DEF Init, WorkingUnderClaim, Working
<1> QED
  BY <1>1, WorkingUnderClaimStep, PathInvariant, PTL DEF Spec

-----------------------------------------------------------------------------
(* The table and the queue go together *)

(* What the deployment must guarantee. *)
LeaseEndsInTime == Lease < 5 * WorkerTimeout

(* claim_event reads its clock after the invocation began. *)
ReadAfterStart ==
  \A i \in Invocation :
    pc[i] \notin {"idle", "over"} => started[i] <= readAt[i] /\ readAt[i] <= now

(* claim_event updates a record that it found, it is refused only for a    *)
(* completed event, and a message is deleted only when its event is        *)
(* completed; an answered event was queued.                                *)
Finished ==
  /\ \A i \in Invocation : pc[i] = "update" => row[EventOf(i)].status # "absent"
  /\ \A i \in Invocation : step[i] = "return" => CompletedEvent(EventOf(i))
  /\ \A m \in MessageId : msg[m].status = "deleted" => CompletedEvent(msg[m].id)
  /\ \A e \in Event : slack[e].answered => \E m \in MessageId : ~Unused(m) /\ msg[m].id = e

(* The owner of the record runs, and its lease ends at most Lease after    *)
(* the worker's timeout.                                                   *)
OwnerRuns(e, i) ==
  /\ Running(i)
  /\ Claimed(i)
  /\ row[e].lease_until <= started[i] + WorkerTimeout + Lease

(* The owner stopped, and the lease ends before its message is seen again. *)
OwnerStopped(e, i) ==
  /\ ~Running(i)
  /\ Queued(MessageOf(i))
  /\ msg[MessageOf(i)].received = ReceiveOf(i)
  /\ row[e].lease_until < msg[MessageOf(i)].visibleAt

(* The lease is over, and whoever works on the event began after its end.  *)
LeaseOver(e, i) ==
  /\ ~Running(i)
  /\ row[e].lease_until < now
  /\ \A j \in Invocation :
       Running(j) /\ EventOf(j) = e => row[e].lease_until < started[j]

Covered(e, i) ==
  /\ ~Unused(MessageOf(i))
  /\ EventOf(i) = e
  /\ ReceiveOf(i) <= msg[MessageOf(i)].received
  /\ OwnerRuns(e, i) \/ OwnerStopped(e, i) \/ LeaseOver(e, i)

(* An inflight record belongs to an invocation of its event that still     *)
(* runs, or whose message was not received again before the lease was      *)
(* over.                                                                   *)
LeaseCover ==
  \A e \in Event : row[e].status = "inflight" =>
    \E i \in Invocation : row[e].lease_token = i /\ Covered(e, i)

RecoveryInv == PathInv /\ ReadAfterStart /\ Finished /\ LeaseCover

-----------------------------------------------------------------------------

LEMMA NumberTypes ==
  ASSUME PathInv, NEW i \in Invocation
  PROVE  /\ now \in Nat /\ started[i] \in Nat /\ readAt[i] \in Nat
         /\ Lease \in Nat /\ WorkerTimeout \in Nat \ {0} /\ ReceiveOf(i) \in Nat \ {0}
         /\ MessageOf(i) \in MessageId
         /\ msg[MessageOf(i)].received \in Nat /\ msg[MessageOf(i)].visibleAt \in Nat
         /\ msg[MessageOf(i)] \in MessageRecord
BY InvocationType, SlackEventsAssumption, ClaimsAssumption
   DEF PathInv, TypeOK, ClaimsTypeOK, MessageRecord

LEMMA LeaseType ==
  ASSUME PathInv, NEW e \in Event
  PROVE  row[e] \in Row /\ row[e].lease_until \in Nat
BY DEF PathInv, TypeOK, ClaimsTypeOK, Row

LEMMA TimeStep ==
  ASSUME PathInv, [Next]_vars
  PROVE  now \in Nat /\ now' \in Nat /\ now <= now'
<1>1. now \in Nat
  BY DEF PathInv, TypeOK, ClaimsTypeOK
<1>2. now' = now \/ now' = now + 1
  BY ClockStep, ClaimsStep DEF PathInv
<1> QED
  BY <1>1, <1>2

LEMMA ReadAfterStartStep == PathInv /\ ReadAfterStart /\ [Next]_vars => ReadAfterStart'
<1> SUFFICES ASSUME PathInv, ReadAfterStart, [Next]_vars, NEW i \in Invocation,
                    pc'[i] \notin {"idle", "over"}
             PROVE  started'[i] <= readAt'[i] /\ readAt'[i] <= now'
  BY DEF ReadAfterStart
<1>1. TypeOK /\ InFlight /\ Sync /\ PathInv' /\ Sync' /\ TypeOK'
  BY PathInvStep DEF PathInv
<1>2. Running(i)' /\ step'[i] # "route"
  BY <1>1 DEF Sync, Running
<1>3. Running(i) /\ started'[i] = started[i]
  BY <1>1, <1>2, StartStep DEF Running
<1>4. /\ started[i] \in Nat /\ readAt[i] \in Nat
      /\ now \in Nat /\ now' \in Nat /\ now <= now' /\ started[i] <= now
  BY <1>1, <1>3, NumberTypes, TimeStep DEF InFlight
<1>5. CASE pc[i] \notin {"idle", "over"} /\ readAt'[i] = readAt[i]
  BY <1>3, <1>4, <1>5 DEF ReadAfterStart
<1>6. CASE readAt'[i] = now
  BY <1>3, <1>4, <1>6
<1>7. \/ pc[i] \notin {"idle", "over"} /\ readAt'[i] = readAt[i]
      \/ readAt'[i] = now
  <2> USE <1>1 DEF TypeOK, ClaimsTypeOK
  <2>1. [ClaimsNext]_claimsVars
    BY ClaimsStep
  <2>2. ASSUME NEW j \in Invocation, NEW e \in Event, ClaimEvent(j, e)
        PROVE  \/ pc[i] = pc'[i] /\ readAt'[i] = readAt[i]
               \/ readAt'[i] = now
    BY <2>2 DEF ClaimEvent
  <2>3. ASSUME NEW j \in Invocation, ClaimPut(j) \/ ClaimPutResent(j) \/ ClaimUpdate(j)
               \/ ClaimUpdateResent(j) \/ CompleteEvent(j) \/ CompleteEventResent(j) \/ Fail(j)
        PROVE  pc[i] \notin {"idle", "over"} /\ readAt'[i] = readAt[i]
    BY <2>3 DEF ClaimPut, ClaimPutResent, ClaimUpdate, ClaimUpdateResent, CompleteEvent,
       CompleteEventResent, Fail
  <2>4. ASSUME NEW j \in Invocation, ReleaseEvent(j) \/ Leave(j) \/ Crash(j)
        PROVE  pc[i] = pc'[i] /\ readAt'[i] = readAt[i]
    BY <2>4 DEF ReleaseEvent, Leave, Crash, End
  <2> QED
    BY <2>1, <2>2, <2>3, <2>4 DEF ClaimsNext, Expire, Tick, tableVars, claimsVars
<1> QED
  BY <1>5, <1>6, <1>7

(* Nobody but an invocation that is still running works on its event       *)
(* before its message is received again.                                   *)
LEMMA StoppedAlone ==
  ASSUME PathInv, NEW e \in Event, NEW i \in Invocation, EventOf(i) = e,
         OwnerStopped(e, i), NEW j \in Invocation, Running(j), EventOf(j) = e
  PROVE  FALSE
<1>1. TypeOK /\ QueueOrder /\ InFlight
  BY DEF PathInv
<1>2. Queued(MessageOf(i)) /\ msg[MessageOf(i)].received = ReceiveOf(i) /\ ~Running(i)
  BY DEF OwnerStopped
<1>3. Front(MessageOf(i)) /\ ~Unused(MessageOf(i)) /\ MessageOf(i) \in MessageId
  BY <1>1, <1>2, NumberTypes DEF QueueOrder, Queued, Unused
<1>4. Front(MessageOf(j)) /\ ~Unused(MessageOf(j)) /\ MessageOf(j) \in MessageId
  BY <1>1, RunningMessage DEF InFlight
<1>5. msg[MessageOf(i)].group = msg[MessageOf(j)].group
  BY <1>1, <1>3, <1>4 DEF QueueOrder, EventOf
<1>6. MessageOf(i) = MessageOf(j)
  BY <1>3, <1>4, <1>5, FrontUnique
<1>7. ReceiveOf(i) = ReceiveOf(j)
  BY <1>1, <1>2, <1>6 DEF InFlight
<1> QED
  BY <1>2, <1>6, <1>7, InvocationType

(* claim_event is refused only for a completed event. *)
LEMMA RefusedCompleted ==
  ASSUME RecoveryInv, NEW i \in Invocation, pc[i] = "update", ~LeaseExpired(i)
  PROVE  CompletedEvent(EventOf(i))
<1> DEFINE e == EventOf(i)
<1>1. PathInv /\ TypeOK /\ QueueOrder /\ InFlight /\ Sync
  BY DEF RecoveryInv, PathInv
<1>2. Running(i) /\ target[i] = e
  BY <1>1 DEF Sync, Running
<1>3. e \in Event /\ row[e] \in Row /\ row[e].status # "absent"
  BY <1>1, <1>2, RunningMessage, LeaseType DEF RecoveryInv, Finished
<1>4. CASE row[e].status = "inflight"
  <2>1. PICK k \in Invocation : Covered(e, k) /\ EventOf(k) = e
    BY <1>3, <1>4 DEF RecoveryInv, LeaseCover, Covered
  <2>2. ~OwnerRuns(e, k)
    <3> SUFFICES ASSUME OwnerRuns(e, k) PROVE FALSE
      OBVIOUS
    <3>1. Running(k) /\ Claimed(k)
      BY DEF OwnerRuns
    <3>2. k = i
      BY <1>1, <1>2, <2>1, <3>1, Alone
    <3> QED
      BY <3>1, <3>2 DEF Claimed
  <2>3. ~OwnerStopped(e, k)
    BY <1>1, <1>2, <1>3, <2>1, StoppedAlone
  <2>4. row[e].lease_until < started[i]
    BY <1>2, <2>1, <2>2, <2>3 DEF Covered, LeaseOver
  <2>5. started[i] <= readAt[i]
    BY DEF RecoveryInv, ReadAfterStart
  <2>6. row[e].lease_until < readAt[i]
    BY <1>1, <1>3, <2>4, <2>5, NumberTypes, LeaseType
  <2> QED
    BY <1>2, <1>4, <2>6 DEF LeaseExpired
<1> QED
  BY <1>3, <1>4 DEF CompletedEvent, Row

LEMMA CompletedStays ==
  ASSUME PathInv, [Next]_vars, NEW e \in Event, CompletedEvent(e)
  PROVE  CompletedEvent(e)'
<1> SUFFICES ASSUME row'[e] # row[e] PROVE FALSE
  BY DEF CompletedEvent
<1> QED
  BY RowStep DEF CompletedEvent, LeaseExpired, OwnsRow

LEMMA CompletedRowStatus ==
  ASSUME NEW i \in Invocation PROVE CompletedRow(i).status = "completed"
BY DEF CompletedRow

(* A record that claim_event found stays until it updates it. *)
LEMMA FoundStays ==
  ASSUME PathInv, Finished, [Next]_vars, NEW i \in Invocation, pc'[i] = "update"
  PROVE  row'[EventOf(i)'].status # "absent"
<1> DEFINE e == EventOf(i)
<1>1. TypeOK /\ QueueOrder /\ InFlight /\ Sync /\ PathInv' /\ Sync'
  BY PathInvStep DEF PathInv
<1>2. Running(i)' /\ step'[i] = "claim"
  BY <1>1 DEF Sync, Running, Working, TypeOK, Step, PathInv
<1>3. Running(i)
  BY <1>1, <1>2, StartStep DEF Running
<1>4. e \in Event /\ EventOf(i)' = e
  BY <1>1, <1>3, RunningMessage, EventOfStep
<1>5. CASE row'[e] # row[e]
  <2>1. PICK k \in Invocation :
          /\ Running(k) /\ EventOf(k) = e
          /\ \/ row'[e] = ClaimRow(k)
             \/ row'[e] = CompletedRow(k)
             \/ Release(k)
    BY <1>4, <1>5, RowStep
  <2>2. k = i
    BY <1>1, <1>3, <2>1, Alone
  <2>3. ~Release(k)
    BY <1>1, <1>2, <2>2 DEF Release, EndStep, TypeOK
  <2> QED
    BY <1>4, <2>1, <2>3 DEF ClaimRow, CompletedRow
<1>6. CASE row'[e] = row[e]
  <2>1. CASE pc[i] = "update"
    BY <1>4, <1>6, <2>1 DEF Finished
  <2>2. CASE pc[i] # "update"
    <3>1. row[target[i]].status # "absent" /\ pc[i] = "put"
      <4> USE <1>1 DEF TypeOK, ClaimsTypeOK
      <4>1. [ClaimsNext]_claimsVars
        BY ClaimsStep
      <4>2. \E j \in Invocation : ClaimPut(j) \/ ClaimPutResent(j)
        BY <2>2, <4>1 DEF ClaimsNext, claimsVars, ClaimEvent, ClaimUpdate, ClaimUpdateResent,
           CompleteEvent, CompleteEventResent, Fail, ReleaseEvent, Leave, Crash, End, Expire, Tick, tableVars
      <4>3. PICK j \in Invocation : ClaimPut(j) \/ ClaimPutResent(j)
        BY <4>2
      <4>4. j = i
        BY <2>2, <4>3 DEF ClaimPut, ClaimPutResent
      <4>5. target[i] = e
        BY <1>1, <4>3, <4>4 DEF Sync, ClaimPut, ClaimPutResent
      <4>6. ~ClaimPutResent(i)
        <5> SUFFICES ASSUME ClaimPutResent(i) PROVE FALSE
          OBVIOUS
        <5>1. row[e].status = "absent" /\ row'[e] = ClaimRow(i)
          BY <1>4, <4>5 DEF ClaimPutResent
        <5> QED
          BY <1>6, <5>1 DEF ClaimRow
      <4> QED
        BY <4>3, <4>4, <4>6 DEF ClaimPut
    <3>2. target[i] = e
      BY <1>1, <3>1 DEF Sync
    <3> QED
      BY <1>4, <1>6, <3>1, <3>2
  <2> QED
    BY <2>1, <2>2
<1> QED
  BY <1>5, <1>6

LEMMA ReturnsCompleted ==
  ASSUME RecoveryInv, ~ResentWrites, [Next]_vars, NEW i \in Invocation, step'[i] = "return"
  PROVE  row'[EventOf(i)'].status = "completed"
<1>1. PathInv /\ TypeOK /\ InFlight /\ Sync /\ Finished
  BY DEF RecoveryInv, PathInv
<1>2. Running(i)
  BY <1>1, StartStep DEF Running
<1>3. EventOf(i) \in Event /\ EventOf(i)' = EventOf(i)
  BY <1>1, <1>2, RunningMessage, EventOfStep
<1>4. CASE CompletedEvent(EventOf(i))
  <2>1. row'[EventOf(i)].status = "completed"
    BY <1>1, <1>3, <1>4, CompletedStays DEF CompletedEvent
  <2> QED
    BY <1>3, <2>1
<1>5. CASE step[i] # "return"
  <2>1. Work(i) \/ Trouble(i)
    BY <1>1, <1>5, OwnStep
  <2>2. TryClaim(i) \/ Complete(i)
    BY <1>1, <2>1
       DEF TypeOK, Work, Trouble, Route, Message, Reply, Invoke, Post, Clear, Release, Return,
           RouteFails, Raise, PostRaises, StatusRaises, ClearRaises, Stop, ReturnLost, Goto,
           EndStep, Handler
  <2>3. CASE TryClaim(i)
    <3>1. pc'[i] = "refused"
      BY <1>1, <2>3 DEF TryClaim, Goto, TypeOK
    <3>2. pc[i] = "update" /\ ~LeaseExpired(i)
      BY <1>1, <2>3, <3>1
         DEF TryClaim, ClaimPut, ClaimPutResent, ClaimUpdate, ClaimUpdateResent, TypeOK, ClaimsTypeOK
    <3> QED
      BY <1>4, <3>2, RefusedCompleted
  <2>4. CASE Complete(i)
    <3>1. pc'[i] = "done"
      BY <1>1, <2>4 DEF Complete, Goto, Handler, TypeOK
    <3>2. row' = [row EXCEPT ![target[i]] = CompletedRow(i)] /\ pc[i] = "held"
      BY <1>1, <2>4, <3>1 DEF Complete, CompleteEvent, CompleteEventResent, TypeOK, ClaimsTypeOK
    <3>3. target[i] = EventOf(i)
      BY <1>1, <3>2 DEF Sync
    <3>4. row'[EventOf(i)] = CompletedRow(i)
      BY <1>1, <1>3, <3>2, <3>3 DEF TypeOK, ClaimsTypeOK
    <3> QED
      BY <1>3, <3>4 DEF CompletedEvent, CompletedRow
  <2> QED
    BY <2>2, <2>3, <2>4
<1> QED
  BY <1>1, <1>4, <1>5 DEF Finished

LEMMA DeletedCompleted ==
  ASSUME RecoveryInv, [Next]_vars, NEW m \in MessageId, msg'[m].status = "deleted"
  PROVE  row'[msg'[m].id].status = "completed"
<1>1. PathInv /\ TypeOK /\ InFlight /\ Finished
  BY DEF RecoveryInv, PathInv
<1>2. CASE msg[m].status = "deleted"
  <2>1. msg[m].id \in Event /\ msg'[m].id = msg[m].id
    BY <1>1, <1>2, MessageTypeStep DEF TypeOK, Unused
  <2>2. row'[msg[m].id].status = "completed"
    BY <1>1, <1>2, <2>1, CompletedStays DEF Finished, CompletedEvent
  <2> QED
    BY <2>1, <2>2
<1>3. CASE msg[m].status # "deleted"
  <2>1. \A e \in Event : ~(Ingress(e) /\ msg' # msg)
    BY <1>1, <1>3, IngressStep
  <2>2. \A n \in MessageId : ~Receive(n) /\ ~Redrive(n)
    BY <1>1, <1>3, ReceiveStep, RedriveStep
  <2>3. PICK i \in Invocation : (Work(i) \/ Trouble(i)) /\ msg' # msg
    BY <1>3, <2>1, <2>2 DEF Next, Ingress, IngressFails, TimePasses, vars
  <2>4. Running(i) /\ step[i] = "return" /\ DeleteMessage(MessageOf(i))
    BY <2>3, WorkerFrame
  <2>5. m = MessageOf(i)
    BY <1>1, <1>3, <2>4, DeleteStep, InvocationType
  <2>6. EventOf(i) \in Event /\ CompletedEvent(EventOf(i)) /\ msg[m].id = EventOf(i)
    BY <1>1, <2>4, <2>5, RunningMessage DEF Finished, EventOf
  <2>7. row'[EventOf(i)].status = "completed"
    BY <1>1, <2>6, CompletedStays DEF CompletedEvent
  <2>8. msg'[m].id = EventOf(i)
    BY <1>1, <2>4, <2>5, <2>6, DeleteStep, InvocationType
  <2> QED
    BY <2>7, <2>8
<1> QED
  BY <1>2, <1>3

LEMMA AnsweredQueued ==
  ASSUME RecoveryInv, [Next]_vars, NEW e \in Event, slack'[e].answered
  PROVE  \E m \in MessageId : ~Unused(m)' /\ msg'[m].id = e
<1>1. PathInv /\ TypeOK /\ QueueOrder /\ InFlight /\ Finished
  BY DEF RecoveryInv, PathInv
<1>2. CASE slack[e].answered
  BY <1>1, <1>2, MessageTypeStep DEF Finished
<1>3. CASE ~slack[e].answered
  <2>1. Ingress(e)
    <3>1. \A i \in Invocation : Work(i) \/ Trouble(i) => slack' = slack
      BY WorkerFrame
    <3>2. \A d \in Event : IngressFails(d) => slack'[e].answered = slack[e].answered
      BY <1>1 DEF IngressFails, TypeOK
    <3>3. \A d \in Event : d # e /\ Ingress(d) => slack'[e] = slack[e]
      BY <1>1 DEF Ingress, TypeOK
    <3> QED
      BY <1>3, <3>1, <3>2, <3>3 DEF Next, Receive, Redrive, TimePasses, vars
  <2>2. CASE msg' = msg
    <3>1. Duplicate(e, now)
      <4> SUFFICES ASSUME Enqueue(e, Thread(e), now) PROVE FALSE
        BY <2>1 DEF Ingress, SendMessage
      <4>1. PICK m \in MessageId :
              Unused(m) /\ msg' = [msg EXCEPT ![m] =
                [id |-> e, group |-> Thread(e), status |-> "queued", sentAt |-> now,
                 received |-> 0, visibleAt |-> now]]
        BY DEF Enqueue
      <4>2. msg'[m].status = "queued"
        BY <1>1, <4>1 DEF TypeOK
      <4> QED
        BY <2>2, <4>1, <4>2 DEF Unused
    <3>2. PICK m \in MessageId : msg[m].id = e
      BY <3>1 DEF Duplicate
    <3>3. ~Unused(m)
      BY <1>1, <3>2, ClaimsAssumption DEF QueueOrder, NoMessage
    <3> QED
      BY <2>2, <3>2, <3>3 DEF Unused
  <2>3. CASE msg' # msg
    BY <1>1, <2>1, <2>3, IngressStep DEF Unused
  <2> QED
    BY <2>2, <2>3
<1> QED
  BY <1>2, <1>3

LEMMA FinishedStep == RecoveryInv /\ ~ResentWrites /\ [Next]_vars => Finished'
<1> SUFFICES ASSUME RecoveryInv, ~ResentWrites, [Next]_vars PROVE Finished'
  OBVIOUS
<1>1. \A i \in Invocation : pc'[i] = "update" => row'[EventOf(i)'].status # "absent"
  BY FoundStays DEF RecoveryInv
<1> QED
  BY <1>1, ReturnsCompleted, DeletedCompleted, AnsweredQueued DEF Finished, CompletedEvent

(* The three ways of LeaseCover, and how a step leads from one to another. *)

LEMMA CoverFrame ==
  ASSUME PathInv, [Next]_vars, NEW e \in Event, NEW i \in Invocation, Covered(e, i)
  PROVE  ~Unused(MessageOf(i))' /\ EventOf(i)' = e
         /\ ReceiveOf(i) <= msg'[MessageOf(i)].received
<1>1. TypeOK /\ QueueOrder /\ InFlight
  BY DEF PathInv
<1>2. /\ ReceiveOf(i) \in Nat /\ MessageOf(i) \in MessageId
      /\ msg[MessageOf(i)].received \in Nat
      /\ \/ msg'[MessageOf(i)].received = msg[MessageOf(i)].received
         \/ msg'[MessageOf(i)].received = msg[MessageOf(i)].received + 1
  BY <1>1, NumberTypes, ReceivedStep
<1>3. ReceiveOf(i) <= msg'[MessageOf(i)].received
  BY <1>2 DEF Covered
<1> QED
  BY <1>3, EventOfStep DEF Covered

(* An invocation whose receive is past does not run again. *)
LEMMA StaysStopped ==
  ASSUME PathInv, [Next]_vars, NEW i \in Invocation, ~Running(i),
         ReceiveOf(i) <= msg[MessageOf(i)].received
  PROVE  ~Running(i)'
<1> SUFFICES ASSUME Running(i)' PROVE FALSE
  OBVIOUS
<1>1. ReceiveOf(i) = msg[MessageOf(i)].received + 1
  BY StartStep DEF PathInv, Running
<1> QED
  BY <1>1, NumberTypes

LEMMA OwnerRunsStep ==
  ASSUME PathInv, LeaseEndsInTime, [Next]_vars, NEW e \in Event, NEW i \in Invocation,
         Covered(e, i), OwnerRuns(e, i), row[e].status = "inflight", row[e].lease_token = i,
         row'[e] = row[e]
  PROVE  OwnerRuns(e, i)' \/ OwnerStopped(e, i)'
<1>1. TypeOK /\ QueueOrder /\ InFlight /\ Sync /\ PathInv' /\ TypeOK'
  BY PathInvStep DEF PathInv
<1>2. Running(i) /\ Claimed(i) /\ row[e].lease_until <= started[i] + WorkerTimeout + Lease
  BY DEF OwnerRuns
<1>3. target[i] = e /\ OwnsRow(i)
  BY <1>1, <1>2 DEF Sync, Claimed, Covered, OwnsRow
<1>4. CASE Running(i)'
  <2>1. started'[i] = started[i]
    <3>1. ~(ReceiveOf(i) = msg[MessageOf(i)].received + 1)
      BY <1>1, <1>2, NumberTypes DEF InFlight
    <3> QED
      BY <1>1, <1>4, <3>1, StartStep DEF Running
  <2>2. Claimed(i)'
    <3> USE <1>1 DEF TypeOK, ClaimsTypeOK
    <3>1. [ClaimsNext]_claimsVars
      BY ClaimsStep
    <3>2. pc'[i] \in {"idle", "over"} \/ pc'[i] \in {"held", "failed"} \/ pc'[i] = pc[i]
          \/ (\E j \in Invocation : CompleteEvent(j) \/ CompleteEventResent(j))
      BY <1>2, <3>1 DEF Claimed, ClaimsNext, claimsVars, ClaimEvent, ClaimPut, ClaimPutResent,
         ClaimUpdate, ClaimUpdateResent, Fail, ReleaseEvent, Leave, Crash, End, Expire, Tick, tableVars
    <3>3. pc'[i] \notin {"idle", "over"}
      <4>1. Sync' /\ step'[i] \in Step
        BY DEF PathInv
      <4>2. step[i] \notin {"idle", "route"}
        BY <1>2 DEF Sync, Claimed
      <4>3. step'[i] # "route"
        <5> SUFFICES ASSUME step'[i] = "route", Work(i) \/ Trouble(i) PROVE FALSE
          BY <4>2, OwnStep
        <5> QED
          BY WorkerFrame
      <4> QED
        BY <1>4, <4>1, <4>3 DEF Sync, Running, Working, Step
    <3>4. ASSUME NEW j \in Invocation, CompleteEvent(j) \/ CompleteEventResent(j)
          PROVE  Claimed(i)'
      <4>1. CASE j = i
        <5>1. row'[e] = CompletedRow(i)
          BY <1>3, <3>4, <4>1 DEF CompleteEvent, CompleteEventResent
        <5> QED
          BY <5>1 DEF CompletedRow
      <4>2. CASE j # i
        BY <1>2, <3>4, <4>2 DEF CompleteEvent, CompleteEventResent, Claimed
      <4> QED
        BY <4>1, <4>2
    <3> QED
      BY <1>2, <3>2, <3>3, <3>4 DEF Claimed
  <2> QED
    BY <1>2, <1>4, <2>1, <2>2 DEF OwnerRuns
<1>5. CASE ~Running(i)'
  <2>1. step'[i] # step[i] /\ step[i] # "idle" /\ step[i] # "return"
    BY <1>1, <1>2, <1>5 DEF Running, Claimed, Sync
  <2>2. Work(i) \/ Trouble(i)
    BY <2>1, OwnStep
  <2>3. msg' = msg
    BY <2>1, <2>2, WorkerFrame
  <2>4. /\ Queued(MessageOf(i)) /\ msg[MessageOf(i)].received = ReceiveOf(i)
        /\ msg[MessageOf(i)].visibleAt = started[i] + Visibility
    BY <1>1, <1>2 DEF InFlight, Front
  <2>5. row[e].lease_until < msg[MessageOf(i)].visibleAt
    BY <1>2, <2>4, NumberTypes, LeaseType DEF Visibility, LeaseEndsInTime
  <2> QED
    BY <1>5, <2>3, <2>4, <2>5 DEF OwnerStopped, Queued
<1> QED
  BY <1>4, <1>5

LEMMA OwnerStoppedStep ==
  ASSUME PathInv, [Next]_vars, NEW e \in Event, NEW i \in Invocation,
         Covered(e, i), OwnerStopped(e, i), row'[e] = row[e]
  PROVE  OwnerStopped(e, i)' \/ LeaseOver(e, i)'
<1>1. TypeOK /\ QueueOrder /\ InFlight
  BY DEF PathInv
<1>2. /\ ~Running(i) /\ Queued(MessageOf(i)) /\ msg[MessageOf(i)].received = ReceiveOf(i)
      /\ row[e].lease_until < msg[MessageOf(i)].visibleAt
      /\ EventOf(i) = e /\ MessageOf(i) \in MessageId
  BY NumberTypes DEF OwnerStopped, Covered
<1>3. ~Running(i)'
  BY <1>2, StaysStopped DEF Covered
<1>4. CASE msg'[MessageOf(i)] = msg[MessageOf(i)]
  BY <1>2, <1>3, <1>4 DEF OwnerStopped, Queued
<1>5. CASE msg'[MessageOf(i)] # msg[MessageOf(i)]
  <2>1. Receive(MessageOf(i)) \/ Redrive(MessageOf(i))
    <3>1. ASSUME NEW d \in Event, Ingress(d), msg' # msg
          PROVE  FALSE
      BY <1>1, <1>2, <1>5, <3>1, IngressStep DEF Queued, Unused
    <3>2. ASSUME NEW m \in MessageId, Receive(m) \/ Redrive(m)
          PROVE  m = MessageOf(i)
      BY <1>1, <1>2, <1>5, <3>2, ReceiveStep, RedriveStep
    <3>3. ASSUME NEW k \in Invocation, Work(k) \/ Trouble(k), msg' # msg
          PROVE  FALSE
      <4>1. Running(k) /\ DeleteMessage(MessageOf(k)) /\ MessageOf(k) \in MessageId
        BY <3>3, WorkerFrame, NumberTypes
      <4>2. MessageOf(k) = MessageOf(i)
        BY <1>1, <1>2, <1>5, <4>1, DeleteStep
      <4>3. EventOf(k) = e
        BY <1>2, <4>2 DEF EventOf
      <4> QED
        BY <1>2, <4>1, <4>3, StoppedAlone
    <3> QED
      BY <1>5, <3>1, <3>2, <3>3 DEF Next, Ingress, IngressFails, TimePasses, vars
  <2>2. /\ msg[MessageOf(i)].visibleAt <= now /\ now' = now
    BY <2>1 DEF Receive, ReceiveMessage, Redrive, DeadLetter, claimsVars
  <2>3. row[e].lease_until < now
    BY <1>2, <2>2, NumberTypes, LeaseType
  <2>4. ASSUME NEW j \in Invocation, Running(j)', EventOf(j)' = e
        PROVE  row[e].lease_until < started'[j]
    <3>1. CASE Running(j)
      <4>1. EventOf(j) = e
        BY <1>1, <2>4, <3>1, RunningMessage, EventOfStep
      <4> QED
        BY <1>2, <3>1, <4>1, StoppedAlone
    <3>2. CASE started'[j] = now
      BY <2>3, <3>2
    <3> QED
      BY <1>1, <2>4, <3>1, <3>2, StartStep DEF Running
  <2> QED
    BY <1>3, <2>2, <2>3, <2>4 DEF LeaseOver
<1> QED
  BY <1>4, <1>5

LEMMA LeaseOverStep ==
  ASSUME PathInv, [Next]_vars, NEW e \in Event, NEW i \in Invocation,
         Covered(e, i), LeaseOver(e, i), row'[e] = row[e]
  PROVE  LeaseOver(e, i)'
<1>1. TypeOK /\ QueueOrder /\ InFlight
  BY DEF PathInv
<1>2. ~Running(i)'
  BY StaysStopped DEF Covered, LeaseOver
<1>3. row[e].lease_until < now /\ row[e].lease_until < now'
  BY TimeStep, LeaseType DEF LeaseOver
<1>4. ASSUME NEW j \in Invocation, Running(j)', EventOf(j)' = e
      PROVE  row[e].lease_until < started'[j]
  <2>1. CASE Running(j) /\ started'[j] = started[j]
    <3>1. EventOf(j) = e
      BY <1>1, <1>4, <2>1, RunningMessage, EventOfStep
    <3> QED
      BY <2>1, <3>1 DEF LeaseOver
  <2>2. CASE started'[j] = now
    BY <1>3, <2>2
  <2> QED
    BY <1>1, <1>4, <2>1, <2>2, StartStep DEF Running
<1> QED
  BY <1>2, <1>3, <1>4 DEF LeaseOver

(* A claim that is taken is covered. *)
LEMMA ClaimCovered ==
  ASSUME PathInv, ReadAfterStart, ~ResentWrites, [Next]_vars, NEW e \in Event,
         row'[e] # row[e], row'[e].status = "inflight"
  PROVE  \E i \in Invocation : row'[e].lease_token = i /\ Covered(e, i)'
<1>1. TypeOK /\ QueueOrder /\ InFlight /\ Sync /\ PathInv' /\ Sync' /\ InFlight'
  BY PathInvStep DEF PathInv
<1>2. PICK i \in Invocation :
        /\ Running(i) /\ EventOf(i) = e /\ pc[i] \in {"put", "update"} /\ TryClaim(i)
        /\ row'[e] = ClaimRow(i) /\ pc'[i] = "held"
  <2>1. \A i \in Invocation : CompletedRow(i).status # "inflight"
    BY CompletedRowStatus
  <2>2. Absent.status # "inflight"
    BY DEF Absent
  <2> QED
    BY <2>1, <2>2, RowStep
<1>3. row'[e].lease_token = i /\ row'[e].lease_until = readAt[i] + Lease
  BY <1>2 DEF ClaimRow
<1>4. Running(i)' /\ Claimed(i)' /\ msg' = msg /\ started' = started
  BY <1>1, <1>2 DEF TryClaim, Goto, Running, Claimed, TypeOK
<1>5. readAt[i] <= now /\ now <= started[i] + WorkerTimeout
  BY <1>1, <1>2 DEF ReadAfterStart, InFlight
<1>6. row'[e].lease_until <= started'[i] + WorkerTimeout + Lease
  BY <1>3, <1>4, <1>5, NumberTypes
<1>7. OwnerRuns(e, i)'
  BY <1>4, <1>6 DEF OwnerRuns
<1>8. ~Unused(MessageOf(i))' /\ EventOf(i)' = e
  BY <1>1, <1>2, RunningMessage, EventOfStep
<1>9. ReceiveOf(i) <= msg'[MessageOf(i)].received
  BY <1>1, <1>4 DEF InFlight, Running
<1>10. Covered(e, i)'
  BY <1>7, <1>8, <1>9 DEF Covered
<1> QED
  BY <1>3, <1>10

LEMMA LeaseCoverStep ==
  ASSUME RecoveryInv, LeaseEndsInTime, ~ResentWrites, [Next]_vars
  PROVE  LeaseCover'
<1> SUFFICES ASSUME NEW e \in Event, row'[e].status = "inflight"
             PROVE  \E i \in Invocation : row'[e].lease_token = i /\ Covered(e, i)'
  BY DEF LeaseCover
<1>1. PathInv /\ ReadAfterStart
  BY DEF RecoveryInv
<1>2. CASE row'[e] # row[e]
  BY <1>1, <1>2, ClaimCovered
<1>3. CASE row'[e] = row[e]
  <2>1. PICK i \in Invocation : row[e].lease_token = i /\ Covered(e, i)
    BY <1>3 DEF RecoveryInv, LeaseCover
  <2>2. ~Unused(MessageOf(i))' /\ EventOf(i)' = e
        /\ ReceiveOf(i) <= msg'[MessageOf(i)].received
    BY <1>1, <2>1, CoverFrame
  <2>3. OwnerRuns(e, i) \/ OwnerStopped(e, i) \/ LeaseOver(e, i)
    BY <2>1 DEF Covered
  <2>4. OwnerRuns(e, i)' \/ OwnerStopped(e, i)' \/ LeaseOver(e, i)'
    BY <1>1, <1>3, <2>1, <2>3, OwnerRunsStep, OwnerStoppedStep, LeaseOverStep
  <2>5. Covered(e, i)'
    BY <2>2, <2>4 DEF Covered
  <2> QED
    BY <1>3, <2>1, <2>5
<1> QED
  BY <1>2, <1>3

LEMMA RecoveryInvInit == Init => RecoveryInv
<1> SUFFICES ASSUME Init PROVE RecoveryInv
  OBVIOUS
<1>1. ReadAfterStart /\ LeaseCover
  BY DEF Init, ClaimsInit, ReadAfterStart, LeaseCover, Absent
<1>2. Finished
  BY DEF Init, ClaimsInit, QueueInit, NoMessage, Finished
<1> QED
  BY <1>1, <1>2, PathInvInit DEF RecoveryInv

LEMMA RecoveryInvariant ==
  ASSUME LeaseEndsInTime, ~ResentWrites
  PROVE  Spec => []RecoveryInv
<1>1. RecoveryInv /\ [Next]_vars => RecoveryInv'
  BY PathInvStep, ReadAfterStartStep, FinishedStep, LeaseCoverStep DEF RecoveryInv
<1> QED
  BY <1>1, RecoveryInvInit, PTL DEF Spec

-----------------------------------------------------------------------------
(* No event is lost *)

(* An event that Slack saw answered with 200 is completed, dead-lettered   *)
(* or still queued: claim_event's False deletes the message of no event    *)
(* that is still to be answered.                                           *)
THEOREM NothingLost ==
  ASSUME LeaseEndsInTime, ~ResentWrites
  PROVE  Spec => []NoSilentLoss
<1>1. RecoveryInv => NoSilentLoss
  <2> SUFFICES ASSUME RecoveryInv, NEW e \in Event, slack[e].answered
               PROVE  \/ CompletedEvent(e)
                      \/ \E m \in MessageId : msg[m].id = e /\ (Queued(m) \/ DeadLettered(m))
    BY DEF NoSilentLoss
  <2>1. PICK m \in MessageId : ~Unused(m) /\ msg[m].id = e
    BY DEF RecoveryInv, Finished
  <2>2. msg[m].status \in {"queued", "deleted", "dead"}
    BY <2>1 DEF RecoveryInv, PathInv, TypeOK, MessageRecord, Unused
  <2>3. msg[m].status = "deleted" => CompletedEvent(e)
    BY <2>1 DEF RecoveryInv, Finished
  <2> QED
    BY <2>1, <2>2, <2>3 DEF Queued, DeadLettered
<1> QED
  BY <1>1, RecoveryInvariant, PTL

(* An abandoned claim is not the end of its event: a message of the event  *)
(* is left to reclaim it, or to be found in the dead-letter queue.         *)
THEOREM AbandonedClaimsRecover ==
  ASSUME LeaseEndsInTime, ~ResentWrites
  PROVE  Spec => []AbandonedClaimRecoverable
<1>1. RecoveryInv => AbandonedClaimRecoverable
  <2> SUFFICES ASSUME RecoveryInv, NEW e \in Event, row[e].status = "inflight"
               PROVE  \E m \in MessageId : msg[m].id = e /\ (Queued(m) \/ DeadLettered(m))
    BY DEF AbandonedClaimRecoverable
  <2>1. PICK i \in Invocation : Covered(e, i)
    BY DEF RecoveryInv, LeaseCover
  <2>2. /\ MessageOf(i) \in MessageId /\ ~Unused(MessageOf(i))
        /\ msg[MessageOf(i)].id = e
    BY <2>1, InvocationType DEF Covered, EventOf
  <2>3. msg[MessageOf(i)].status # "deleted"
    BY <2>2 DEF RecoveryInv, Finished, CompletedEvent
  <2>4. msg[MessageOf(i)].status \in {"queued", "dead"}
    BY <2>2, <2>3 DEF RecoveryInv, PathInv, TypeOK, MessageRecord, Unused
  <2> QED
    BY <2>2, <2>4 DEF Queued, DeadLettered
<1> QED
  BY <1>1, RecoveryInvariant, PTL
=============================================================================
