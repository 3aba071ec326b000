---------------------------- MODULE EventClaims ----------------------------
(***************************************************************************)
(* DynamoSlackState's event records: claim_event, complete_event and       *)
(* release_event of worker.py, run by any number of worker invocations     *)
(* over one DynamoDB table, with crashes, lost responses and TTL deletion. *)
(*                                                                         *)
(* Nothing here relies on the queue in front of the workers: any           *)
(* invocation may claim any event at any time.  SlackEvents composes this  *)
(* module with the queue.                                                  *)
(*                                                                         *)
(* Simplifications:                                                        *)
(*  - one DynamoDB request is one atomic step; claim_event is three (it    *)
(*    reads its clock, puts, updates), because others act in between;      *)
(*  - an invocation claims one event (the mapping's batch_size is 1, and   *)
(*    lambda_handler builds a new DynamoSlackState), so the invocation     *)
(*    itself stands for its uuid4 lease_token, and pc for _claims;         *)
(*  - all hosts read the same clock, in whole units.                       *)
(***************************************************************************)
EXTENDS Naturals

CONSTANTS
  Event,       \* (tenant_id, event_id) pairs
  Invocation,  \* worker invocations, and the lease tokens they draw
  Lease,       \* EVENT_LEASE_SECONDS
  Retention,   \* event_ttl_seconds
  None,        \* no lease token, no event
  MaxTime      \* bound of the clock

ASSUME ClaimsAssumption ==
  /\ Lease \in Nat
  /\ Retention \in Nat
  /\ MaxTime \in Nat
  /\ None \notin Invocation
  /\ None \notin Event
  /\ Lease <= Retention

VARIABLES
  now,     \* int(time.time()), as every host reads it
  row,     \* the event records of the table
  pc,      \* where each invocation is in its claim
  target,  \* the event each invocation works on
  readAt   \* the clock value claim_event read

tableVars == <<row, pc, target, readAt>>
claimsVars == <<now, row, pc, target, readAt>>

Row ==
  [status: {"absent", "inflight", "completed"}, lease_token: Invocation \cup {None},
   lease_until: Nat, expires_at: Nat]

Absent == [status |-> "absent", lease_token |-> None, lease_until |-> 0, expires_at |-> 0]

(* idle    before claim_event        held    claimed, _claims has the token
   put     about to put_item         failed  an exception is on its way out
   update  about to update_item      done    after complete_event
   refused claim_event was False     over    the invocation has ended      *)
PC == {"idle", "put", "update", "refused", "held", "failed", "done", "over"}

(* The invocation's _claims holds its token. *)
Claimed(i) == pc[i] \in {"held", "failed"}

(* The token condition of complete_event and of release_event. *)
OwnsRow(i) ==
  /\ row[target[i]].status = "inflight"
  /\ row[target[i]].lease_token = i

(* A plausible slip: the lease is counted backwards. *)
ClaimRowBackdated(i) ==
  [status |-> "inflight", lease_token |-> i,
   lease_until |-> readAt[i] - Lease, expires_at |-> readAt[i] + Retention]

(* What claim_event writes, by its put or by its update. *)
ClaimRow(i) ==
  [status |-> "inflight", lease_token |-> i,
   lease_until |-> readAt[i] + Lease, expires_at |-> readAt[i] + Retention]

(* What complete_event leaves of the record: expires_at stays. *)
CompletedRow(i) ==
  [status |-> "completed", lease_token |-> None, lease_until |-> 0,
   expires_at |-> row[target[i]].expires_at]

-----------------------------------------------------------------------------

ClaimsTypeOK ==
  /\ now \in Nat
  /\ row \in [Event -> Row]
  /\ pc \in [Invocation -> PC]
  /\ target \in [Invocation -> Event \cup {None}]
  /\ readAt \in [Invocation -> Nat]
  /\ \A i \in Invocation : pc[i] \notin {"idle", "over"} => target[i] \in Event

ClaimsInit ==
  /\ now = 0
  /\ row = [e \in Event |-> Absent]
  /\ pc = [i \in Invocation |-> "idle"]
  /\ target = [i \in Invocation |-> None]
  /\ readAt = [i \in Invocation |-> 0]

(* The invocation ends, and its locals and its DynamoSlackState with it. *)
End(i) ==
  /\ pc' = [pc EXCEPT ![i] = "over"]
  /\ target' = [target EXCEPT ![i] = None]
  /\ readAt' = [readAt EXCEPT ![i] = 0]

(* A plausible slip: the token is kept under no event. *)
ClaimEventUntargeted(i, e) ==
  /\ pc[i] = "idle"
  /\ readAt' = [readAt EXCEPT ![i] = now]
  /\ pc' = [pc EXCEPT ![i] = "put"]
  /\ UNCHANGED <<now, row, target>>

(* claim_event draws its token and reads the clock once, for both of its   *)
(* requests.                                                               *)
ClaimEvent(i, e) ==
  /\ pc[i] = "idle"
  /\ target' = [target EXCEPT ![i] = e]
  /\ readAt' = [readAt EXCEPT ![i] = now]
  /\ pc' = [pc EXCEPT ![i] = "put"]
  /\ UNCHANGED <<now, row>>

(* A plausible slip: the put has no condition. *)
ClaimPutUnconditional(i) ==
  /\ pc[i] = "put"
  /\ row' = [row EXCEPT ![target[i]] = ClaimRow(i)]
  /\ pc' = [pc EXCEPT ![i] = "held"]
  /\ UNCHANGED <<now, target, readAt>>

(* put_item under attribute_not_exists(pk). *)
ClaimPut(i) ==
  /\ pc[i] = "put"
  /\ \/ /\ row[target[i]].status = "absent"
        /\ row' = [row EXCEPT ![target[i]] = ClaimRow(i)]
        /\ pc' = [pc EXCEPT ![i] = "held"]
     \/ /\ row[target[i]].status # "absent"
        /\ pc' = [pc EXCEPT ![i] = "update"]
        /\ UNCHANGED row
  /\ UNCHANGED <<now, target, readAt>>

(* The put is applied, its response is lost and the client sends it again: *)
(* the record that fails the condition is then the invocation's own.       *)
ClaimPutResent(i) ==
  /\ pc[i] = "put"
  /\ row[target[i]].status = "absent"
  /\ row' = [row EXCEPT ![target[i]] = ClaimRow(i)]
  /\ pc' = [pc EXCEPT ![i] = "update"]
  /\ UNCHANGED <<now, target, readAt>>

(* A plausible slip: a claim is taken over while its lease still runs. *)
LeaseExpiredAnyClaim(i) ==
  row[target[i]].status = "inflight"

(* A plausible slip: the condition forgets the status, so that the missing *)
(* lease of a completed event reads as an old one.                         *)
LeaseExpiredAnyStatus(i) ==
  /\ row[target[i]].status # "absent"
  /\ row[target[i]].lease_until < readAt[i]

(* An abandoned claim may be taken over once its lease is in the past. *)
LeaseExpired(i) ==
  /\ row[target[i]].status = "inflight"
  /\ row[target[i]].lease_until < readAt[i]

(* update_item under LeaseExpired.  A record that was deleted since the    *)
(* put fails the condition too: claim_event is False.                      *)
ClaimUpdate(i) ==
  /\ pc[i] = "update"
  /\ \/ /\ LeaseExpired(i)
        /\ row' = [row EXCEPT ![target[i]] = ClaimRow(i)]
        /\ pc' = [pc EXCEPT ![i] = "held"]
     \/ /\ ~LeaseExpired(i)
        /\ pc' = [pc EXCEPT ![i] = "refused"]
        /\ UNCHANGED row
  /\ UNCHANGED <<now, target, readAt>>

(* The update is applied, its response is lost and the client sends it     *)
(* again: the condition fails on the invocation's own new lease.           *)
ClaimUpdateResent(i) ==
  /\ pc[i] = "update"
  /\ LeaseExpired(i)
  /\ row' = [row EXCEPT ![target[i]] = ClaimRow(i)]
  /\ pc' = [pc EXCEPT ![i] = "refused"]
  /\ UNCHANGED <<now, target, readAt>>

(* A plausible slip: complete_event does not look at the token. *)
CompleteEventUnfenced(i) ==
  /\ pc[i] = "held"
  /\ row' = [row EXCEPT ![target[i]] = CompletedRow(i)]
  /\ pc' = [pc EXCEPT ![i] = "done"]
  /\ UNCHANGED <<now, target, readAt>>

(* complete_event: update_item under OwnsRow; when the condition fails the *)
(* exception propagates and _claims keeps the token.                       *)
CompleteEvent(i) ==
  /\ pc[i] = "held"
  /\ \/ /\ OwnsRow(i)
        /\ row' = [row EXCEPT ![target[i]] = CompletedRow(i)]
        /\ pc' = [pc EXCEPT ![i] = "done"]
     \/ /\ ~OwnsRow(i)
        /\ pc' = [pc EXCEPT ![i] = "failed"]
        /\ UNCHANGED row
  /\ UNCHANGED <<now, target, readAt>>

(* An exception inside process, between the claim and complete_event, or   *)
(* in complete_event when its request was not applied.                     *)
Fail(i) ==
  /\ pc[i] = "held"
  /\ pc' = [pc EXCEPT ![i] = "failed"]
  /\ UNCHANGED <<now, row, target, readAt>>

(* complete_event raises although its request was applied: the response is *)
(* lost, and the request that the client sends again fails the condition.  *)
CompleteEventResent(i) ==
  /\ pc[i] = "held"
  /\ OwnsRow(i)
  /\ row' = [row EXCEPT ![target[i]] = CompletedRow(i)]
  /\ pc' = [pc EXCEPT ![i] = "failed"]
  /\ UNCHANGED <<now, target, readAt>>

(* A plausible slip: the delete is unconditional. *)
ReleaseEventUnfenced(i) ==
  /\ pc[i] = "failed"
  /\ row' = [row EXCEPT ![target[i]] = Absent]
  /\ End(i)
  /\ UNCHANGED now

(* release_event: the token leaves _claims, delete_item under OwnsRow, and *)
(* a failed condition is swallowed; then the exception ends the invocation. *)
ReleaseEvent(i) ==
  /\ pc[i] = "failed"
  /\ row' = IF OwnsRow(i) THEN [row EXCEPT ![target[i]] = Absent] ELSE row
  /\ End(i)
  /\ UNCHANGED now

(* The invocation stops where it is: its time is up, its host dies, a      *)
(* request of claim_event raises, or the exception handler itself raises.  *)
Crash(i) ==
  /\ pc[i] \in {"put", "update", "held", "failed"}
  /\ End(i)
  /\ UNCHANGED <<now, row>>

(* The invocation returns, its claim refused or its event completed. *)
Leave(i) ==
  /\ pc[i] \in {"refused", "done"}
  /\ End(i)
  /\ UNCHANGED <<now, row>>

(* DynamoDB deletes a record some time after its expires_at. *)
Expire(e) ==
  /\ row[e].status # "absent"
  /\ row[e].expires_at < now
  /\ row' = [row EXCEPT ![e] = Absent]
  /\ UNCHANGED <<now, pc, target, readAt>>

Tick ==
  /\ now < MaxTime
  /\ now' = now + 1
  /\ UNCHANGED tableVars

ClaimsNext ==
  \/ \E i \in Invocation, e \in Event : ClaimEvent(i, e)
  \/ \E i \in Invocation :
       \/ ClaimPut(i)
       \/ ClaimPutResent(i)
       \/ ClaimUpdate(i)
       \/ ClaimUpdateResent(i)
       \/ CompleteEvent(i)
       \/ CompleteEventResent(i)
       \/ Fail(i)
       \/ ReleaseEvent(i)
       \/ Leave(i)
       \/ Crash(i)
  \/ \E e \in Event : Expire(e)
  \/ Tick

ClaimsSpec == ClaimsInit /\ [][ClaimsNext]_claimsVars

-----------------------------------------------------------------------------
(* Properties *)

(* The invocation's own view of its lease: it stored readAt + Lease. *)
LeaseRuns(i) == Claimed(i) /\ now <= readAt[i] + Lease

(* Two invocations never both believe to hold a running lease on the same  *)
(* event, whatever the order of their requests, crashes, TTL deletions and *)
(* clock readings that are old by the time they are used: claim_event's    *)
(* put_item/update_item conditions.                                        *)
LiveLeaseExclusive ==
  \A i, j \in Invocation :
    i # j /\ target[i] = target[j] => ~(LeaseRuns(i) /\ LeaseRuns(j))

(* A claim ends early only by its owner: an inflight record under a        *)
(* running lease is changed by no step but complete_event or release_event *)
(* of the invocation whose token it carries.                               *)
RunningLeaseFenced ==
  [][\A e \in Event :
       row[e].status = "inflight" /\ now <= row[e].lease_until /\ row'[e] # row[e]
         => \E i \in Invocation :
              i = row[e].lease_token /\ target[i] = e /\ Claimed(i) /\ pc'[i] # pc[i]]_claimsVars

(* A completed event is claimed again only after its record outlived       *)
(* Retention: nobody but the table's TTL changes a completed record.       *)
CompletedIsFinal ==
  [][\A e \in Event :
       row[e].status = "completed" /\ row'[e] # row[e]
         => row[e].expires_at < now /\ row'[e] = Absent]_claimsVars

(* The table implements the ledger: the reading of the clock, the put, the *)
(* update and the resends of claim_event together look like one atomic     *)
(* claim, and every conditional write like a step of the record's owner.   *)
LedgerState == [absent |-> "free", inflight |-> "claimed", completed |-> "completed"]

Ledger == INSTANCE EventLedger WITH
  ledger <- [e \in Event |->
    [state |-> LedgerState[row[e].status], owner |-> row[e].lease_token,
     leaseEnd |-> row[e].lease_until, keptUntil |-> row[e].expires_at]]

ImplementsLedger == Ledger!LedgerSpec
=============================================================================
