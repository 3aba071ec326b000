------------------------ MODULE EventClaimsProofs ------------------------
(***************************************************************************)
(* What holds of DynamoSlackState's event records for any number of        *)
(* events and invocations, any lease, any retention that is not shorter    *)
(* than the lease, and any bound of the clock.                             *)
(*                                                                         *)
(* LiveLeaseExclusive is not inductive: that a second invocation cannot    *)
(* claim depends on the record the first one left behind.  ClaimsInv says  *)
(* what that record looks like for as long as its lease runs.              *)
(***************************************************************************)
EXTENDS EventClaims, TLAPS

(* claim_event's clock value is not from the future. *)
ReadInPast == \A i \in Invocation : readAt[i] <= now

(* TTL deletion never comes before the end of a lease. *)
RecordOutlivesLease ==
  \A e \in Event : row[e].status = "inflight" => row[e].lease_until <= row[e].expires_at

(* As long as an invocation's lease runs, the record of its event is the   *)
(* one it wrote, or that record completed.                                 *)
LeaseKept ==
  \A i \in Invocation : LeaseRuns(i) =>
    /\ row[target[i]].expires_at >= readAt[i] + Lease
    /\ \/ OwnsRow(i) /\ row[target[i]].lease_until = readAt[i] + Lease
       \/ row[target[i]].status = "completed"

ClaimsInv ==
  /\ ClaimsTypeOK
  /\ ReadInPast
  /\ RecordOutlivesLease
  /\ LeaseKept
  /\ LiveLeaseExclusive

-----------------------------------------------------------------------------
(* Type correctness *)

(* The record claim_event writes is a record. *)
LEMMA ClaimRowType ==
  ASSUME ClaimsTypeOK, NEW i \in Invocation
  PROVE  ClaimRow(i) \in Row
BY ClaimsAssumption DEF ClaimsTypeOK, ClaimRow, Row

LEMMA CompletedRowType ==
  ASSUME ClaimsTypeOK, NEW i \in Invocation, target[i] \in Event
  PROVE  CompletedRow(i) \in Row
BY DEF ClaimsTypeOK, CompletedRow, Row

LEMMA AbsentType == Absent \in Row
BY DEF Absent, Row

LEMMA ClaimsTypeInit == ClaimsInit => ClaimsTypeOK
BY AbsentType DEF ClaimsInit, ClaimsTypeOK, PC

LEMMA ClaimsTypeStep == ClaimsTypeOK /\ [ClaimsNext]_claimsVars => ClaimsTypeOK'
<1> SUFFICES ASSUME ClaimsTypeOK, [ClaimsNext]_claimsVars
             PROVE  ClaimsTypeOK'
  OBVIOUS
<1>1. ASSUME NEW i \in Invocation, NEW e \in Event, ClaimEvent(i, e)
      PROVE  ClaimsTypeOK'
  BY <1>1 DEF ClaimEvent, ClaimsTypeOK, PC
<1>2. ASSUME NEW i \in Invocation, ClaimPut(i)
      PROVE  ClaimsTypeOK'
  BY <1>2, ClaimRowType DEF ClaimPut, ClaimsTypeOK, PC
<1>3. ASSUME NEW i \in Invocation, ClaimPutResent(i)
      PROVE  ClaimsTypeOK'
  BY <1>3, ClaimRowType DEF ClaimPutResent, ClaimsTypeOK, PC
<1>4. ASSUME NEW i \in Invocation, ClaimUpdate(i) \/ ClaimUpdateResent(i)
      PROVE  ClaimsTypeOK'
  BY <1>4, ClaimRowType DEF ClaimUpdate, ClaimUpdateResent, ClaimsTypeOK, PC
<1>5. ASSUME NEW i \in Invocation, CompleteEvent(i)
      PROVE  ClaimsTypeOK'
  BY <1>5, CompletedRowType DEF CompleteEvent, ClaimsTypeOK, PC
<1>6. ASSUME NEW i \in Invocation, CompleteEventResent(i)
      PROVE  ClaimsTypeOK'
  BY <1>6, CompletedRowType DEF CompleteEventResent, ClaimsTypeOK, PC
<1>7. ASSUME NEW i \in Invocation, Fail(i)
      PROVE  ClaimsTypeOK'
  BY <1>7 DEF Fail, ClaimsTypeOK, PC
<1>8. ASSUME NEW i \in Invocation, ReleaseEvent(i)
      PROVE  ClaimsTypeOK'
  BY <1>8, AbsentType DEF ReleaseEvent, End, ClaimsTypeOK, PC
<1>9. ASSUME NEW i \in Invocation, Leave(i) \/ Crash(i)
      PROVE  ClaimsTypeOK'
  BY <1>9 DEF Leave, Crash, End, ClaimsTypeOK, PC
<1>10. ASSUME NEW e \in Event, Expire(e)
       PROVE  ClaimsTypeOK'
  BY <1>10, AbsentType DEF Expire, ClaimsTypeOK
<1>11. CASE Tick
  BY <1>11 DEF Tick, tableVars, ClaimsTypeOK
<1>12. CASE UNCHANGED claimsVars
  BY <1>12 DEF claimsVars, ClaimsTypeOK
<1> QED
  BY <1>1, <1>2, <1>3, <1>4, <1>5, <1>6, <1>7, <1>8, <1>9, <1>10, <1>11, <1>12
     DEF ClaimsNext

(* The state of the table and of its clients is always well-formed; in     *)
(* particular an invocation inside claim_event has an event.               *)
THEOREM ClaimsTypeCorrect == ClaimsSpec => []ClaimsTypeOK
BY ClaimsTypeInit, ClaimsTypeStep, PTL DEF ClaimsSpec

-----------------------------------------------------------------------------
(* A running lease is exclusive *)

LEMMA ClaimsInvInit == ClaimsInit => ClaimsInv
<1> SUFFICES ASSUME ClaimsInit PROVE ClaimsInv
  OBVIOUS
<1>1. ClaimsTypeOK
  BY ClaimsTypeInit
<1>2. ReadInPast /\ RecordOutlivesLease
  BY DEF ClaimsInit, ReadInPast, RecordOutlivesLease, Absent
<1>3. \A i \in Invocation : ~LeaseRuns(i)
  BY DEF ClaimsInit, LeaseRuns, Claimed
<1> QED
  BY <1>1, <1>2, <1>3 DEF ClaimsInv, LeaseKept, LiveLeaseExclusive

LEMMA ClockStep == [ClaimsNext]_claimsVars => now' = now \/ now' = now + 1
BY DEF ClaimsNext, claimsVars, ClaimEvent, ClaimPut, ClaimPutResent, ClaimUpdate,
       ClaimUpdateResent, CompleteEvent, CompleteEventResent, Fail, ReleaseEvent, Leave,
       Crash, Expire, Tick

LEMMA ReadInPastStep == ClaimsTypeOK /\ ReadInPast /\ [ClaimsNext]_claimsVars => ReadInPast'
<1> SUFFICES ASSUME ClaimsTypeOK, ReadInPast, [ClaimsNext]_claimsVars
             PROVE  ReadInPast'
  OBVIOUS
<1>1. now' = now \/ now' = now + 1
  BY ClockStep
<1>2. \A j \in Invocation : readAt'[j] \in {readAt[j], now, 0}
  BY DEF ClaimsNext, claimsVars, ClaimEvent, ClaimPut, ClaimPutResent, ClaimUpdate,
         ClaimUpdateResent, CompleteEvent, CompleteEventResent, Fail, ReleaseEvent, Leave,
         Crash, End, Expire, Tick, tableVars, ClaimsTypeOK
<1> QED
  BY <1>1, <1>2 DEF ClaimsTypeOK, ReadInPast

(* The record of an event changes in five ways: it is claimed, when it is  *)
(* absent or its lease is over, completed or released by its owner, or     *)
(* expired.                                                                *)
LEMMA RecordStep ==
  ASSUME ClaimsTypeOK, [ClaimsNext]_claimsVars, NEW e \in Event, row'[e] # row[e]
  PROVE  \/ \E i \in Invocation :
              /\ target[i] = e /\ target' = target /\ readAt' = readAt /\ now' = now
              /\ pc[i] \in {"put", "update"}
              /\ pc' \in {[pc EXCEPT ![i] = "held"], [pc EXCEPT ![i] = "update"],
                          [pc EXCEPT ![i] = "refused"]}
              /\ row[e].status = "absent" \/ LeaseExpired(i)
              /\ row' = [row EXCEPT ![e] = ClaimRow(i)]
         \/ \E i \in Invocation :
              /\ target[i] = e /\ target' = target /\ readAt' = readAt /\ now' = now
              /\ pc[i] = "held" /\ OwnsRow(i)
              /\ pc' \in {[pc EXCEPT ![i] = "done"], [pc EXCEPT ![i] = "failed"]}
              /\ row' = [row EXCEPT ![e] = CompletedRow(i)]
         \/ \E i \in Invocation :
              /\ target[i] = e /\ OwnsRow(i) /\ pc[i] = "failed" /\ End(i) /\ now' = now
              /\ row' = [row EXCEPT ![e] = Absent]
         \/ /\ row[e].status # "absent" /\ row[e].expires_at < now
            /\ row' = [row EXCEPT ![e] = Absent]
            /\ UNCHANGED <<now, pc, target, readAt>>
<1>1. CASE \E i \in Invocation :
             ClaimPut(i) \/ ClaimPutResent(i) \/ ClaimUpdate(i) \/ ClaimUpdateResent(i)
  BY <1>1 DEF ClaimPut, ClaimPutResent, ClaimUpdate, ClaimUpdateResent, ClaimsTypeOK
<1>2. CASE \E i \in Invocation : CompleteEvent(i) \/ CompleteEventResent(i)
  BY <1>2 DEF CompleteEvent, CompleteEventResent, ClaimsTypeOK
<1>3. CASE \E i \in Invocation : ReleaseEvent(i)
  BY <1>3 DEF ReleaseEvent, ClaimsTypeOK
<1>4. CASE \E d \in Event : Expire(d)
  BY <1>4 DEF Expire, ClaimsTypeOK
<1>5. ASSUME UNCHANGED row PROVE FALSE
  BY <1>5
<1> QED
  BY <1>1, <1>2, <1>3, <1>4, <1>5
     DEF ClaimsNext, claimsVars, ClaimEvent, Fail, Leave, Crash, Tick, tableVars

(* A lease that runs after a step ran before it, or was just claimed. *)
LEMMA LeaseRunsStep ==
  ASSUME ClaimsTypeOK, [ClaimsNext]_claimsVars, NEW i \in Invocation, LeaseRuns(i)'
  PROVE  \/ LeaseRuns(i) /\ target'[i] = target[i] /\ readAt'[i] = readAt[i]
         \/ /\ target' = target /\ readAt' = readAt /\ now' = now
            /\ pc[i] \in {"put", "update"}
            /\ row[target[i]].status = "absent" \/ LeaseExpired(i)
            /\ row' = [row EXCEPT ![target[i]] = ClaimRow(i)]
<1> USE DEF LeaseRuns, Claimed, ClaimsTypeOK
<1>1. CASE \E j \in Invocation :
             ClaimPut(j) \/ ClaimPutResent(j) \/ ClaimUpdate(j) \/ ClaimUpdateResent(j)
  BY <1>1 DEF ClaimPut, ClaimPutResent, ClaimUpdate, ClaimUpdateResent
<1>2. CASE \E j \in Invocation, e \in Event : ClaimEvent(j, e)
  BY <1>2 DEF ClaimEvent
<1>3. CASE \E j \in Invocation : CompleteEvent(j) \/ CompleteEventResent(j) \/ Fail(j)
  BY <1>3 DEF CompleteEvent, CompleteEventResent, Fail
<1>4. CASE \E j \in Invocation : ReleaseEvent(j) \/ Leave(j) \/ Crash(j)
  BY <1>4 DEF ReleaseEvent, Leave, Crash, End
<1>5. CASE \E e \in Event : Expire(e)
  BY <1>5 DEF Expire
<1>6. CASE Tick
  <2>1. now' = now + 1 /\ pc' = pc /\ target' = target /\ readAt' = readAt
    BY <1>6 DEF Tick, tableVars
  <2> QED
    BY <2>1, ClaimsAssumption
<1>7. CASE UNCHANGED claimsVars
  BY <1>7 DEF claimsVars
<1> QED
  BY <1>1, <1>2, <1>3, <1>4, <1>5, <1>6, <1>7 DEF ClaimsNext

LEMMA RecordOutlivesLeaseStep ==
  ClaimsInv /\ [ClaimsNext]_claimsVars => RecordOutlivesLease'
<1> SUFFICES ASSUME ClaimsInv, [ClaimsNext]_claimsVars, NEW e \in Event,
                    row'[e].status = "inflight"
             PROVE  row'[e].lease_until <= row'[e].expires_at
  BY DEF RecordOutlivesLease
<1>1. CASE row'[e] = row[e]
  BY <1>1 DEF ClaimsInv, RecordOutlivesLease
<1>2. CASE row'[e] # row[e]
  <2>1. PICK i \in Invocation : row' = [row EXCEPT ![e] = ClaimRow(i)]
    <3>1. \A i \in Invocation :
            row' = [row EXCEPT ![e] = CompletedRow(i)] => row'[e].status = "completed"
      BY DEF ClaimsInv, ClaimsTypeOK, CompletedRow
    <3>2. row' = [row EXCEPT ![e] = Absent] => row'[e].status = "absent"
      BY DEF ClaimsInv, ClaimsTypeOK, Absent
    <3> QED
      BY <1>2, <3>1, <3>2, RecordStep DEF ClaimsInv
  <2>2. row'[e] = ClaimRow(i) /\ readAt[i] \in Nat
    BY <2>1 DEF ClaimsInv, ClaimsTypeOK
  <2> QED
    BY <2>2, ClaimsAssumption DEF ClaimRow
<1> QED
  BY <1>1, <1>2

LEMMA LeaseKeptStep == ClaimsInv /\ [ClaimsNext]_claimsVars => LeaseKept'
<1> SUFFICES ASSUME ClaimsInv, [ClaimsNext]_claimsVars, NEW i \in Invocation, LeaseRuns(i)'
             PROVE  /\ row'[target'[i]].expires_at >= readAt'[i] + Lease
                    /\ \/ OwnsRow(i)' /\ row'[target'[i]].lease_until = readAt'[i] + Lease
                       \/ row'[target'[i]].status = "completed"
  BY DEF LeaseKept
<1>1. ClaimsTypeOK /\ ReadInPast /\ LeaseKept
  BY DEF ClaimsInv
<1>2. target[i] \in Event /\ target'[i] = target[i] /\ readAt'[i] = readAt[i]
  BY <1>1, LeaseRunsStep DEF ClaimsTypeOK, LeaseRuns, Claimed
<1>3. now \in Nat /\ now' \in Nat /\ now <= now' /\ readAt \in [Invocation -> Nat]
  BY <1>1, ClockStep DEF ClaimsTypeOK
<1>4. CASE LeaseRuns(i) /\ row'[target[i]] = row[target[i]]
  BY <1>1, <1>2, <1>4 DEF LeaseKept, OwnsRow
<1>5. CASE LeaseRuns(i) /\ row'[target[i]] # row[target[i]]
  <2> DEFINE e == target[i]
  <2>1. /\ row[e] \in Row
        /\ row[e].expires_at >= readAt[i] + Lease
        /\ \/ OwnsRow(i) /\ row[e].lease_until = readAt[i] + Lease
           \/ row[e].status = "completed"
    BY <1>1, <1>2, <1>5 DEF LeaseKept, ClaimsTypeOK
  <2>2. now <= readAt[i] + Lease
    BY <1>5 DEF LeaseRuns
  <2>3. ASSUME NEW j \in Invocation, row[e].status = "absent" \/ LeaseExpired(j), target[j] = e
        PROVE  FALSE
    BY <1>1, <1>3, <2>1, <2>2, <2>3, ClaimsAssumption DEF OwnsRow, LeaseExpired, ReadInPast, Row
  <2>4. ASSUME NEW j \in Invocation, target[j] = e, OwnsRow(j), pc[j] = "failed", End(j)
        PROVE  FALSE
    <3>1. j = i
      BY <2>1, <2>4 DEF OwnsRow
    <3> QED
      BY <1>1, <2>4, <3>1 DEF End, LeaseRuns, Claimed, ClaimsTypeOK
  <2>5. ~(row[e].expires_at < now)
    BY <1>3, <2>1, <2>2, ClaimsAssumption DEF Row
  <2>6. \E j \in Invocation : target[j] = e /\ row' = [row EXCEPT ![e] = CompletedRow(j)]
    BY <1>1, <1>2, <1>5, <2>3, <2>4, <2>5, RecordStep
  <2>7. row'[e].status = "completed" /\ row'[e].expires_at = row[e].expires_at
    BY <1>1, <1>2, <2>1, <2>6 DEF ClaimsTypeOK, CompletedRow
  <2> QED
    BY <1>2, <2>1, <2>7
<1>6. CASE row' = [row EXCEPT ![target[i]] = ClaimRow(i)]
  <2>1. row'[target[i]] = ClaimRow(i)
    BY <1>1, <1>2, <1>6 DEF ClaimsTypeOK
  <2> QED
    BY <1>2, <1>3, <2>1, ClaimsAssumption DEF ClaimRow, OwnsRow
<1> QED
  BY <1>1, <1>4, <1>5, <1>6, LeaseRunsStep

LEMMA LiveLeaseExclusiveStep == ClaimsInv /\ [ClaimsNext]_claimsVars => LiveLeaseExclusive'
<1> SUFFICES ASSUME ClaimsInv, [ClaimsNext]_claimsVars,
                    NEW i \in Invocation, NEW j \in Invocation, i # j,
                    target'[i] = target'[j], LeaseRuns(i)', LeaseRuns(j)'
             PROVE  FALSE
  BY DEF LiveLeaseExclusive
<1>1. ClaimsTypeOK /\ ReadInPast /\ LeaseKept
  BY DEF ClaimsInv
<1> DEFINE JustClaimed(k) ==
      /\ target' = target /\ readAt' = readAt /\ now' = now
      /\ pc[k] \in {"put", "update"}
      /\ row[target[k]].status = "absent" \/ LeaseExpired(k)
      /\ row' = [row EXCEPT ![target[k]] = ClaimRow(k)]
<1>2. ASSUME NEW k \in Invocation, NEW l \in Invocation, target[k] = target[l],
             JustClaimed(k), LeaseRuns(l)
      PROVE  FALSE
  <2>1. target[l] \in Event /\ row[target[l]] \in Row
    BY <1>1, <1>2 DEF LeaseRuns, Claimed, ClaimsTypeOK
  <2>2. /\ OwnsRow(l) /\ row[target[l]].lease_until = readAt[l] + Lease
        /\ LeaseExpired(k)
    BY <1>1, <1>2 DEF LeaseKept, LeaseExpired, OwnsRow
  <2>3. now <= row[target[l]].lease_until /\ row[target[l]].lease_until < readAt[k]
    BY <1>2, <2>2 DEF LeaseExpired, LeaseRuns
  <2> QED
    BY <1>1, <2>1, <2>3 DEF ReadInPast, ClaimsTypeOK, Row
<1>3. CASE LeaseRuns(i) /\ LeaseRuns(j) /\ target[i] = target[j]
  BY <1>3 DEF ClaimsInv, LiveLeaseExclusive
<1>4. CASE JustClaimed(i) /\ JustClaimed(j)
  <2>1. target[i] \in Event /\ target[i] = target[j]
    BY <1>1, <1>4 DEF ClaimsTypeOK
  <2>2. row'[target[i]] = ClaimRow(i) /\ row'[target[i]] = ClaimRow(j)
    BY <1>1, <1>4, <2>1 DEF ClaimsTypeOK
  <2> QED
    BY <2>2 DEF ClaimRow
<1>5. CASE JustClaimed(i) /\ LeaseRuns(j) /\ target'[j] = target[j]
  BY <1>2, <1>5
<1>6. CASE JustClaimed(j) /\ LeaseRuns(i) /\ target'[i] = target[i]
  BY <1>2, <1>6
<1>7. /\ JustClaimed(i) \/ (LeaseRuns(i) /\ target'[i] = target[i])
      /\ JustClaimed(j) \/ (LeaseRuns(j) /\ target'[j] = target[j])
  BY <1>1, LeaseRunsStep
<1> QED
  BY <1>3, <1>4, <1>5, <1>6, <1>7

LEMMA ClaimsInvStep == ClaimsInv /\ [ClaimsNext]_claimsVars => ClaimsInv'
BY ClaimsTypeStep, ReadInPastStep, RecordOutlivesLeaseStep, LeaseKeptStep,
   LiveLeaseExclusiveStep DEF ClaimsInv

LEMMA ClaimsInvariant == ClaimsSpec => []ClaimsInv
BY ClaimsInvInit, ClaimsInvStep, PTL DEF ClaimsSpec

(* Two invocations never both believe to hold a running lease on the same  *)
(* event: claim_event's conditions on put_item and update_item.            *)
THEOREM LeaseExclusion == ClaimsSpec => []LiveLeaseExclusive
<1>1. ClaimsInv => LiveLeaseExclusive
  BY DEF ClaimsInv
<1> QED
  BY <1>1, ClaimsInvariant, PTL

-----------------------------------------------------------------------------
(* What a step may do to a record *)

(* An inflight record under a running lease is changed by nobody but the   *)
(* invocation whose token it carries: the token condition of               *)
(* complete_event and release_event, and claim_event's on lease_until.     *)
THEOREM LeaseFencing == ClaimsSpec => RunningLeaseFenced
<1>1. ASSUME ClaimsInv, [ClaimsNext]_claimsVars, NEW e \in Event,
             row[e].status = "inflight", now <= row[e].lease_until, row'[e] # row[e]
      PROVE  \E i \in Invocation :
               i = row[e].lease_token /\ target[i] = e /\ Claimed(i) /\ pc'[i] # pc[i]
  <2>1. /\ now \in Nat /\ row[e] \in Row /\ pc \in [Invocation -> PC]
        /\ row[e].lease_until <= row[e].expires_at
        /\ ClaimsTypeOK
    BY <1>1 DEF ClaimsInv, ClaimsTypeOK, RecordOutlivesLease
  <2>2. ASSUME NEW i \in Invocation, row[e].status = "absent" \/ LeaseExpired(i), target[i] = e
        PROVE  FALSE
    BY <1>1, <2>1, <2>2 DEF ClaimsInv, ReadInPast, ClaimsTypeOK, LeaseExpired, Row
  <2>3. ~(row[e].expires_at < now)
    BY <1>1, <2>1 DEF Row
  <2>4. PICK i \in Invocation :
          /\ target[i] = e /\ OwnsRow(i)
          /\ \/ pc[i] = "held" /\ pc' \in {[pc EXCEPT ![i] = "done"], [pc EXCEPT ![i] = "failed"]}
             \/ pc[i] = "failed" /\ End(i)
    BY <1>1, <2>1, <2>2, <2>3, RecordStep
  <2> QED
    BY <2>1, <2>4 DEF OwnsRow, Claimed, End
<1>2. ASSUME ClaimsInv, [ClaimsNext]_claimsVars
      PROVE  [\A e \in Event :
                row[e].status = "inflight" /\ now <= row[e].lease_until /\ row'[e] # row[e]
                  => \E i \in Invocation :
                       i = row[e].lease_token /\ target[i] = e /\ Claimed(i)
                       /\ pc'[i] # pc[i]]_claimsVars
  BY <1>1, <1>2
<1> QED
  BY <1>2, ClaimsInvariant, PTL DEF ClaimsSpec, RunningLeaseFenced

(* A completed record is changed by nothing but the table's TTL, so that a *)
(* completed event is claimed again only after Retention.                  *)
THEOREM CompletionIsFinal == ClaimsSpec => CompletedIsFinal
<1>1. ASSUME ClaimsInv, [ClaimsNext]_claimsVars, NEW e \in Event,
             row[e].status = "completed", row'[e] # row[e]
      PROVE  row[e].expires_at < now /\ row'[e] = Absent
  <2>1. ClaimsTypeOK
    BY <1>1 DEF ClaimsInv
  <2>2. row[e].expires_at < now /\ row' = [row EXCEPT ![e] = Absent]
    BY <1>1, <2>1, RecordStep DEF LeaseExpired, OwnsRow
  <2> QED
    BY <2>1, <2>2 DEF ClaimsTypeOK
<1>2. ASSUME ClaimsInv, [ClaimsNext]_claimsVars
      PROVE  [\A e \in Event :
                row[e].status = "completed" /\ row'[e] # row[e]
                  => row[e].expires_at < now /\ row'[e] = Absent]_claimsVars
  BY <1>1, <1>2
<1> QED
  BY <1>2, ClaimsInvariant, PTL DEF ClaimsSpec, CompletedIsFinal

-----------------------------------------------------------------------------
(* The table implements the ledger *)

(* What the ledger shows of a record, and of the table. *)
Shown(r) ==
  [state |-> LedgerState[r.status], owner |-> r.lease_token,
   leaseEnd |-> r.lease_until, keptUntil |-> r.expires_at]

ShownLedger == [e \in Event |-> Shown(row[e])]

LEMMA LedgerRecordStep ==
  ASSUME ClaimsInv, [ClaimsNext]_claimsVars, NEW e \in Event, row'[e] # row[e]
  PROVE  Ledger!LedgerNext
<1>1. ClaimsTypeOK /\ ReadInPast /\ now \in Nat /\ row[e] \in Row
  BY DEF ClaimsInv, ClaimsTypeOK
<1>2. ASSUME NEW i \in Invocation, target[i] = e, readAt' = readAt, now' = now,
             row[e].status = "absent" \/ LeaseExpired(i),
             row' = [row EXCEPT ![e] = ClaimRow(i)]
      PROVE  Ledger!Claim(i, e)
  <2>1. \/ ShownLedger[e].state = "free"
        \/ ShownLedger[e].state = "claimed" /\ ShownLedger[e].leaseEnd < now
    <3>1. row[e].status = "absent" => ShownLedger[e].state = "free"
      BY DEF ShownLedger, Shown, LedgerState
    <3>2. LeaseExpired(i) => ShownLedger[e].state = "claimed"
      BY <1>2 DEF ShownLedger, Shown, LedgerState, LeaseExpired
    <3>3. LeaseExpired(i) => row[e].lease_until < now
      BY <1>1, <1>2 DEF LeaseExpired, ReadInPast, ClaimsTypeOK, Row
    <3>4. ShownLedger[e].leaseEnd = row[e].lease_until
      BY DEF ShownLedger, Shown
    <3> QED
      BY <1>2, <3>1, <3>2, <3>3, <3>4
  <2>2. readAt[i] \in 0..now
    BY <1>1 DEF ReadInPast, ClaimsTypeOK
  <2>3. ShownLedger' = [ShownLedger EXCEPT ![e] =
          [state |-> "claimed", owner |-> i,
           leaseEnd |-> readAt[i] + Lease, keptUntil |-> readAt[i] + Retention]]
    <3>1. Shown(ClaimRow(i)) =
            [state |-> "claimed", owner |-> i,
             leaseEnd |-> readAt[i] + Lease, keptUntil |-> readAt[i] + Retention]
      BY DEF Shown, ClaimRow, LedgerState
    <3>2. ShownLedger' = [ShownLedger EXCEPT ![e] = Shown(ClaimRow(i))]
      BY <1>1, <1>2 DEF ShownLedger, ClaimsTypeOK
    <3> QED
      BY <3>1, <3>2
  <2> QED
    BY <1>2, <2>1, <2>2, <2>3 DEF Ledger!Claim, ShownLedger, Shown
<1>3. ASSUME NEW i \in Invocation, target[i] = e, now' = now, OwnsRow(i),
             row' = [row EXCEPT ![e] = CompletedRow(i)]
      PROVE  Ledger!Complete(i, e)
  <2>1. ShownLedger[e].state = "claimed" /\ ShownLedger[e].owner = i
    BY <1>3 DEF OwnsRow, ShownLedger, Shown, LedgerState
  <2>2. ShownLedger' = [ShownLedger EXCEPT ![e] = Shown(CompletedRow(i))]
    BY <1>1, <1>3 DEF ShownLedger, ClaimsTypeOK
  <2>3. Shown(CompletedRow(i)) =
          [state |-> "completed", owner |-> None, leaseEnd |-> 0,
           keptUntil |-> ShownLedger[e].keptUntil]
    BY <1>3 DEF ShownLedger, Shown, CompletedRow, LedgerState
  <2> QED
    BY <1>3, <2>1, <2>2, <2>3 DEF Ledger!Complete, ShownLedger, Shown
<1>4. ASSUME row' = [row EXCEPT ![e] = Absent]
      PROVE  ShownLedger' = [ShownLedger EXCEPT ![e] = Ledger!Free]
  <2>1. Shown(Absent) = Ledger!Free
    BY DEF Shown, Absent, LedgerState, Ledger!Free
  <2> QED
    BY <1>1, <1>4, <2>1 DEF ShownLedger, ClaimsTypeOK
<1>5. ASSUME NEW i \in Invocation, target[i] = e, now' = now, OwnsRow(i),
             row' = [row EXCEPT ![e] = Absent]
      PROVE  Ledger!Release(i, e)
  <2>1. ShownLedger[e].state = "claimed" /\ ShownLedger[e].owner = i
    BY <1>5 DEF OwnsRow, ShownLedger, Shown, LedgerState
  <2> QED
    BY <1>4, <1>5, <2>1 DEF Ledger!Release, ShownLedger, Shown
<1>6. ASSUME row[e].status # "absent", row[e].expires_at < now, now' = now,
             row' = [row EXCEPT ![e] = Absent]
      PROVE  Ledger!Forget(e)
  <2>1. ShownLedger[e].state # "free"
    BY <1>1, <1>6 DEF ShownLedger, Shown, LedgerState, Row
  <2>2. ShownLedger[e].keptUntil < now
    BY <1>6 DEF ShownLedger, Shown
  <2> QED
    BY <1>4, <1>6, <2>1, <2>2 DEF Ledger!Forget, ShownLedger, Shown
<1> QED
  BY <1>1, <1>2, <1>3, <1>5, <1>6, RecordStep DEF Ledger!LedgerNext

(* The table implements the ledger: the reading of the clock, the put and  *)
(* the update of claim_event, whatever comes between them, look like one   *)
(* atomic claim, and the other conditional writes like one step each.      *)
THEOREM TableImplementsLedger == ClaimsSpec => ImplementsLedger
<1>1. ClaimsInit => Ledger!LedgerInit
  <2> SUFFICES ASSUME ClaimsInit PROVE Ledger!LedgerInit
    OBVIOUS
  <2>1. Shown(Absent) = Ledger!Free
    BY DEF Shown, Absent, LedgerState, Ledger!Free
  <2>2. ShownLedger = [e \in Event |-> Ledger!Free]
    BY <2>1 DEF ClaimsInit, ShownLedger
  <2> QED
    BY <2>2 DEF ClaimsInit, Ledger!LedgerInit, ShownLedger, Shown
<1>2. ClaimsInv /\ [ClaimsNext]_claimsVars => [Ledger!LedgerNext]_Ledger!ledgerVars
  <2> SUFFICES ASSUME ClaimsInv, ClaimsInv', [ClaimsNext]_claimsVars
               PROVE  Ledger!LedgerNext \/ UNCHANGED Ledger!ledgerVars
    BY ClaimsInvStep
  <2>1. CASE row' # row
    <3>1. PICK e \in Event : row'[e] # row[e]
      BY <2>1 DEF ClaimsInv, ClaimsTypeOK
    <3> QED
      BY <3>1, LedgerRecordStep
  <2>2. CASE row' = row /\ now' = now + 1
    BY <2>2 DEF Ledger!LedgerNext, Ledger!Pass
  <2>3. CASE row' = row /\ now' = now
    BY <2>3 DEF Ledger!ledgerVars
  <2> QED
    BY <2>1, <2>2, <2>3, ClockStep
<1> QED
  BY <1>1, <1>2, ClaimsInvariant, PTL DEF ClaimsSpec, ImplementsLedger, Ledger!LedgerSpec
=============================================================================
