---------------------------- MODULE EventLedger ----------------------------
(***************************************************************************)
(* What the worker needs from its state store: the promise behind          *)
(* SlackStateStore (core.py), in the terms of its reference implementation *)
(* InMemorySlackState, plus the lease that production adds to it.          *)
(*                                                                         *)
(* An event is free, claimed by one invocation, or completed.  A claim is  *)
(* taken in one atomic step, ends only by its owner or, once its lease has *)
(* run out, by another claim; a completed event stays completed for as     *)
(* long as records are retained.                                           *)
(***************************************************************************)
EXTENDS Naturals

CONSTANTS
  Event,       \* (tenant, event_id) pairs
  Invocation,  \* runs of the worker; each one claims at most one event
  Lease,       \* how long a claim protects its event
  Retention,   \* how long a record is kept
  None         \* no invocation

VARIABLES
  now,         \* the clock
  ledger       \* what is recorded of every event

ledgerVars == <<now, ledger>>

Record ==
  [state: {"free", "claimed", "completed"}, owner: Invocation \cup {None},
   leaseEnd: Nat, keptUntil: Nat]

Free == [state |-> "free", owner |-> None, leaseEnd |-> 0, keptUntil |-> 0]

LedgerTypeOK ==
  /\ now \in Nat
  /\ ledger \in [Event -> Record]

LedgerInit ==
  /\ now = 0
  /\ ledger = [e \in Event |-> Free]

(* claim_event returning True.  The lease never outlasts the claim's own   *)
(* Lease, counted from a moment that is not in the future.                 *)
Claim(i, e) ==
  /\ \/ ledger[e].state = "free"
     \/ ledger[e].state = "claimed" /\ ledger[e].leaseEnd < now
  /\ \E t \in 0..now :
       ledger' = [ledger EXCEPT ![e] =
         [state |-> "claimed", owner |-> i,
          leaseEnd |-> t + Lease, keptUntil |-> t + Retention]]
  /\ UNCHANGED now

(* complete_event: only the owner completes. *)
Complete(i, e) ==
  /\ ledger[e].state = "claimed"
  /\ ledger[e].owner = i
  /\ ledger' = [ledger EXCEPT ![e] =
       [state |-> "completed", owner |-> None, leaseEnd |-> 0,
        keptUntil |-> ledger[e].keptUntil]]
  /\ UNCHANGED now

(* release_event: only the owner gives a claim back. *)
Release(i, e) ==
  /\ ledger[e].state = "claimed"
  /\ ledger[e].owner = i
  /\ ledger' = [ledger EXCEPT ![e] = Free]
  /\ UNCHANGED now

(* Records are dropped only after their retention. *)
Forget(e) ==
  /\ ledger[e].state # "free"
  /\ ledger[e].keptUntil < now
  /\ ledger' = [ledger EXCEPT ![e] = Free]
  /\ UNCHANGED now

Pass ==
  /\ now' = now + 1
  /\ UNCHANGED ledger

LedgerNext ==
  \/ \E i \in Invocation, e \in Event : Claim(i, e) \/ Complete(i, e) \/ Release(i, e)
  \/ \E e \in Event : Forget(e)
  \/ Pass

LedgerSpec == LedgerInit /\ [][LedgerNext]_ledgerVars
=============================================================================
