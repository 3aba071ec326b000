---------------------------- MODULE EventService ----------------------------
(***************************************************************************)
(* What the Slack path promises of each event, as somebody sees it who     *)
(* knows of no queue, no lease and no invocation: the flow of "Slack       *)
(* bidirectional" in docs/design.md, from the 200 that Slack gets to the   *)
(* reply in the thread.                                                    *)
(*                                                                         *)
(* An event that was accepted is pending until it is completed or given    *)
(* up, and it is given up in the dead-letter queue only.  Attempts at the  *)
(* events of a thread are made one after the other; an attempt replies at  *)
(* most once, and either completes the event or counts as a failure.       *)
(***************************************************************************)
EXTENDS Naturals

CONSTANTS
  Event,       \* what Slack delivers
  ThreadOf,    \* the thread of each event
  MustAnswer   \* the events that are addressed to the bot

VARIABLES
  stage,       \* what became of each event
  attempt,     \* how far the current attempt at it is
  replies,     \* how many replies to it were begun
  failures     \* how many attempts at it failed

serviceVars == <<stage, attempt, replies, failures>>

ServiceTypeOK ==
  /\ stage \in [Event -> {"new", "pending", "completed", "dead"}]
  /\ attempt \in [Event -> {"none", "begun", "answered"}]
  /\ replies \in [Event -> Nat]
  /\ failures \in [Event -> Nat]

ServiceInit ==
  /\ stage = [e \in Event |-> "new"]
  /\ attempt = [e \in Event |-> "none"]
  /\ replies = [e \in Event |-> 0]
  /\ failures = [e \in Event |-> 0]

(* An event is accepted, perhaps once more after it was given up. *)
Accept(e) ==
  /\ stage[e] \in {"new", "dead"}
  /\ stage' = [stage EXCEPT ![e] = "pending"]
  /\ UNCHANGED <<attempt, replies, failures>>

Begin(e) ==
  /\ stage[e] = "pending"
  /\ \A d \in Event : ThreadOf[d] = ThreadOf[e] => attempt[d] = "none"
  /\ attempt' = [attempt EXCEPT ![e] = "begun"]
  /\ UNCHANGED <<stage, replies, failures>>

Answer(e) ==
  /\ attempt[e] = "begun"
  /\ attempt' = [attempt EXCEPT ![e] = "answered"]
  /\ replies' = [replies EXCEPT ![e] = @ + 1]
  /\ UNCHANGED <<stage, failures>>

(* What is addressed to the bot is not completed without a reply. *)
Finish(e) ==
  /\ stage[e] = "pending"
  /\ attempt[e] = "answered" \/ (attempt[e] = "begun" /\ e \notin MustAnswer)
  /\ stage' = [stage EXCEPT ![e] = "completed"]
  /\ attempt' = [attempt EXCEPT ![e] = "none"]
  /\ UNCHANGED <<replies, failures>>

(* An attempt fails, before it replied, while it did so, or after.         *)
FailAttempt(e) ==
  /\ attempt[e] # "none"
  /\ attempt' = [attempt EXCEPT ![e] = "none"]
  /\ failures' = [failures EXCEPT ![e] = @ + 1]
  /\ \/ UNCHANGED replies
     \/ attempt[e] = "begun" /\ replies' = [replies EXCEPT ![e] = @ + 1]
  /\ UNCHANGED stage

GiveUp(e) ==
  /\ stage[e] = "pending"
  /\ attempt[e] = "none"
  /\ stage' = [stage EXCEPT ![e] = "dead"]
  /\ UNCHANGED <<attempt, replies, failures>>

ServiceNext ==
  \E e \in Event :
    Accept(e) \/ Begin(e) \/ Answer(e) \/ Finish(e) \/ FailAttempt(e) \/ GiveUp(e)

ServiceSpec == ServiceInit /\ [][ServiceNext]_serviceVars
=============================================================================
