---------------------------- MODULE SlackEvents ----------------------------
(***************************************************************************)
(* The Slack Events path: Slack delivers signed events to the ingress      *)
(* Lambda, which queues them in a FIFO queue; the worker Lambda claims     *)
(* each event in the table (EventClaims), works out the reply and posts    *)
(* it.  core.py (ingress_response, SlackWorker), worker.py, ingress.py and *)
(* the wiring of modules/slack-oauth-callback/main.tf.                     *)
(*                                                                         *)
(* An invocation is the pair of a message and the number of its receive.   *)
(* step[i] is where SlackWorker.process is; pc[i], of EventClaims, is      *)
(* where its claim is.                                                     *)
(*                                                                         *)
(* Simplifications:                                                        *)
(*  - one agent, one channel: Ts is the set of message timestamps, and a   *)
(*    thread is named by the timestamp of its root;                        *)
(*  - the text of an event is what is left of it once the mention is       *)
(*    stripped: nothing, /help (or /start), /new, or something to say;     *)
(*  - signatures, SSM reads and routing checks either pass or raise, and   *)
(*    the events are those for which normalized_event has an envelope;     *)
(*  - the window considered is shorter than the records' retention, so no  *)
(*    record expires (EventClaims has that step).                          *)
(***************************************************************************)
EXTENDS EventClaims

CONSTANTS
  Ts,             \* timestamps of Slack messages, which name threads
  Payload,        \* what each event says
  MaxDeliveries,  \* how often Slack tries to deliver each event
  LastDelivery,   \* bound of the time at which Slack still delivers
  WorkerTimeout,  \* events_worker_timeout_seconds
  MaxMessages, MaxReceive, DedupWindow,  \* see FifoQueue
  PollDelay,      \* bound of the time a message that can be received waits
  ResentWrites    \* whether a conditional write may be applied and sent again

VARIABLES
  slack,        \* per event, Slack's deliveries and whether one was answered 200
  msg,          \* the queue
  started,      \* when each invocation began
  step,         \* where each invocation is in process
  threads,      \* register_thread: the threads opened by a mention
  session,      \* set_active_session: the /new event that named a thread's session
  using,        \* the session an invocation read for its call of the Harness
  posts,        \* history: replies begun per event
  aborts,       \* history: attempts per event that claimed it and did not finish
  otherFault    \* history: events with a failure other than a status call's

INSTANCE FifoQueue

workVars == <<threads, session, posts>>
localVars == <<started, step, using>>
historyVars == <<aborts, otherFault>>
vars == <<claimsVars, slack, msg, localVars, workVars, historyVars>>

Envelope ==
  [type: {"app_mention", "message"}, channel_type: {"im", "channel"}, bot: BOOLEAN,
   ts: Ts, thread_ts: Ts \cup {None}, text: {"empty", "help", "new", "talk"}]

ASSUME SlackEventsAssumption ==
  /\ Payload \in [Event -> Envelope]
  /\ None \notin Ts
  /\ MaxDeliveries \in [Event -> Nat]
  /\ LastDelivery \in Nat
  /\ WorkerTimeout \in Nat \ {0}
  /\ MaxMessages \in Nat
  /\ MaxReceive \in Nat
  /\ DedupWindow \in Nat
  /\ PollDelay \in Nat
  /\ ResentWrites \in BOOLEAN
  /\ Invocation = MessageId \X (1..MaxReceive)

(* A plausible slip: the message is hidden just as long as a worker runs. *)
VisibilityUnscaled == WorkerTimeout

(* visibility_timeout_seconds of the queue. *)
Visibility == WorkerTimeout * 6

(* dispatch groups by thread_ts or ts; _message answers in thread_ts or ts. *)
Thread(e) ==
  IF Payload[e].thread_ts # None THEN Payload[e].thread_ts ELSE Payload[e].ts

IsDirect(e) == Payload[e].type = "message" /\ Payload[e].channel_type = "im"
IsMention(e) == Payload[e].type = "app_mention"
IsFollowup(e) ==
  /\ Payload[e].type = "message"
  /\ Payload[e].channel_type = "channel"
  /\ Payload[e].thread_ts # None

(* The events _message gives up on before it looks at the table. *)
Ignored(e) ==
  \/ Payload[e].bot
  \/ ~(IsDirect(e) \/ IsMention(e) \/ IsFollowup(e))
  \/ Payload[e].text = "empty"

MessageOf(i) == i[1]
ReceiveOf(i) == i[2]
EventOf(i) == msg[MessageOf(i)].id

(* route     started, before process claims the event
   claim     inside claim_event
   message   claimed, about to run _message
   reply     about to run _reply
   invoke    _reply is about to call the Harness
   post      about to post the reply
   complete  about to complete the event
   skip      about to complete an event that has no message
   clear     an exception with a message: about to clear the status
   release   an exception: about to release the claim
   return    about to return, so that the message is deleted
   end       over                                                          *)
Step == {"idle", "route", "claim", "message", "reply", "invoke", "post", "complete",
         "skip", "clear", "release", "return", "end"}

Running(i) == step[i] \notin {"idle", "end"}
Working(i) == step[i] \in {"message", "reply", "invoke", "post", "complete", "skip"}

Goto(i, s) ==
  /\ step' = [step EXCEPT ![i] = s]
  /\ UNCHANGED <<started, using>>

(* The invocation is over; its message is left as it is. *)
EndStep(i) ==
  /\ step' = [step EXCEPT ![i] = "end"]
  /\ started' = [started EXCEPT ![i] = 0]
  /\ using' = [using EXCEPT ![i] = None]

-----------------------------------------------------------------------------
(* Slack and the ingress *)

SlackDelivers(e) ==
  /\ ~slack[e].answered
  /\ slack[e].tries < MaxDeliveries[e]
  /\ now <= LastDelivery

(* ingress_response raises, or the ingress is cut off, before the dispatch: *)
(* Slack sees no 200.                                                       *)
IngressFails(e) ==
  /\ SlackDelivers(e)
  /\ slack' = [slack EXCEPT ![e].tries = @ + 1]
  /\ UNCHANGED <<claimsVars, msg, localVars, workVars, historyVars>>

(* A plausible slip: the message group is named by the message, not by its *)
(* thread.                                                                 *)
IngressByTs(e) ==
  /\ SlackDelivers(e)
  /\ SendMessage(e, Payload[e].ts, now)
  /\ \E heard \in BOOLEAN :
       slack' = [slack EXCEPT ![e].tries = @ + 1, ![e].answered = heard]
  /\ UNCHANGED <<claimsVars, localVars, workVars, historyVars>>

(* ingress_response dispatches the envelope; its 200 reaches Slack or not. *)
Ingress(e) ==
  /\ SlackDelivers(e)
  /\ SendMessage(e, Thread(e), now)
  /\ \E heard \in BOOLEAN :
       slack' = [slack EXCEPT ![e].tries = @ + 1, ![e].answered = heard]
  /\ UNCHANGED <<claimsVars, localVars, workVars, historyVars>>

-----------------------------------------------------------------------------
(* The worker, SlackWorker.process *)

Receive(m) ==
  /\ ReceiveMessage(m, now, Visibility)
  /\ LET i == <<m, msg[m].received + 1>>
     IN  /\ started' = [started EXCEPT ![i] = now]
         /\ step' = [step EXCEPT ![i] = "route"]
  /\ UNCHANGED <<claimsVars, slack, using, workVars, historyVars>>

Redrive(m) ==
  /\ DeadLetter(m, now)
  /\ UNCHANGED <<claimsVars, slack, localVars, workVars, historyVars>>

(* An attempt ends early; one that was working on its claim is counted. *)
Abort(i) ==
  aborts' = IF Working(i) THEN [aborts EXCEPT ![EventOf(i)] = @ + 1] ELSE aborts

OtherFault(i) == otherFault' = otherFault \cup {EventOf(i)}

(* _process_record finds the agent, its harness and its bot token. *)
Route(i) ==
  /\ step[i] = "route"
  /\ ClaimEvent(i, EventOf(i))
  /\ Goto(i, "claim")
  /\ UNCHANGED <<slack, msg, workVars, historyVars>>

RouteFails(i) ==
  /\ step[i] = "route"
  /\ EndStep(i)
  /\ Abort(i)
  /\ OtherFault(i)
  /\ UNCHANGED <<claimsVars, slack, msg, workVars>>

(* A plausible slip: process goes on when claim_event is False. *)
TryClaimIgnored(i) ==
  /\ step[i] = "claim"
  /\ \/ ClaimPut(i)
     \/ ResentWrites /\ ClaimPutResent(i)
     \/ ClaimUpdate(i)
     \/ ResentWrites /\ ClaimUpdateResent(i)
  /\ Goto(i, IF pc'[i] \in {"held", "refused"} THEN "message" ELSE "claim")
  /\ UNCHANGED <<slack, msg, workVars, historyVars>>

(* claim_event.  False returns at once, and the message is deleted. *)
TryClaim(i) ==
  /\ step[i] = "claim"
  /\ \/ ClaimPut(i)
     \/ ResentWrites /\ ClaimPutResent(i)
     \/ ClaimUpdate(i)
     \/ ResentWrites /\ ClaimUpdateResent(i)
  /\ Goto(i, CASE pc'[i] = "held" -> "message"
               [] pc'[i] = "refused" -> "return"
               [] OTHER -> "claim")
  /\ UNCHANGED <<slack, msg, workVars, historyVars>>

(* _message: a mention opens its thread, and other channel messages count  *)
(* only in a thread that is open.                                          *)
Message(i) ==
  LET e == EventOf(i)
  IN  /\ step[i] = "message"
      /\ \/ /\ ~Ignored(e) /\ IsMention(e)
            /\ threads' = threads \cup {Thread(e)}
            /\ Goto(i, "reply")
         \/ /\ ~Ignored(e) /\ ~IsMention(e)
            /\ IsDirect(e) \/ Thread(e) \in threads
            /\ Goto(i, "reply")
            /\ UNCHANGED threads
         \/ /\ Ignored(e) \/ ~(IsMention(e) \/ IsDirect(e) \/ Thread(e) \in threads)
            /\ Goto(i, "skip")
            /\ UNCHANGED threads
      /\ UNCHANGED <<claimsVars, slack, msg, session, posts, historyVars>>

(* A plausible slip: a command is carried out and completed, not answered. *)
ReplyUnanswered(i) ==
  /\ step[i] = "reply"
  /\ Payload[EventOf(i)].text \in {"help", "new"}
  /\ session' = [session EXCEPT ![Thread(EventOf(i))] =
                   IF Payload[EventOf(i)].text = "new" THEN EventOf(i) ELSE @]
  /\ Goto(i, "complete")
  /\ UNCHANGED <<claimsVars, slack, msg, threads, posts, historyVars>>

(* _reply up to the call of the Harness: a command is answered at once,    *)
(* /new first names the thread's session after its own message; anything   *)
(* else reads the session and sets the working status, and a status call   *)
(* that raises RuntimeError is passed over.                                *)
Reply(i) ==
  LET e == EventOf(i)
  IN  /\ step[i] = "reply"
      /\ \/ /\ Payload[e].text \in {"help", "new"}
            /\ session' = [session EXCEPT ![Thread(e)] =
                             IF Payload[e].text = "new" THEN e ELSE @]
            /\ Goto(i, "post")
         \/ /\ Payload[e].text = "talk"
            /\ using' = [using EXCEPT ![i] = session[Thread(e)]]
            /\ step' = [step EXCEPT ![i] = "invoke"]
            /\ UNCHANGED <<started, session>>
      /\ UNCHANGED <<claimsVars, slack, msg, threads, posts, historyVars>>

(* The Harness answers, or fails in a way that _reply turns into a safe    *)
(* text.                                                                   *)
Invoke(i) ==
  /\ step[i] = "invoke"
  /\ Goto(i, "post")
  /\ UNCHANGED <<claimsVars, slack, msg, workVars, historyVars>>

(* All chunks of the reply are posted. *)
Post(i) ==
  /\ step[i] = "post"
  /\ posts' = [posts EXCEPT ![EventOf(i)] = @ + 1]
  /\ Goto(i, "complete")
  /\ UNCHANGED <<claimsVars, slack, msg, threads, session, historyVars>>

(* Where process goes from an exception: only a message has a status. *)
Handler(i) ==
  IF step[i] \in {"message", "skip"} THEN "release" ELSE "clear"

Complete(i) ==
  /\ step[i] \in {"complete", "skip"}
  /\ \/ CompleteEvent(i)
     \/ ResentWrites /\ CompleteEventResent(i)
  /\ \/ pc'[i] = "done" /\ Goto(i, "return") /\ UNCHANGED historyVars
     \/ pc'[i] = "failed" /\ Goto(i, Handler(i)) /\ Abort(i) /\ OtherFault(i)
  /\ UNCHANGED <<slack, msg, workVars>>

(* A call on the way raises, before or after what it was to do (a write    *)
(* that was applied counts as done at the step before): the table, the     *)
(* Harness in a way _reply does not catch, chat.postMessage.               *)
Raise(i) ==
  /\ Working(i)
  /\ Fail(i)
  /\ Goto(i, Handler(i))
  /\ Abort(i)
  /\ OtherFault(i)
  /\ UNCHANGED <<slack, msg, workVars>>

(* chat.postMessage raises after it posted: a later chunk failed, or the   *)
(* response was lost.                                                      *)
PostRaises(i) ==
  /\ step[i] = "post"
  /\ posts' = [posts EXCEPT ![EventOf(i)] = @ + 1]
  /\ Fail(i)
  /\ Goto(i, "clear")
  /\ Abort(i)
  /\ OtherFault(i)
  /\ UNCHANGED <<slack, msg, threads, session>>

(* The call that sets the working status raises something other than       *)
(* RuntimeError, such as a connection closed before the response.          *)
StatusRaises(i) ==
  /\ step[i] = "reply"
  /\ Payload[EventOf(i)].text = "talk"
  /\ Fail(i)
  /\ Goto(i, "clear")
  /\ Abort(i)
  /\ UNCHANGED <<slack, msg, workVars, otherFault>>

(* The exception handler clears the status first. *)
Clear(i) ==
  /\ step[i] = "clear"
  /\ Goto(i, "release")
  /\ UNCHANGED <<claimsVars, slack, msg, workVars, historyVars>>

(* When that call raises something other than RuntimeError, the handler    *)
(* does not reach release_event.                                           *)
ClearRaises(i) ==
  /\ step[i] = "clear"
  /\ Crash(i)
  /\ EndStep(i)
  /\ UNCHANGED <<slack, msg, workVars, historyVars>>

(* A plausible slip: the exception is swallowed, and the message deleted. *)
ReleaseSwallowed(i) ==
  /\ step[i] = "release"
  /\ ReleaseEvent(i)
  /\ DeleteMessage(MessageOf(i))
  /\ EndStep(i)
  /\ UNCHANGED <<slack, workVars, historyVars>>

(* release_event, and the exception leaves the message in the queue. *)
Release(i) ==
  /\ step[i] = "release"
  /\ ReleaseEvent(i)
  /\ EndStep(i)
  /\ UNCHANGED <<slack, msg, workVars, historyVars>>

(* The invocation is cut off, or claim_event or release_event raises. *)
Stop(i) ==
  /\ Running(i)
  /\ Crash(i)
  /\ EndStep(i)
  /\ Abort(i)
  /\ OtherFault(i)
  /\ UNCHANGED <<slack, msg, workVars>>

(* A plausible slip: the event's record is removed once it is dealt with. *)
ReturnForgets(i) ==
  /\ step[i] = "return"
  /\ End(i)
  /\ row' = [row EXCEPT ![EventOf(i)] = Absent]
  /\ DeleteMessage(MessageOf(i))
  /\ EndStep(i)
  /\ UNCHANGED <<now, slack, workVars, historyVars>>

(* lambda_handler returns, and the message is deleted. *)
Return(i) ==
  /\ step[i] = "return"
  /\ Leave(i)
  /\ DeleteMessage(MessageOf(i))
  /\ EndStep(i)
  /\ UNCHANGED <<slack, workVars, historyVars>>

(* The invocation is over, but the message is not deleted. *)
ReturnLost(i) ==
  /\ step[i] = "return"
  /\ Leave(i)
  /\ EndStep(i)
  /\ OtherFault(i)
  /\ UNCHANGED <<slack, msg, workVars, aborts>>

(* Time passes; no invocation outlives the worker's timeout. *)
TimePasses ==
  /\ \A i \in Invocation : Running(i) => now < started[i] + WorkerTimeout
  /\ \A m \in MessageId : Front(m) => now < msg[m].visibleAt + PollDelay
  /\ Tick
  /\ UNCHANGED <<slack, msg, localVars, workVars, historyVars>>

-----------------------------------------------------------------------------

Init ==
  /\ ClaimsInit
  /\ QueueInit
  /\ slack = [e \in Event |-> [tries |-> 0, answered |-> FALSE]]
  /\ started = [i \in Invocation |-> 0]
  /\ step = [i \in Invocation |-> "idle"]
  /\ threads = {}
  /\ session = [t \in Ts |-> None]
  /\ using = [i \in Invocation |-> None]
  /\ posts = [e \in Event |-> 0]
  /\ aborts = [e \in Event |-> 0]
  /\ otherFault = {}

(* What the worker does when nothing goes wrong. *)
Work(i) ==
  \/ Route(i)
  \/ TryClaim(i)
  \/ Message(i)
  \/ Reply(i)
  \/ Invoke(i)
  \/ Post(i)
  \/ Complete(i)
  \/ Clear(i)
  \/ Release(i)
  \/ Return(i)

Trouble(i) ==
  \/ RouteFails(i)
  \/ Raise(i)
  \/ PostRaises(i)
  \/ StatusRaises(i)
  \/ ClearRaises(i)
  \/ Stop(i)
  \/ ReturnLost(i)

Next ==
  \/ \E e \in Event : Ingress(e) \/ IngressFails(e)
  \/ \E m \in MessageId : Receive(m) \/ Redrive(m)
  \/ \E i \in Invocation : Work(i) \/ Trouble(i)
  \/ TimePasses

Spec == Init /\ [][Next]_vars

(* A running invocation goes on until it ends, the event source mapping    *)
(* polls, the redrive policy is applied, and time passes.  Slack need not  *)
(* deliver anything, and nothing need go wrong.                            *)
Fairness ==
  /\ \A i \in Invocation : WF_vars(Work(i))
  /\ \A m \in MessageId : WF_vars(Receive(m)) /\ WF_vars(Redrive(m))
  /\ WF_vars(TimePasses)

FairSpec == Spec /\ Fairness

-----------------------------------------------------------------------------
(* Properties *)

MessageRecord ==
  [id: Event \cup {None}, group: Ts \cup {None},
   status: {"unused", "queued", "deleted", "dead"}, sentAt: Nat, received: Nat,
   visibleAt: Nat]

TypeOK ==
  /\ ClaimsTypeOK
  /\ slack \in [Event -> [tries: Nat, answered: BOOLEAN]]
  /\ msg \in [MessageId -> MessageRecord]
  /\ \A m \in MessageId : ~Unused(m) => msg[m].id \in Event
  /\ started \in [Invocation -> Nat]
  /\ step \in [Invocation -> Step]
  /\ threads \subseteq Ts
  /\ session \in [Ts -> Event \cup {None}]
  /\ using \in [Invocation -> Event \cup {None}]
  /\ posts \in [Event -> Nat]
  /\ aborts \in [Event -> Nat]
  /\ otherFault \subseteq Event

CompletedEvent(e) == row[e].status = "completed"

(* An event that Slack saw answered with 200 is never dropped: it is       *)
(* completed, dead-lettered, or still queued.  A claim refused because of  *)
(* a crashed attempt's lease would delete the message of an unanswered     *)
(* event: the lease must be over before the message can be seen again.     *)
NoSilentLoss ==
  \A e \in Event :
    slack[e].answered =>
      \/ CompletedEvent(e)
      \/ \E m \in MessageId : msg[m].id = e /\ (Queued(m) \/ DeadLettered(m))

(* An abandoned claim is not the end of its event: as long as the record   *)
(* says inflight, somebody works on it, or a message of the event is left  *)
(* to reclaim it, or to be found in the dead-letter queue.                 *)
AbandonedClaimRecoverable ==
  \A e \in Event :
    row[e].status = "inflight" =>
      \E m \in MessageId : msg[m].id = e /\ (Queued(m) \/ DeadLettered(m))

(* Nobody takes an event away from the invocation that works on it, even   *)
(* when its lease runs out first: complete_event's token condition fails   *)
(* for no invocation that is still running.                                *)
WorkingUnderClaim ==
  \A i \in Invocation : Working(i) => OwnsRow(i)

(* Two invocations never run in the same thread at a time, so the table's  *)
(* thread and session records are read and written by one of them.         *)
OneWorkerPerThread ==
  \A i, j \in Invocation :
    i # j /\ Running(i) /\ Running(j) => Thread(EventOf(i)) # Thread(EventOf(j))

(* Deliveries that Slack repeats, messages that are queued twice and       *)
(* messages that are received again cost no reply: an event is answered a  *)
(* second time only after an attempt that failed under its claim.          *)
RepliesBounded ==
  \A e \in Event : posts[e] <= 1 + aborts[e]

(* Once an event is completed, nothing posts for it or makes its /new the  *)
(* thread's session again.                                                 *)
CompletedActsOnce ==
  [][\A e \in Event :
       CompletedEvent(e) =>
         /\ CompletedEvent(e)'
         /\ posts'[e] = posts[e]
         /\ \A t \in Ts : session'[t] = e => session[t] = e]_vars

(* The session read from the table is still the thread's session when the  *)
(* Harness is called with it, after the status call in between.            *)
InvokeUsesCurrentSession ==
  \A i \in Invocation :
    step[i] = "invoke" => using[i] = session[Thread(EventOf(i))]

(* A reply to a mention's thread is dropped for want of the thread's       *)
(* record only when no mention queued before it was finished with: one     *)
(* that is still to come is behind it, or was dead-lettered.               *)
FollowupsFindTheirThread ==
  \A i \in Invocation, m \in MessageId :
    LET e == EventOf(i)
        a == msg[m].id
    IN  /\ step[i] = "skip" /\ ~Ignored(e)
        /\ m < MessageOf(i) /\ msg[m].group = Thread(e)
        /\ IsMention(a) /\ ~Ignored(a)
        => DeadLettered(m)

(* The session of a thread is that of the last /new in the queue's order:  *)
(* one that was answered and completed is replaced only by a message that  *)
(* was queued after it.                                                    *)
SessionOfLatestNew ==
  \A e \in Event :
    LET s == session[Thread(e)]
    IN  Payload[e].text = "new" /\ posts[e] > 0 /\ CompletedEvent(e) /\ s # e
        => \E k, m \in MessageId :
             msg[k].id = e /\ msg[m].id = s /\ k < m

(* Every event Slack saw answered is completed or dead-lettered in the     *)
(* end, whatever goes wrong on the way.                                    *)
Settled(e) ==
  \/ CompletedEvent(e)
  \/ \E m \in MessageId : msg[m].id = e /\ DeadLettered(m)

EveryEventSettles ==
  \A e \in Event : slack[e].answered ~> Settled(e)

(* Calls that set or clear the status never cost an event its reply: a     *)
(* dead-lettered event had a failure of another kind.                      *)
StatusIsBestEffort ==
  \A m \in MessageId : DeadLettered(m) => msg[m].id \in otherFault

(* The path uses the claims only through their operations, so what         *)
(* EventClaims establishes holds of it.                                    *)
ImplementsClaims == ClaimsSpec

(* Seen from outside, the path is a service: queue, leases, retries and    *)
(* crashes amount to attempts at pending events, one at a time in each     *)
(* thread, that reply at most once and then complete the event or fail.    *)
EventStage(e) ==
  IF CompletedEvent(e) THEN "completed"
  ELSE IF \E m \in MessageId : msg[m].id = e /\ Queued(m) THEN "pending"
  ELSE IF \E m \in MessageId : msg[m].id = e /\ DeadLettered(m) THEN "dead"
  ELSE "new"

EventAttempt(e) ==
  IF \E i \in Invocation : step[i] = "complete" /\ EventOf(i) = e THEN "answered"
  ELSE IF \E i \in Invocation : Working(i) /\ EventOf(i) = e THEN "begun"
  ELSE "none"

Addressed(e) == ~Ignored(e) /\ (IsDirect(e) \/ IsMention(e))

Service == INSTANCE EventService WITH
  ThreadOf <- [e \in Event |-> Thread(e)],
  MustAnswer <- {e \in Event : Addressed(e)},
  stage <- [e \in Event |-> EventStage(e)],
  attempt <- [e \in Event |-> EventAttempt(e)],
  replies <- posts,
  failures <- aborts

ImplementsService == Service!ServiceSpec
=============================================================================
