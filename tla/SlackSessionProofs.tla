------------------------ MODULE SlackSessionProofs ------------------------
(***************************************************************************)
(* What the worker does once it has claimed an event: the replies it       *)
(* posts, the session it calls the Harness with, and the thread and        *)
(* session records it leaves, for any conversation and any number of       *)
(* deliveries, messages and receives.                                      *)
(*                                                                         *)
(* All of it follows from two facts of the other proofs: an invocation     *)
(* that works on an event owns its record (WorkingUnderClaim), and it is   *)
(* alone in its thread (Alone).  FollowupsFindTheirThread and the last     *)
(* part, that the path implements EventService, also need the facts of the *)
(* deployment that SlackRecoveryProofs names.                              *)
(***************************************************************************)
EXTENDS SlackRecoveryProofs

-----------------------------------------------------------------------------
(* Who changes what *)

(* A reply is begun by an invocation that is about to post it, and a       *)
(* thread's session is replaced by a /new that is about to be answered.    *)
LEMMA EffectStep ==
  ASSUME TypeOK, InFlight, NEW i \in Invocation, Work(i) \/ Trouble(i)
  PROVE  /\ \/ posts' = posts
            \/ /\ step[i] = "post" /\ (Post(i) \/ PostRaises(i))
               /\ posts' = [posts EXCEPT ![EventOf(i)] = @ + 1]
         /\ \/ session' = session
            \/ /\ step[i] = "reply" /\ Reply(i) /\ Payload[EventOf(i)].text = "new"
               /\ session' = [session EXCEPT ![Thread(EventOf(i))] = EventOf(i)]
         /\ \/ threads' = threads
            \/ /\ step[i] = "message" /\ Message(i) /\ IsMention(EventOf(i))
               /\ threads' = threads \cup {Thread(EventOf(i))}
         /\ aborts' = aborts \/ aborts' = [aborts EXCEPT ![EventOf(i)] = @ + 1]
<1>1. EventOf(i) \in Event /\ Thread(EventOf(i)) \in Ts
  BY RunningMessage, WorkerFrame, ThreadType
<1>2. CASE Reply(i)
  <2>1. /\ posts' = posts /\ threads' = threads /\ aborts' = aborts /\ step[i] = "reply"
        /\ \/ session' = session
           \/ session' = [session EXCEPT ![Thread(EventOf(i))] =
                            IF Payload[EventOf(i)].text = "new" THEN EventOf(i) ELSE @]
    BY <1>2 DEF Reply, historyVars
  <2>2. Payload[EventOf(i)].text # "new" =>
          [session EXCEPT ![Thread(EventOf(i))] =
             IF Payload[EventOf(i)].text = "new" THEN EventOf(i) ELSE @] = session
    BY <1>1 DEF TypeOK
  <2>3. Payload[EventOf(i)].text = "new" =>
          [session EXCEPT ![Thread(EventOf(i))] =
             IF Payload[EventOf(i)].text = "new" THEN EventOf(i) ELSE @]
            = [session EXCEPT ![Thread(EventOf(i))] = EventOf(i)]
    OBVIOUS
  <2> QED
    BY <1>2, <2>1, <2>2, <2>3
<1>3. CASE Post(i) \/ PostRaises(i)
  BY <1>3 DEF Post, PostRaises, Abort, historyVars
<1>4. CASE Message(i)
  BY <1>4 DEF Message, historyVars
<1>5. CASE Route(i) \/ TryClaim(i) \/ Invoke(i) \/ Clear(i) \/ Release(i) \/ Return(i)
           \/ ClearRaises(i) \/ ReturnLost(i)
  BY <1>5 DEF Route, TryClaim, Invoke, Clear, Release, Return, ClearRaises, ReturnLost,
     workVars, historyVars
<1>6. CASE RouteFails(i) \/ Complete(i) \/ Raise(i) \/ StatusRaises(i) \/ Stop(i)
  BY <1>6 DEF RouteFails, Complete, Raise, StatusRaises, Stop, Abort, workVars, historyVars
<1> QED
  BY <1>2, <1>3, <1>4, <1>5, <1>6 DEF Work, Trouble

(* Nobody but a worker does any of that. *)
LEMMA EffectByWorker ==
  ASSUME [Next]_vars, ~ \E i \in Invocation : Work(i) \/ Trouble(i)
  PROVE  UNCHANGED <<threads, session, posts, aborts, using>>
BY DEF Next, Ingress, IngressFails, Receive, Redrive, TimePasses, workVars, historyVars,
   localVars, vars

(* The record of an event that is being worked on is inflight. *)
LEMMA WorkingInflight ==
  ASSUME PathInv, WorkingUnderClaim, NEW i \in Invocation, Working(i)
  PROVE  /\ Running(i) /\ EventOf(i) \in Event /\ target[i] = EventOf(i)
         /\ row[EventOf(i)].status = "inflight"
<1>1. TypeOK /\ InFlight /\ Sync /\ Running(i)
  BY DEF PathInv, Working, Running
<1>2. target[i] = EventOf(i)
  BY <1>1 DEF Sync
<1> QED
  BY <1>1, <1>2, RunningMessage DEF WorkingUnderClaim, OwnsRow

-----------------------------------------------------------------------------
(* A completed event is over *)

(* Once an event is completed, nothing posts for it or makes its /new the  *)
(* thread's session again, whatever Slack and the queue still deliver and  *)
(* with conditional writes that are sent again or not.                     *)
THEOREM CompletedEventsRest == Spec => CompletedActsOnce
<1>1. ASSUME PathInv, WorkingUnderClaim, [Next]_vars, NEW e \in Event, CompletedEvent(e)
      PROVE  /\ CompletedEvent(e)'
             /\ posts'[e] = posts[e]
             /\ \A t \in Ts : session'[t] = e => session[t] = e
  <2>1. TypeOK /\ InFlight
    BY <1>1 DEF PathInv
  <2>2. ASSUME NEW i \in Invocation, Work(i) \/ Trouble(i)
        PROVE  posts'[e] = posts[e] /\ \A t \in Ts : session'[t] = e => session[t] = e
    <3>1. CASE EventOf(i) = e
      <4>1. step[i] \notin {"post", "reply"}
        BY <1>1, <3>1, WorkingInflight DEF Working, CompletedEvent
      <4> QED
        BY <2>1, <2>2, <4>1, EffectStep
    <3>2. CASE EventOf(i) # e
      <4>1. posts'[e] = posts[e]
        BY <2>1, <2>2, <3>2, EffectStep DEF TypeOK
      <4>2. ASSUME NEW t \in Ts, session'[t] = e PROVE session[t] = e
        BY <2>1, <2>2, <3>2, <4>2, EffectStep DEF TypeOK
      <4> QED
        BY <4>1, <4>2
    <3> QED
      BY <3>1, <3>2
  <2> QED
    BY <1>1, <2>2, EffectByWorker, CompletedStays
<1>2. PathInv /\ WorkingUnderClaim /\ [Next]_vars
        => [\A e \in Event :
              CompletedEvent(e) =>
                /\ CompletedEvent(e)'
                /\ posts'[e] = posts[e]
                /\ \A t \in Ts : session'[t] = e => session[t] = e]_vars
  BY <1>1
<1> QED
  BY <1>2, PathInvariant, WorkIsClaimed, PTL DEF Spec, CompletedActsOnce

-----------------------------------------------------------------------------
(* Replies *)

(* Somebody posted for the event, and is about to complete it. *)
Posted(e) == \E i \in Invocation : step[i] = "complete" /\ EventOf(i) = e

(* A reply that no failed attempt accounts for is the one of the attempt   *)
(* that completed the event, or that is about to.                          *)
RepliesAccounted ==
  \A e \in Event :
    /\ posts[e] <= 1 + aborts[e]
    /\ CompletedEvent(e) \/ Posted(e) \/ posts[e] <= aborts[e]

(* An invocation that is about to complete its event does, or its attempt  *)
(* counts as failed.                                                       *)
LEMMA PostedStep ==
  ASSUME PathInv, WorkingUnderClaim, [Next]_vars, NEW i \in Invocation,
         step[i] = "complete", step'[i] # "complete"
  PROVE  /\ EventOf(i) \in Event /\ posts' = posts
         /\ \/ row'[EventOf(i)].status = "completed"
            \/ aborts' = [aborts EXCEPT ![EventOf(i)] = @ + 1]
<1>1. /\ TypeOK /\ InFlight /\ Working(i) /\ EventOf(i) \in Event
      /\ target[i] = EventOf(i)
  BY WorkingInflight DEF PathInv, Working
<1>2. Work(i) \/ Trouble(i)
  BY OwnStep
<1>3. posts' = posts
  BY <1>1, <1>2, EffectStep
<1>4. Complete(i) \/ Raise(i) \/ Stop(i)
  BY <1>2 DEF Work, Trouble, Route, TryClaim, Message, Reply, Invoke, Post, Clear, Release,
     Return, RouteFails, PostRaises, StatusRaises, ClearRaises, ReturnLost
<1>5. CASE Raise(i) \/ Stop(i)
  BY <1>1, <1>3, <1>5 DEF Raise, Stop, Abort
<1>6. CASE Complete(i)
  <2>1. CASE pc'[i] = "failed"
    BY <1>1, <1>3, <1>6, <2>1 DEF Complete, Abort
  <2>2. CASE pc'[i] = "done"
    <3>1. row' = [row EXCEPT ![target[i]] = CompletedRow(i)]
      BY <1>1, <1>6, <2>2 DEF Complete, CompleteEvent, CompleteEventResent, TypeOK, ClaimsTypeOK
    <3>2. row'[EventOf(i)] = CompletedRow(i)
      BY <1>1, <3>1 DEF TypeOK, ClaimsTypeOK
    <3> QED
      BY <1>1, <1>3, <3>2, CompletedRowStatus
  <2> QED
    BY <1>6, <2>1, <2>2 DEF Complete
<1> QED
  BY <1>1, <1>3, <1>4, <1>5, <1>6

LEMMA RepliesStep ==
  PathInv /\ WorkingUnderClaim /\ RepliesAccounted /\ [Next]_vars => RepliesAccounted'
<1> SUFFICES ASSUME PathInv, WorkingUnderClaim, RepliesAccounted, [Next]_vars, NEW e \in Event
             PROVE  /\ posts'[e] <= 1 + aborts'[e]
                    /\ CompletedEvent(e)' \/ Posted(e)' \/ posts'[e] <= aborts'[e]
  BY DEF RepliesAccounted
<1>1. /\ TypeOK /\ QueueOrder /\ InFlight /\ posts[e] \in Nat /\ aborts[e] \in Nat
      /\ posts[e] <= 1 + aborts[e]
      /\ CompletedEvent(e) \/ Posted(e) \/ posts[e] <= aborts[e]
  BY DEF PathInv, TypeOK, RepliesAccounted
<1>2. aborts'[e] = aborts[e] \/ aborts'[e] = aborts[e] + 1
  BY <1>1, EffectStep, EffectByWorker DEF TypeOK
<1>3. CASE posts'[e] = posts[e]
  <2>1. CASE CompletedEvent(e)
    BY <1>1, <1>2, <1>3, <2>1, CompletedStays
  <2>2. ASSUME NEW i \in Invocation, step[i] = "complete", EventOf(i) = e
        PROVE  CompletedEvent(e)' \/ Posted(e)' \/ aborts'[e] = aborts[e] + 1
    <3>1. CASE step'[i] = "complete"
      <4>1. EventOf(i)' = e
        BY <1>1, <2>2, RunningMessage, EventOfStep DEF Running
      <4> QED
        BY <3>1, <4>1 DEF Posted
    <3>2. CASE step'[i] # "complete"
      BY <1>1, <2>2, <3>2, PostedStep DEF CompletedEvent, TypeOK
    <3> QED
      BY <3>1, <3>2
  <2>3. CASE Posted(e)
    <3>1. CompletedEvent(e)' \/ Posted(e)' \/ aborts'[e] = aborts[e] + 1
      BY <2>2, <2>3 DEF Posted
    <3> QED
      BY <1>1, <1>2, <1>3, <3>1
  <2>4. CASE posts[e] <= aborts[e]
    BY <1>1, <1>2, <1>3, <2>4
  <2> QED
    BY <1>1, <2>1, <2>3, <2>4
<1>4. CASE posts'[e] # posts[e]
  <2>1. PICK i \in Invocation : Work(i) \/ Trouble(i)
    BY <1>4, EffectByWorker
  <2>2. /\ step[i] = "post" /\ (Post(i) \/ PostRaises(i))
        /\ posts' = [posts EXCEPT ![EventOf(i)] = @ + 1]
    BY <1>1, <1>4, <2>1, EffectStep
  <2>3. EventOf(i) = e /\ posts'[e] = posts[e] + 1
    BY <1>1, <1>4, <2>2 DEF TypeOK
  <2>4. Running(i) /\ ~CompletedEvent(e)
    BY <2>2, <2>3, WorkingInflight DEF Working, CompletedEvent
  <2>5. ~Posted(e)
    <3> SUFFICES ASSUME NEW j \in Invocation, step[j] = "complete", EventOf(j) = e
                 PROVE  FALSE
      BY DEF Posted
    <3>1. j = i
      BY <1>1, <2>3, <2>4, Alone DEF Running
    <3> QED
      BY <2>2, <3>1
  <2>6. posts'[e] <= 1 + aborts[e]
    BY <1>1, <2>3, <2>4, <2>5
  <2>7. CASE Post(i)
    <3>1. step'[i] = "complete" /\ EventOf(i)' = e
      BY <1>1, <2>3, <2>4, <2>7, RunningMessage, EventOfStep DEF Post, Goto, TypeOK
    <3>2. Posted(e)'
      BY <3>1 DEF Posted
    <3> QED
      BY <1>1, <1>2, <2>3, <2>6, <3>2
  <2>8. CASE PostRaises(i)
    <3>1. aborts'[e] = aborts[e] + 1
      BY <1>1, <2>2, <2>3, <2>8 DEF PostRaises, Abort, Working, TypeOK
    <3> QED
      BY <1>1, <2>3, <2>6, <3>1
  <2> QED
    BY <2>2, <2>7, <2>8
<1> QED
  BY <1>3, <1>4

(* Deliveries that Slack repeats, messages that are queued twice and       *)
(* messages that are received again cost no reply: an event is answered a  *)
(* second time only after an attempt that failed under its claim.          *)
THEOREM RepliesAreBounded == Spec => []RepliesBounded
<1>1. Init => RepliesAccounted
  <2> SUFFICES ASSUME Init, NEW e \in Event PROVE posts[e] <= aborts[e] /\ posts[e] <= 1 + aborts[e]
    BY DEF RepliesAccounted
  <2>1. posts[e] = 0 /\ aborts[e] = 0
    BY DEF Init
  <2> QED
    BY <2>1
<1>2. RepliesAccounted => RepliesBounded
  BY DEF RepliesAccounted, RepliesBounded
<1> QED
  BY <1>1, <1>2, RepliesStep, PathInvariant, WorkIsClaimed, PTL DEF Spec

-----------------------------------------------------------------------------
(* The records of a thread *)

(* The event and the thread of an invocation that runs are what they were. *)
LEMMA RunningStep ==
  ASSUME PathInv, [Next]_vars, NEW i \in Invocation, Running(i)
  PROVE  /\ EventOf(i) \in Event /\ Thread(EventOf(i)) \in Ts
         /\ EventOf(i)' = EventOf(i)
BY RunningMessage, EventOfStep, ThreadType DEF PathInv

(* An invocation that runs came to its step by a step of its own. *)
LEMMA RanBefore ==
  ASSUME PathInv, [Next]_vars, NEW i \in Invocation, Running(i)', step'[i] # "route"
  PROVE  Running(i)
BY StartStep DEF PathInv, Running

(* Between its reads and its writes, nobody else writes the records of an  *)
(* invocation's thread.                                                    *)
LEMMA RecordsKept ==
  ASSUME PathInv, [Next]_vars, NEW i \in Invocation, Running(i)
  PROVE  /\ step[i] # "reply" =>
              session'[Thread(EventOf(i))] = session[Thread(EventOf(i))]
         /\ step[i] # "message" =>
              (Thread(EventOf(i)) \in threads' <=> Thread(EventOf(i)) \in threads)
<1>1. TypeOK /\ QueueOrder /\ InFlight
  BY DEF PathInv
<1>2. ASSUME NEW j \in Invocation, Work(j) \/ Trouble(j)
      PROVE  /\ step[i] # "reply" =>
                  session'[Thread(EventOf(i))] = session[Thread(EventOf(i))]
             /\ step[i] # "message" =>
                  (Thread(EventOf(i)) \in threads' <=> Thread(EventOf(i)) \in threads)
  <2>1. Running(j)
    BY <1>2, WorkerFrame
  <2>2. CASE i = j
    BY <1>1, <1>2, <2>2, EffectStep
  <2>3. CASE i # j
    <3>1. Thread(EventOf(i)) # Thread(EventOf(j))
      BY <1>1, <2>1, <2>3, Alone
    <3>2. Thread(EventOf(j)) \in Ts /\ Thread(EventOf(i)) \in Ts
      BY <2>1, RunningStep
    <3> QED
      BY <1>1, <1>2, <3>1, <3>2, EffectStep DEF TypeOK
  <2> QED
    BY <2>2, <2>3
<1> QED
  BY <1>2, EffectByWorker

(* Which steps lead to a call of the Harness and to a reply. *)
LEMMA ReachInvoke ==
  ASSUME PathInv, NEW i \in Invocation, Work(i) \/ Trouble(i), step'[i] = "invoke"
  PROVE  Reply(i) /\ step[i] = "reply" /\ Payload[EventOf(i)].text = "talk"
         /\ session' = session
         /\ using' = [using EXCEPT ![i] = session[Thread(EventOf(i))]]
<1>1. TypeOK
  BY DEF PathInv
<1>2. Reply(i)
  BY <1>1
     DEF TypeOK, Work, Trouble, Route, TryClaim, Message, Invoke, Post, Complete, Clear,
         Release, Return, RouteFails, Raise, PostRaises, StatusRaises, ClearRaises, Stop,
         ReturnLost, Goto, EndStep, Handler
<1> QED
  BY <1>1, <1>2 DEF Reply, Goto, TypeOK

LEMMA ReachPost ==
  ASSUME PathInv, NEW i \in Invocation, Work(i) \/ Trouble(i), step'[i] = "post"
  PROVE  \/ Invoke(i) /\ step[i] = "invoke"
         \/ Reply(i) /\ step[i] = "reply"
<1>1. TypeOK
  BY DEF PathInv
<1> QED
  BY <1>1
     DEF TypeOK, Work, Trouble, Route, TryClaim, Message, Reply, Invoke, Post, Complete, Clear,
         Release, Return, RouteFails, Raise, PostRaises, StatusRaises, ClearRaises, Stop,
         ReturnLost, Goto, EndStep, Handler

(* The session an invocation uses changes by no step of another. *)
LEMMA UsingKept ==
  ASSUME PathInv, [Next]_vars, NEW i \in Invocation, ~(Work(i) \/ Trouble(i))
  PROVE  using'[i] = using[i]
<1>1. TypeOK
  BY DEF PathInv
<1>2. ASSUME NEW j \in Invocation, Work(j) \/ Trouble(j), j # i
      PROVE  using'[i] = using[i]
  <2>1. CASE Route(j) \/ TryClaim(j) \/ Message(j) \/ Invoke(j) \/ Post(j) \/ Complete(j)
             \/ Clear(j) \/ Raise(j) \/ PostRaises(j) \/ StatusRaises(j)
    BY <2>1 DEF Route, TryClaim, Message, Invoke, Post, Complete, Clear, Raise, PostRaises,
       StatusRaises, Goto
  <2>2. CASE Reply(j) \/ Release(j) \/ Return(j) \/ RouteFails(j) \/ ClearRaises(j)
             \/ Stop(j) \/ ReturnLost(j)
    BY <1>1, <1>2, <2>2
       DEF Reply, Release, Return, RouteFails, ClearRaises, Stop, ReturnLost, Goto, EndStep,
           TypeOK
  <2> QED
    BY <1>2, <2>1, <2>2 DEF Work, Trouble
<1> QED
  BY <1>2, EffectByWorker

LEMMA InvokeSessionStep ==
  PathInv /\ InvokeUsesCurrentSession /\ [Next]_vars => InvokeUsesCurrentSession'
<1> SUFFICES ASSUME PathInv, InvokeUsesCurrentSession, [Next]_vars, NEW i \in Invocation,
                    step'[i] = "invoke"
             PROVE  using'[i] = session'[Thread(EventOf(i)')]
  BY DEF InvokeUsesCurrentSession, Thread
<1>1. TypeOK /\ Running(i)
  BY RanBefore DEF PathInv, Running
<1>2. EventOf(i)' = EventOf(i)
  BY <1>1, RunningStep
<1>3. CASE Work(i) \/ Trouble(i)
  BY <1>1, <1>2, <1>3, ReachInvoke DEF TypeOK
<1>4. CASE ~(Work(i) \/ Trouble(i))
  <2>1. step[i] = "invoke"
    BY <1>1, <1>4, OwnStep DEF Running
  <2>2. using[i] = session[Thread(EventOf(i))]
    BY <2>1 DEF InvokeUsesCurrentSession
  <2> QED
    BY <1>1, <1>2, <1>4, <2>1, <2>2, RecordsKept, UsingKept
<1> QED
  BY <1>3, <1>4

(* The session read from the table is still the thread's session when the  *)
(* Harness is called with it: nobody else runs in the thread in between.   *)
THEOREM SessionIsCurrent == Spec => []InvokeUsesCurrentSession
<1>1. Init => InvokeUsesCurrentSession
  BY DEF Init, InvokeUsesCurrentSession
<1> QED
  BY <1>1, InvokeSessionStep, PathInvariant, PTL DEF Spec

-----------------------------------------------------------------------------
(* The last /new of a thread *)

(* What is out of the queue was queued before what is still in it. *)
FifoOrder ==
  \A k, m \in MessageId :
    ~Unused(k) /\ ~Queued(k) /\ Queued(m) /\ msg[k].group = msg[m].group => k < m

LEMMA FifoOrderStep == PathInv /\ FifoOrder /\ [Next]_vars => FifoOrder'
<1> SUFFICES ASSUME PathInv, FifoOrder, [Next]_vars, NEW k \in MessageId, NEW m \in MessageId,
                    ~Unused(k)', ~Queued(k)', Queued(m)', msg'[k].group = msg'[m].group
             PROVE  k < m
  BY DEF FifoOrder
<1>1. TypeOK /\ QueueOrder /\ InFlight
  BY DEF PathInv
<1>2. CASE msg' = msg
  BY <1>2 DEF FifoOrder, Queued, Unused
<1>3. ASSUME NEW e \in Event, Ingress(e), msg' # msg
      PROVE  k < m
  <2>1. PICK n \in MessageId :
          /\ Unused(n) /\ msg'[n].status = "queued"
          /\ \A l \in MessageId : l # n => msg'[l] = msg[l]
    BY <1>1, <1>3, IngressStep
  <2>2. k # n /\ msg'[k] = msg[k]
    BY <2>1 DEF Queued
  <2>3. CASE m = n
    BY <1>1, <2>1, <2>2, <2>3, MessageIdType DEF QueueOrder, Unused
  <2>4. CASE m # n
    BY <2>1, <2>2, <2>4 DEF FifoOrder, Queued, Unused
  <2> QED
    BY <2>3, <2>4
<1>4. ASSUME NEW n \in MessageId, Receive(n)
      PROVE  k < m
  <2>1. msg[n].status = "queued"
    BY <1>4 DEF Receive, ReceiveMessage, Front, Queued
  <2>2. \A l \in MessageId : msg'[l].group = msg[l].group /\ msg'[l].status = msg[l].status
    BY <1>1, <1>4, <2>1, ReceiveStep
  <2> QED
    BY <2>2 DEF FifoOrder, Queued, Unused
<1>5. ASSUME NEW n \in MessageId, Redrive(n) \/ DeleteMessage(n), Front(n)
      PROVE  k < m
  <2>1. /\ msg'[n].group = msg[n].group /\ msg'[n].status # "queued"
        /\ \A l \in MessageId : l # n => msg'[l] = msg[l]
    BY <1>1, <1>5, RedriveStep, DeleteStep
  <2>2. m # n /\ Queued(m) /\ msg'[m] = msg[m]
    BY <2>1 DEF Queued
  <2>3. CASE k = n
    BY <1>5, <2>1, <2>2, <2>3, MessageIdType DEF Front
  <2>4. CASE k # n
    BY <2>1, <2>2, <2>4 DEF FifoOrder, Queued, Unused
  <2> QED
    BY <2>3, <2>4
<1>6. ASSUME NEW i \in Invocation, Work(i) \/ Trouble(i), msg' # msg
      PROVE  k < m
  <2>1. Running(i) /\ DeleteMessage(MessageOf(i)) /\ MessageOf(i) \in MessageId
    BY <1>6, WorkerFrame, InvocationType
  <2> QED
    BY <1>1, <1>5, <2>1 DEF InFlight
<1>7. \A n \in MessageId : Redrive(n) => Front(n)
  BY DEF Redrive, DeadLetter
<1> QED
  BY <1>2, <1>3, <1>4, <1>5, <1>6, <1>7 DEF Next, IngressFails, TimePasses, vars

(* A message that was received before comes before the one in hand. *)
LEMMA ReceivedBefore ==
  ASSUME PathInv, FifoOrder, NEW i \in Invocation, Running(i), NEW k \in MessageId,
         ~Unused(k), msg[k].received > 0, msg[k].id # EventOf(i),
         Thread(msg[k].id) = Thread(EventOf(i))
  PROVE  k < MessageOf(i)
<1>1. TypeOK /\ QueueOrder /\ InFlight
  BY DEF PathInv
<1>2. /\ MessageOf(i) \in MessageId /\ Front(MessageOf(i)) /\ Queued(MessageOf(i))
      /\ ~Unused(MessageOf(i)) /\ k # MessageOf(i)
  BY <1>1, RunningMessage DEF InFlight, EventOf
<1>3. msg[k].group = msg[MessageOf(i)].group
  BY <1>1, <1>2 DEF QueueOrder, EventOf
<1>4. ~Queued(k)
  BY <1>1, <1>2, <1>3, FrontUnique DEF QueueOrder
<1> QED
  BY <1>2, <1>3, <1>4 DEF FifoOrder

(* Only what is said to the Harness is sent to it, and a /new is answered  *)
(* while its session is the thread's.                                      *)
AnswersInSession ==
  \A i \in Invocation :
    /\ step[i] = "invoke" => Payload[EventOf(i)].text = "talk"
    /\ step[i] = "post" /\ Payload[EventOf(i)].text = "new"
         => session[Thread(EventOf(i))] = EventOf(i)

LEMMA AnswersStep == PathInv /\ AnswersInSession /\ [Next]_vars => AnswersInSession'
<1> SUFFICES ASSUME PathInv, AnswersInSession, [Next]_vars, NEW i \in Invocation,
                    step'[i] \in {"invoke", "post"}
             PROVE  /\ step'[i] = "invoke" => Payload[EventOf(i)'].text = "talk"
                    /\ step'[i] = "post" /\ Payload[EventOf(i)'].text = "new"
                         => session'[Thread(EventOf(i)')] = EventOf(i)'
  BY DEF AnswersInSession, Thread
<1>1. TypeOK /\ Running(i)
  BY RanBefore DEF PathInv, Running
<1>2. EventOf(i) \in Event /\ Thread(EventOf(i)) \in Ts /\ EventOf(i)' = EventOf(i)
  BY <1>1, RunningStep
<1>3. CASE Work(i) \/ Trouble(i)
  <2>1. step'[i] = "invoke" => Payload[EventOf(i)].text = "talk"
    BY <1>3, ReachInvoke
  <2>2. ASSUME step'[i] = "post", Payload[EventOf(i)].text = "new"
        PROVE  session'[Thread(EventOf(i))] = EventOf(i)
    <3>1. Reply(i)
      BY <1>3, <2>2, ReachPost DEF AnswersInSession
    <3> QED
      BY <1>1, <1>2, <2>2, <3>1 DEF Reply, TypeOK
  <2> QED
    BY <1>2, <2>1, <2>2
<1>4. CASE ~(Work(i) \/ Trouble(i))
  <2>1. step[i] = step'[i]
    BY <1>1, <1>4, OwnStep DEF Running
  <2>2. session'[Thread(EventOf(i))] = session[Thread(EventOf(i))]
    BY <1>1, <2>1, RecordsKept
  <2> QED
    BY <1>2, <2>1, <2>2 DEF AnswersInSession
<1> QED
  BY <1>3, <1>4

Replaced(e, s) ==
  \E k, m \in MessageId :
    ~Unused(k) /\ ~Unused(m) /\ msg[k].id = e /\ msg[m].id = s /\ k < m

(* A /new that was answered names the session, or a later message does. *)
NewStays ==
  \A e \in Event : Payload[e].text = "new" /\ posts[e] > 0 =>
    /\ \E k \in MessageId : ~Unused(k) /\ msg[k].id = e /\ msg[k].received > 0
    /\ session[Thread(e)] = e \/ Replaced(e, session[Thread(e)])

LEMMA ReplacedStep ==
  ASSUME PathInv, [Next]_vars, NEW e, NEW s, Replaced(e, s)
  PROVE  \E k, m \in MessageId :
           ~Unused(k)' /\ ~Unused(m)' /\ msg'[k].id = e /\ msg'[m].id = s /\ k < m
BY MessageTypeStep DEF PathInv, Replaced

LEMMA NewStaysStep ==
  PathInv /\ FifoOrder /\ AnswersInSession /\ NewStays /\ [Next]_vars => NewStays'
<1> SUFFICES ASSUME PathInv, FifoOrder, AnswersInSession, NewStays, [Next]_vars,
                    NEW e \in Event, Payload[e].text = "new", posts'[e] > 0
             PROVE  /\ \E k \in MessageId :
                         ~Unused(k)' /\ msg'[k].id = e /\ msg'[k].received > 0
                    /\ \/ session'[Thread(e)] = e
                       \/ \E k, m \in MessageId :
                            /\ ~Unused(k)' /\ ~Unused(m)' /\ k < m
                            /\ msg'[k].id = e /\ msg'[m].id = session'[Thread(e)]
  BY DEF NewStays, Replaced, Thread
<1>1. TypeOK /\ QueueOrder /\ InFlight /\ Thread(e) \in Ts /\ posts[e] \in Nat
  BY ThreadType DEF PathInv, TypeOK
<1>2. CASE posts[e] > 0
  <2>1. PICK k \in MessageId : ~Unused(k) /\ msg[k].id = e /\ msg[k].received > 0
    BY <1>2 DEF NewStays
  <2>2. ~Unused(k)' /\ msg'[k].id = e /\ msg'[k].received > 0
    BY <1>1, <2>1, MessageTypeStep, ReceivedStep
  <2>3. CASE session'[Thread(e)] = session[Thread(e)]
    BY <1>2, <2>2, <2>3, ReplacedStep DEF NewStays
  <2>4. CASE session'[Thread(e)] # session[Thread(e)]
    <3>1. PICK i \in Invocation : Work(i) \/ Trouble(i)
      BY <2>4, EffectByWorker
    <3>2. /\ Running(i) /\ step[i] = "reply"
          /\ session' = [session EXCEPT ![Thread(EventOf(i))] = EventOf(i)]
      BY <1>1, <2>4, <3>1, EffectStep, WorkerFrame
    <3>3. Thread(EventOf(i)) = Thread(e) /\ session'[Thread(e)] = EventOf(i)
      BY <1>1, <2>4, <3>2 DEF TypeOK
    <3>4. CASE EventOf(i) = e
      BY <2>2, <3>3, <3>4
    <3>5. CASE EventOf(i) # e
      <4>1. k < MessageOf(i)
        BY <2>1, <3>2, <3>3, <3>5, ReceivedBefore
      <4>2. MessageOf(i) \in MessageId /\ ~Unused(MessageOf(i)) /\ msg[MessageOf(i)].id = EventOf(i)
        BY <1>1, <3>2, RunningMessage DEF EventOf
      <4>3. Replaced(e, EventOf(i))
        BY <2>1, <4>1, <4>2 DEF Replaced
      <4>4. \E l, m \in MessageId :
              ~Unused(l)' /\ ~Unused(m)' /\ msg'[l].id = e /\ msg'[m].id = EventOf(i) /\ l < m
        BY <4>3, ReplacedStep
      <4> QED
        BY <2>2, <3>3, <4>4
    <3> QED
      BY <3>4, <3>5
  <2> QED
    BY <2>3, <2>4
<1>3. CASE ~(posts[e] > 0)
  <2>1. PICK i \in Invocation : Work(i) \/ Trouble(i)
    BY <1>3, EffectByWorker
  <2>2. /\ Running(i) /\ step[i] = "post"
        /\ posts' = [posts EXCEPT ![EventOf(i)] = @ + 1]
    BY <1>1, <1>3, <2>1, EffectStep, WorkerFrame
  <2>3. EventOf(i) = e
    BY <1>1, <1>3, <2>2 DEF TypeOK
  <2>4. session'[Thread(e)] = e
    BY <2>2, <2>3, RecordsKept DEF AnswersInSession
  <2>5. /\ MessageOf(i) \in MessageId /\ ~Unused(MessageOf(i)) /\ msg[MessageOf(i)].id = e
        /\ msg[MessageOf(i)].received = ReceiveOf(i) /\ ReceiveOf(i) \in Nat \ {0}
    BY <1>1, <2>2, <2>3, RunningMessage, NumberTypes DEF EventOf, InFlight
  <2>6. ~Unused(MessageOf(i))' /\ msg'[MessageOf(i)].id = e /\ msg'[MessageOf(i)].received > 0
    BY <1>1, <2>5, MessageTypeStep, ReceivedStep
  <2> QED
    BY <2>4, <2>5, <2>6
<1> QED
  BY <1>2, <1>3

(* The session of a thread is that of the last /new in the queue's order:  *)
(* whatever is received again, or queued twice, a session that was         *)
(* answered is replaced only by a message queued after it.                 *)
THEOREM LatestNewNamesSession == Spec => []SessionOfLatestNew
<1>1. Init => FifoOrder /\ AnswersInSession /\ NewStays
  BY DEF Init, QueueInit, NoMessage, FifoOrder, Queued, AnswersInSession, NewStays
<1>2. NewStays => SessionOfLatestNew
  BY DEF NewStays, Replaced, SessionOfLatestNew
<1> QED
  BY <1>1, <1>2, FifoOrderStep, AnswersStep, NewStaysStep, PathInvariant, PTL DEF Spec

-----------------------------------------------------------------------------
(* Replies to an open thread *)

(* What a mention leaves in the table, and what a skipped message found    *)
(* there.                                                                  *)
Opened ==
  /\ \A i \in Invocation :
       /\ step[i] \in {"reply", "invoke", "post", "complete"} /\ IsMention(EventOf(i))
            => Thread(EventOf(i)) \in threads
       /\ step[i] = "skip" /\ ~Ignored(EventOf(i))
            => ~IsMention(EventOf(i)) /\ Thread(EventOf(i)) \notin threads
  /\ \A e \in Event :
       CompletedEvent(e) /\ IsMention(e) /\ ~Ignored(e) => Thread(e) \in threads

LEMMA ThreadsGrow == ASSUME PathInv, [Next]_vars PROVE threads \subseteq threads'
BY EffectStep, EffectByWorker DEF PathInv

LEMMA OpenedStep == PathInv /\ Opened /\ [Next]_vars => Opened'
<1> SUFFICES ASSUME PathInv, Opened, [Next]_vars PROVE Opened'
  OBVIOUS
<1>1. TypeOK /\ QueueOrder /\ InFlight
  BY DEF PathInv
<1>2. ASSUME NEW i \in Invocation, step'[i] \in {"reply", "invoke", "post", "complete", "skip"}
      PROVE  /\ step'[i] # "skip" /\ IsMention(EventOf(i)') => Thread(EventOf(i)') \in threads'
             /\ step'[i] = "skip" /\ ~Ignored(EventOf(i)')
                  => ~IsMention(EventOf(i)') /\ Thread(EventOf(i)') \notin threads'
  <2>1. Running(i)
    BY <1>2, RanBefore DEF Running
  <2>2. EventOf(i) \in Event /\ EventOf(i)' = EventOf(i)
    BY <2>1, RunningStep
  <2>3. CASE Message(i)
    <3>1. step[i] = "message" /\ step'[i] \in {"reply", "skip"}
      BY <1>1, <2>3 DEF Message, Goto, TypeOK
    <3>2. step'[i] = "reply" /\ IsMention(EventOf(i)) => Thread(EventOf(i)) \in threads'
      BY <1>1, <2>3 DEF Message, Goto, TypeOK
    <3>3. step'[i] = "skip" /\ ~Ignored(EventOf(i))
            => ~IsMention(EventOf(i)) /\ Thread(EventOf(i)) \notin threads'
      BY <1>1, <2>3 DEF Message, Goto, TypeOK
    <3> QED
      BY <2>2, <3>1, <3>2, <3>3
  <2>4. CASE ~Message(i)
    <3>1. /\ step[i] \in {"reply", "invoke", "post", "complete", "skip"}
          /\ step[i] = "skip" <=> step'[i] = "skip"
      <4>1. CASE step'[i] = step[i]
        BY <1>2, <4>1
      <4>2. CASE step'[i] # step[i]
        <5>1. Work(i) \/ Trouble(i)
          BY <1>2, <4>2, OwnStep
        <5>2. Reply(i) \/ Invoke(i) \/ Post(i)
          BY <1>1, <1>2, <2>4, <5>1
             DEF TypeOK, Work, Trouble, Route, TryClaim, Complete, Clear, Release, Return,
                 RouteFails, Raise, PostRaises, StatusRaises, ClearRaises, Stop, ReturnLost,
                 Goto, EndStep, Handler
        <5> QED
          BY <1>1, <5>2 DEF Reply, Invoke, Post, Goto, TypeOK
      <4> QED
        BY <4>1, <4>2
    <3>2. Thread(EventOf(i)) \in threads' <=> Thread(EventOf(i)) \in threads
      BY <2>1, <3>1, RecordsKept
    <3> QED
      BY <2>2, <3>1, <3>2 DEF Opened
  <2> QED
    BY <2>3, <2>4
<1>3. ASSUME NEW e \in Event, row'[e].status = "completed", IsMention(e), ~Ignored(e)
      PROVE  Thread(e) \in threads'
  <2>1. CASE row'[e] = row[e]
    BY <1>3, <2>1, ThreadsGrow DEF Opened, CompletedEvent
  <2>2. CASE row'[e] # row[e]
    <3>1. PICK i \in Invocation :
            EventOf(i) = e /\ (row'[e] = ClaimRow(i) \/ Complete(i) \/ row'[e] = Absent)
      BY <2>2, RowStep
    <3>2. step[i] \in {"complete", "skip"}
      BY <1>3, <3>1 DEF Complete, ClaimRow, Absent
    <3> QED
      BY <1>3, <3>1, <3>2, ThreadsGrow DEF Opened
  <2> QED
    BY <2>1, <2>2
<1> QED
  BY <1>2, <1>3 DEF Opened, IsMention, Ignored, IsDirect, IsFollowup, Thread, CompletedEvent

(* A reply to a mention's thread is dropped for want of the thread's       *)
(* record only when the mentions queued before it were dead-lettered: a    *)
(* mention whose message was deleted was completed, after register_thread. *)
THEOREM FollowupsFindThread ==
  ASSUME LeaseEndsInTime, ~ResentWrites
  PROVE  Spec => []FollowupsFindTheirThread
<1>1. Init => Opened
  BY DEF Init, ClaimsInit, Absent, Opened, CompletedEvent
<1>2. RecoveryInv /\ Opened => FollowupsFindTheirThread
  <2> SUFFICES ASSUME RecoveryInv, Opened, NEW i \in Invocation, NEW m \in MessageId,
                      step[i] = "skip", ~Ignored(EventOf(i)), m < MessageOf(i),
                      msg[m].group = Thread(EventOf(i)),
                      IsMention(msg[m].id), ~Ignored(msg[m].id)
               PROVE  DeadLettered(m)
    BY DEF FollowupsFindTheirThread
  <2>1. TypeOK /\ QueueOrder /\ InFlight /\ Finished /\ Running(i)
    BY DEF RecoveryInv, PathInv, Running
  <2>2. /\ MessageOf(i) \in MessageId /\ ~Unused(MessageOf(i)) /\ Front(MessageOf(i))
        /\ msg[MessageOf(i)].group = Thread(EventOf(i))
    BY <2>1, RunningMessage DEF InFlight, QueueOrder, EventOf
  <2>3. ~Unused(m) /\ ~Queued(m)
    BY <2>1, <2>2 DEF QueueOrder, Front
  <2>4. msg[m].id \in Event /\ Thread(msg[m].id) = Thread(EventOf(i))
    BY <2>1, <2>3 DEF TypeOK, QueueOrder
  <2>5. msg[m].status # "deleted"
    BY <2>1, <2>4 DEF Finished, Opened
  <2> QED
    BY <2>1, <2>3, <2>5 DEF TypeOK, MessageRecord, Unused, Queued, DeadLettered
<1> QED
  BY <1>1, <1>2, OpenedStep, RecoveryInvariant, PathInvariant, PTL DEF Spec

-----------------------------------------------------------------------------
(* The service that the path is *)

(* How far an invocation is in its attempt, as EventService counts. *)
Phase(i) ==
  IF step[i] = "complete" THEN "answered" ELSE IF Working(i) THEN "begun" ELSE "none"

(* The attempt at an event is that of the invocation that runs for it. *)
LEMMA AttemptOfRunner ==
  PathInv => \A i \in Invocation : Running(i) => EventAttempt(EventOf(i)) = Phase(i)
<1> SUFFICES ASSUME PathInv, NEW i \in Invocation, Running(i)
             PROVE  EventAttempt(EventOf(i)) = Phase(i)
  OBVIOUS
<1>1. \A j \in Invocation : Running(j) /\ EventOf(j) = EventOf(i) => j = i
  BY Alone DEF PathInv
<1>2. \A j \in Invocation : Working(j) => Running(j)
  BY DEF Working, Running
<1>3. \A j \in Invocation : step[j] = "complete" => Working(j)
  BY DEF Working
<1> QED
  BY <1>1, <1>2, <1>3 DEF EventAttempt, Phase

LEMMA AttemptOfNobody ==
  \A e \in Event :
    (\A i \in Invocation : Running(i) => EventOf(i) # e) => EventAttempt(e) = "none"
BY DEF EventAttempt, Working, Running

LEMMA AttemptAfter ==
  /\ PathInv' => \A i \in Invocation : Running(i)' => EventAttempt(EventOf(i))' = Phase(i)'
  /\ \A e \in Event :
       (\A i \in Invocation : Running(i)' => EventOf(i)' # e) => EventAttempt(e)' = "none"
<1>1. (PathInv => \A i \in Invocation : Running(i) => EventAttempt(EventOf(i)) = Phase(i))'
  BY AttemptOfRunner, PTL
<1>2. (\A e \in Event :
         (\A i \in Invocation : Running(i) => EventOf(i) # e) => EventAttempt(e) = "none")'
  BY AttemptOfNobody, PTL
<1> QED
  BY <1>1, <1>2

(* The attempt at an event moves only with an invocation that runs for it. *)
LEMMA AttemptStep ==
  ASSUME PathInv, [Next]_vars, NEW e \in Event,
         \A i \in Invocation : Running(i) /\ EventOf(i) = e => Phase(i)' = Phase(i)
  PROVE  EventAttempt(e)' = EventAttempt(e)
<1>1. PathInv'
  BY PathInvStep
<1>2. ASSUME NEW i \in Invocation, Running(i), EventOf(i) = e
      PROVE  EventAttempt(e)' = EventAttempt(e)
  <2>1. EventAttempt(e) = Phase(i) /\ Phase(i)' = Phase(i) /\ EventOf(i)' = e
    BY <1>2, AttemptOfRunner, RunningStep
  <2>2. CASE Running(i)'
    <3>1. EventAttempt(EventOf(i))' = Phase(i)'
      BY <1>1, <2>2, AttemptAfter
    <3>2. EventAttempt(EventOf(i))' = EventAttempt(e)'
      BY <2>1 DEF EventAttempt
    <3> QED
      BY <2>1, <3>1, <3>2
  <2>3. CASE ~Running(i)'
    <3>1. Phase(i)' = "none"
      BY <2>3 DEF Phase, Running, Working
    <3>2. ASSUME NEW j \in Invocation, Running(j)', EventOf(j)' = e
          PROVE  EventAttempt(e)' = "none"
      <4>1. EventAttempt(EventOf(j))' = Phase(j)'
        BY <1>1, <3>2, AttemptAfter
      <4>2. EventAttempt(EventOf(j))' = EventAttempt(e)'
        BY <3>2 DEF EventAttempt
      <4>3. step'[j] = "route"
        <5> SUFFICES ASSUME Running(j) PROVE FALSE
          BY <3>2, RanBefore
        <5>1. EventOf(j) = e
          BY <3>2, RunningStep
        <5> QED
          BY <1>2, <2>3, <3>2, <5>1, Alone DEF PathInv
      <4> QED
        BY <4>1, <4>2, <4>3 DEF Phase, Working
    <3>3. CASE \A j \in Invocation : Running(j)' => EventOf(j)' # e
      BY <3>3, AttemptAfter, <2>1, <3>1
    <3> QED
      BY <2>1, <3>1, <3>2, <3>3
  <2> QED
    BY <2>2, <2>3
<1>3. ASSUME \A i \in Invocation : Running(i) => EventOf(i) # e
      PROVE  EventAttempt(e)' = "none"
  <2>1. ASSUME NEW j \in Invocation, Running(j)', EventOf(j)' = e
        PROVE  EventAttempt(e)' = "none"
    <3>1. EventAttempt(EventOf(j))' = Phase(j)'
      BY <1>1, <2>1, AttemptAfter
    <3>2. EventAttempt(EventOf(j))' = EventAttempt(e)'
      BY <2>1 DEF EventAttempt
    <3>3. step'[j] = "route"
      BY <1>3, <2>1, RanBefore, RunningStep
    <3> QED
      BY <3>1, <3>2, <3>3 DEF Phase, Working
  <2> QED
    BY <2>1, AttemptAfter
<1> QED
  BY <1>2, <1>3, AttemptOfNobody

(* The stage of an event moves only with its record and its messages. *)
LEMMA StageStep ==
  ASSUME NEW e \in Event, CompletedEvent(e)' <=> CompletedEvent(e),
         \/ CompletedEvent(e)
         \/ \A m \in MessageId : msg[m].id = e \/ msg'[m].id = e =>
              msg'[m].id = msg[m].id /\ msg'[m].status = msg[m].status
  PROVE  EventStage(e)' = EventStage(e)
BY DEF EventStage, Queued, DeadLettered

(* What is addressed to the bot is never skipped. *)
SkipsUnaddressed ==
  \A i \in Invocation : step[i] = "skip" => ~Addressed(EventOf(i))

LEMMA SkipsStep == PathInv /\ SkipsUnaddressed /\ [Next]_vars => SkipsUnaddressed'
<1> SUFFICES ASSUME PathInv, SkipsUnaddressed, [Next]_vars, NEW i \in Invocation,
                    step'[i] = "skip"
             PROVE  ~Addressed(EventOf(i)')
  BY DEF SkipsUnaddressed, Addressed, Ignored, IsDirect, IsMention, IsFollowup
<1>1. TypeOK /\ Running(i)
  BY RanBefore DEF PathInv, Running
<1>2. EventOf(i)' = EventOf(i)
  BY <1>1, RunningStep
<1>3. CASE step[i] = "skip"
  BY <1>2, <1>3 DEF SkipsUnaddressed
<1>4. CASE step[i] # "skip"
  <2>1. Message(i)
    BY <1>1, <1>4, OwnStep
       DEF TypeOK, Work, Trouble, Route, TryClaim, Reply, Invoke, Post, Complete, Clear,
           Release, Return, RouteFails, Raise, PostRaises, StatusRaises, ClearRaises, Stop,
           ReturnLost, Goto, EndStep, Handler
  <2>2. Ignored(EventOf(i)) \/ ~(IsMention(EventOf(i)) \/ IsDirect(EventOf(i)))
    BY <1>1, <2>1 DEF Message, Goto, TypeOK
  <2> QED
    BY <1>2, <2>2 DEF Addressed
<1> QED
  BY <1>3, <1>4

ServiceInv == RecoveryInv /\ WorkingUnderClaim /\ SkipsUnaddressed

LEMMA ServiceInvariant ==
  ASSUME LeaseEndsInTime, ~ResentWrites
  PROVE  Spec => []ServiceInv
<1>1. Init => SkipsUnaddressed
  BY DEF Init, SkipsUnaddressed
<1>2. RecoveryInv => PathInv
  BY DEF RecoveryInv
<1> QED
  BY <1>1, <1>2, SkipsStep, RecoveryInvariant, WorkIsClaimed, PTL DEF Spec, ServiceInv

(* What a step of a worker is to the service: nothing, or the begin, the   *)
(* answer, the end or the failure of an attempt at its event.              *)
StepIsNothing(i) ==
  /\ Phase(i)' = Phase(i)
  /\ CompletedEvent(EventOf(i))' <=> CompletedEvent(EventOf(i))
  /\ posts' = posts /\ aborts' = aborts
  /\ msg' = msg \/ (CompletedEvent(EventOf(i)) /\ DeleteMessage(MessageOf(i)))

StepBegins(i) ==
  /\ Phase(i) = "none" /\ Phase(i)' = "begun"
  /\ ~CompletedEvent(EventOf(i)) /\ ~CompletedEvent(EventOf(i))'
  /\ posts' = posts /\ aborts' = aborts /\ msg' = msg

StepAnswers(i) ==
  /\ Phase(i) = "begun" /\ Phase(i)' = "answered"
  /\ ~CompletedEvent(EventOf(i)) /\ ~CompletedEvent(EventOf(i))'
  /\ posts' = [posts EXCEPT ![EventOf(i)] = @ + 1]
  /\ aborts' = aborts /\ msg' = msg

StepFinishes(i) ==
  /\ Phase(i) # "none" /\ Phase(i)' = "none"
  /\ Phase(i) = "begun" => ~Addressed(EventOf(i))
  /\ ~CompletedEvent(EventOf(i)) /\ CompletedEvent(EventOf(i))'
  /\ posts' = posts /\ aborts' = aborts /\ msg' = msg

StepFails(i) ==
  /\ Phase(i) # "none" /\ Phase(i)' = "none"
  /\ ~CompletedEvent(EventOf(i)) /\ ~CompletedEvent(EventOf(i))'
  /\ aborts' = [aborts EXCEPT ![EventOf(i)] = @ + 1]
  /\ \/ posts' = posts
     \/ Phase(i) = "begun" /\ posts' = [posts EXCEPT ![EventOf(i)] = @ + 1]
  /\ msg' = msg

LEMMA WorkerStep ==
  ASSUME ServiceInv, ~ResentWrites, [Next]_vars, NEW i \in Invocation, Work(i) \/ Trouble(i)
  PROVE  \/ StepIsNothing(i)
         \/ StepBegins(i)
         \/ StepAnswers(i)
         \/ StepFinishes(i)
         \/ StepFails(i)
<1> DEFINE e == EventOf(i)
<1>1. /\ PathInv /\ TypeOK /\ InFlight /\ Sync /\ Finished /\ WorkingUnderClaim
      /\ Running(i) /\ e \in Event /\ e' = e
      /\ step \in [Invocation -> Step] /\ pc \in [Invocation -> PC] /\ row \in [Event -> Row]
      /\ target[i] \in Event \cup {None}
  BY WorkerFrame, RunningStep DEF ServiceInv, RecoveryInv, PathInv, TypeOK, ClaimsTypeOK
<1>2. Working(i) => row[e].status = "inflight" /\ ~CompletedEvent(e) /\ OwnsRow(i)
  BY <1>1, WorkingInflight DEF CompletedEvent, WorkingUnderClaim
<1>3. row' = row => (CompletedEvent(e)' <=> CompletedEvent(e))
  BY <1>1 DEF CompletedEvent
<1>4. CASE Route(i) \/ Message(i) \/ Reply(i) \/ Invoke(i) \/ Clear(i) \/ ClearRaises(i)
  <2>1. /\ row' = row /\ posts' = posts /\ aborts' = aborts /\ msg' = msg
        /\ step[i] # "complete" /\ step'[i] # "complete" /\ (Working(i)' <=> Working(i))
    BY <1>1, <1>4
       DEF Route, ClaimEvent, Message, Reply, Invoke, Clear, ClearRaises, Crash, Goto, EndStep,
           Working, claimsVars, workVars, historyVars
  <2> QED
    BY <1>3, <2>1 DEF StepIsNothing, Phase
<1>5. CASE TryClaim(i)
  <2>1. posts' = posts /\ aborts' = aborts /\ msg' = msg /\ step[i] = "claim"
    BY <1>5 DEF TryClaim, workVars, historyVars
  <2>2. target[i] = e
    BY <1>1, <2>1 DEF Sync
  <2>3. CASE pc'[i] = "held"
    <3>1. step'[i] = "message"
      BY <1>1, <1>5, <2>3 DEF TryClaim, Goto
    <3>2. row[e].status = "absent" \/ row[e].status = "inflight"
      BY <1>1, <1>5, <2>2, <2>3
         DEF TryClaim, ClaimPut, ClaimUpdate, LeaseExpired
    <3>3. row'[e] = ClaimRow(i)
      BY <1>1, <1>5, <2>2, <2>3 DEF TryClaim, ClaimPut, ClaimUpdate
    <3> QED
      BY <1>1, <2>1, <3>1, <3>2, <3>3
         DEF StepBegins, Phase, Working, CompletedEvent, ClaimRow
  <2>4. CASE pc'[i] # "held"
    <3>1. row' = row /\ step'[i] \in {"return", "claim"}
      BY <1>1, <1>5, <2>4 DEF TryClaim, ClaimPut, ClaimUpdate, Goto
    <3> QED
      BY <1>3, <2>1, <3>1 DEF StepIsNothing, Phase, Working
  <2> QED
    BY <2>3, <2>4
<1>6. CASE Post(i)
  <2>1. /\ row' = row /\ step[i] = "post" /\ step'[i] = "complete"
        /\ posts' = [posts EXCEPT ![e] = @ + 1] /\ aborts' = aborts /\ msg' = msg
    BY <1>1, <1>6 DEF Post, Goto, claimsVars, historyVars
  <2> QED
    BY <1>2, <1>3, <2>1 DEF StepAnswers, Phase, Working
<1>7. CASE Complete(i)
  <2>1. /\ step[i] \in {"complete", "skip"} /\ Working(i) /\ CompleteEvent(i)
        /\ posts' = posts /\ msg' = msg /\ target[i] = e
    BY <1>1, <1>7 DEF Complete, Working, workVars, Sync
  <2>2. row'[e] = CompletedRow(i) /\ pc'[i] = "done"
    BY <1>1, <1>2, <2>1 DEF CompleteEvent
  <2>3. step'[i] = "return" /\ aborts' = aborts
    BY <1>1, <1>7, <2>2 DEF Complete, Goto, historyVars
  <2>4. row'[e].status = "completed"
    BY <2>2, CompletedRowStatus
  <2>5. step[i] = "skip" => ~Addressed(e)
    BY DEF ServiceInv, SkipsUnaddressed
  <2> QED
    BY <1>1, <1>2, <2>1, <2>3, <2>4, <2>5 DEF StepFinishes, Phase, Working, CompletedEvent
<1>8. CASE Raise(i) \/ PostRaises(i) \/ StatusRaises(i)
  <2>1. /\ Working(i) /\ row' = row /\ msg' = msg /\ step'[i] \in {"clear", "release"}
        /\ aborts' = [aborts EXCEPT ![e] = @ + 1]
        /\ \/ posts' = posts
           \/ step[i] = "post" /\ posts' = [posts EXCEPT ![e] = @ + 1]
    BY <1>1, <1>8
       DEF Raise, PostRaises, StatusRaises, Goto, Handler, Abort, Fail, Working, workVars
  <2> QED
    BY <1>2, <1>3, <2>1 DEF StepFails, Phase, Working
<1>9. CASE RouteFails(i) \/ Stop(i)
  <2>1. /\ row' = row /\ posts' = posts /\ msg' = msg /\ step'[i] = "end"
        /\ aborts' = IF Working(i) THEN [aborts EXCEPT ![e] = @ + 1] ELSE aborts
    BY <1>1, <1>9 DEF RouteFails, Stop, EndStep, Abort, Crash, claimsVars, workVars
  <2>2. CASE Working(i)
    BY <1>2, <1>3, <2>1, <2>2 DEF StepFails, Phase, Working
  <2>3. CASE ~Working(i)
    BY <1>3, <2>1, <2>3 DEF StepIsNothing, Phase, Working
  <2> QED
    BY <2>2, <2>3
<1>10. CASE Release(i)
  <2>1. /\ step[i] = "release" /\ step'[i] = "end" /\ posts' = posts /\ aborts' = aborts
        /\ msg' = msg
    BY <1>1, <1>10 DEF Release, EndStep, workVars, historyVars
  <2>2. pc[i] = "failed" /\ target[i] = e
    BY <1>1, <2>1 DEF Sync
  <2>3. row' = row \/ (row[e].status = "inflight" /\ row' = [row EXCEPT ![e] = Absent])
    BY <1>10, <2>2 DEF Release, ReleaseEvent, OwnsRow
  <2>4. CompletedEvent(e)' <=> CompletedEvent(e)
    BY <1>1, <1>3, <2>3 DEF CompletedEvent, Absent
  <2> QED
    BY <2>1, <2>4 DEF StepIsNothing, Phase, Working
<1>11. CASE Return(i) \/ ReturnLost(i)
  <2>1. /\ step[i] = "return" /\ step'[i] = "end" /\ row' = row /\ posts' = posts
        /\ aborts' = aborts
        /\ msg' = msg \/ DeleteMessage(MessageOf(i))
    BY <1>1, <1>11 DEF Return, ReturnLost, Leave, EndStep, workVars, historyVars
  <2>2. CompletedEvent(e)
    BY <1>1, <2>1 DEF Finished
  <2>3. Phase(i)' = Phase(i)
    BY <2>1 DEF Phase, Working
  <2> QED
    BY <1>3, <2>1, <2>2, <2>3, Zenon DEF StepIsNothing
<1> QED
  BY <1>4, <1>5, <1>6, <1>7, <1>8, <1>9, <1>10, <1>11 DEF Work, Trouble

StageMap == [e \in Event |-> EventStage(e)]
AttemptMap == [e \in Event |-> EventAttempt(e)]

(* A worker's step concerns no event but its own. *)
LEMMA WorkerOthers ==
  ASSUME ServiceInv, ~ResentWrites, [Next]_vars, NEW i \in Invocation, Work(i) \/ Trouble(i),
         NEW e \in Event, e = EventOf(i)
  PROVE  /\ EventAttempt(e) = Phase(i) /\ EventAttempt(e)' = Phase(i)'
         /\ \A d \in Event : d # e =>
              EventStage(d)' = EventStage(d) /\ EventAttempt(d)' = EventAttempt(d)
<1>1. /\ PathInv /\ TypeOK /\ QueueOrder /\ InFlight /\ Running(i) /\ EventOf(i)' = e
      /\ PathInv'
  BY WorkerFrame, RunningStep, PathInvStep DEF ServiceInv, RecoveryInv, PathInv
<1>2. \A j \in Invocation : j # i => Phase(j)' = Phase(j) /\ (Running(j)' <=> Running(j))
  BY <1>1, ClaimFrame DEF Phase, Working, Running
<1>3. ASSUME NEW d \in Event, d # e
      PROVE  EventStage(d)' = EventStage(d) /\ EventAttempt(d)' = EventAttempt(d)
  <2>1. \A j \in Invocation : Running(j) /\ EventOf(j) = d => Phase(j)' = Phase(j)
    BY <1>2, <1>3
  <2>2. EventAttempt(d)' = EventAttempt(d)
    BY <1>1, <2>1, AttemptStep
  <2>3. row'[d] = row[d]
    <3> SUFFICES ASSUME row'[d] # row[d] PROVE FALSE
      OBVIOUS
    <3>1. PICK k \in Invocation :
            /\ EventOf(k) = d
            /\ \/ pc[k] \in {"put", "update"} /\ pc'[k] = "held"
               \/ pc[k] = "held" /\ pc'[k] \in {"done", "failed"}
               \/ Release(k) /\ pc[k] = "failed"
      BY <1>1, RowStep
    <3>2. k # i
      BY <1>3, <3>1
    <3>3. pc'[k] = pc[k] /\ step'[k] = step[k]
      BY <1>1, <3>2, ClaimFrame
    <3>4. Release(k) => step[k] = "release" /\ step'[k] = "end"
      BY <1>1 DEF Release, EndStep, TypeOK
    <3> QED
      BY <3>1, <3>3, <3>4
  <2>4. ASSUME NEW m \in MessageId, msg[m].id = d \/ msg'[m].id = d
        PROVE  msg'[m].id = msg[m].id /\ msg'[m].status = msg[m].status
    <3>1. CASE msg' = msg
      BY <3>1
    <3>2. CASE DeleteMessage(MessageOf(i))
      <4>1. MessageOf(i) \in MessageId /\ msg[MessageOf(i)].id = e
        BY <1>1, InvocationType DEF EventOf
      <4> QED
        BY <1>1, <1>3, <2>4, <3>2, <4>1, DeleteStep
    <3> QED
      BY <3>1, <3>2, WorkerFrame
  <2>5. EventStage(d)' = EventStage(d)
    BY <2>3, <2>4, StageStep DEF CompletedEvent
  <2> QED
    BY <2>2, <2>5
<1>4. EventAttempt(e) = Phase(i)
  BY <1>1, AttemptOfRunner
<1>5. EventAttempt(e)' = Phase(i)'
  <2>1. CASE Running(i)'
    <3>1. EventAttempt(EventOf(i))' = Phase(i)'
      BY <1>1, <2>1, AttemptAfter
    <3>2. EventAttempt(EventOf(i))' = EventAttempt(e)'
      BY <1>1 DEF EventAttempt
    <3> QED
      BY <3>1, <3>2
  <2>2. CASE ~Running(i)'
    <3>1. ASSUME NEW j \in Invocation, Running(j)', EventOf(j)' = e
          PROVE  FALSE
      <4>1. j # i /\ Running(j)
        BY <1>2, <2>2, <3>1
      <4>2. EventOf(j) = e
        BY <1>1, <3>1, <4>1, RunningStep
      <4> QED
        BY <1>1, <4>1, <4>2, Alone
    <3>2. EventAttempt(e)' = "none"
      BY <3>1, AttemptAfter
    <3> QED
      BY <2>2, <3>2 DEF Phase, Working, Running
  <2> QED
    BY <2>1, <2>2
<1> QED
  BY <1>3, <1>4, <1>5

LEMMA WorkerServes ==
  ASSUME ServiceInv, ~ResentWrites, [Next]_vars, NEW i \in Invocation, Work(i) \/ Trouble(i)
  PROVE  [Service!ServiceNext]_(Service!serviceVars)
<1>1. /\ PathInv /\ TypeOK /\ QueueOrder /\ InFlight /\ Running(i) /\ EventOf(i) \in Event
      /\ MessageOf(i) \in MessageId /\ Queued(MessageOf(i))
  BY WorkerFrame, RunningMessage DEF ServiceInv, RecoveryInv, PathInv
<1>2. PICK e \in Event : e = EventOf(i)
  BY <1>1
<1>3. /\ EventAttempt(e) = Phase(i) /\ EventAttempt(e)' = Phase(i)'
      /\ \A d \in Event : d # e =>
           EventStage(d)' = EventStage(d) /\ EventAttempt(d)' = EventAttempt(d)
  BY <1>2, WorkerOthers
<1>4. AttemptMap' = [AttemptMap EXCEPT ![e] = Phase(i)']
  BY <1>3 DEF AttemptMap
<1>5. msg[MessageOf(i)].id = e
  BY <1>2 DEF EventOf
<1>6. ~CompletedEvent(e) => EventStage(e) = "pending"
  BY <1>1, <1>5 DEF EventStage
<1>7. msg' = msg /\ ~CompletedEvent(e)' => EventStage(e)' = "pending"
  BY <1>1, <1>5 DEF EventStage, Queued
<1>8. EventStage(e)' = EventStage(e) => StageMap' = StageMap
  BY <1>3 DEF StageMap
<1>9. AttemptMap[e] = Phase(i) /\ StageMap[e] = EventStage(e)
  BY <1>3 DEF AttemptMap, StageMap
<1>10. CompletedEvent(EventOf(i))' <=> CompletedEvent(e)'
  BY <1>1, <1>2, RunningStep DEF CompletedEvent
<1>11. CASE StepIsNothing(i)
  <2>1. CompletedEvent(e)' <=> CompletedEvent(e)
    BY <1>2, <1>10, <1>11 DEF StepIsNothing
  <2>2. \/ CompletedEvent(e)
        \/ \A m \in MessageId : msg[m].id = e \/ msg'[m].id = e =>
             msg'[m].id = msg[m].id /\ msg'[m].status = msg[m].status
    BY <1>2, <1>11 DEF StepIsNothing
  <2>3. EventStage(e)' = EventStage(e)
    BY <2>1, <2>2, StageStep
  <2>4. AttemptMap' = AttemptMap
    BY <1>3, <1>11 DEF AttemptMap, StepIsNothing
  <2>5. StageMap' = StageMap /\ posts' = posts /\ aborts' = aborts
    BY <1>8, <1>11, <2>3 DEF StepIsNothing
  <2> QED
    BY <2>4, <2>5 DEF Service!serviceVars, StageMap, AttemptMap
<1>12. CASE StepBegins(i)
  <2>1. /\ EventStage(e) = "pending" /\ StageMap' = StageMap
        /\ AttemptMap' = [AttemptMap EXCEPT ![e] = "begun"]
        /\ posts' = posts /\ aborts' = aborts
    BY <1>2, <1>4, <1>6, <1>7, <1>8, <1>10, <1>12 DEF StepBegins
  <2>2. ASSUME NEW d \in Event, Thread(d) = Thread(e)
        PROVE  EventAttempt(d) = "none"
    <3>1. CASE d = e
      BY <1>3, <1>12, <3>1 DEF StepBegins
    <3>2. CASE d # e
      <4>1. ASSUME NEW j \in Invocation, Running(j) PROVE EventOf(j) # d
        BY <1>1, <1>2, <2>2, <3>2, <4>1, Alone
      <4> QED
        BY <4>1, AttemptOfNobody
    <3> QED
      BY <3>1, <3>2
  <2>3. Service!Begin(e)
    BY <1>9, <2>1, <2>2 DEF Service!Begin, StageMap, AttemptMap
  <2> QED
    BY <2>3 DEF Service!ServiceNext
<1>13. CASE StepAnswers(i)
  <2>1. /\ StageMap' = StageMap /\ EventAttempt(e) = "begun"
        /\ AttemptMap' = [AttemptMap EXCEPT ![e] = "answered"]
        /\ posts' = [posts EXCEPT ![e] = @ + 1] /\ aborts' = aborts
    BY <1>2, <1>3, <1>4, <1>6, <1>7, <1>8, <1>10, <1>13 DEF StepAnswers
  <2>2. Service!Answer(e)
    BY <2>1 DEF Service!Answer, StageMap, AttemptMap
  <2> QED
    BY <2>2 DEF Service!ServiceNext
<1>14. CASE StepFinishes(i)
  <2>1. /\ EventStage(e) = "pending" /\ EventStage(e)' = "completed"
        /\ posts' = posts /\ aborts' = aborts
    BY <1>2, <1>6, <1>10, <1>14 DEF StepFinishes, EventStage
  <2>2. StageMap' = [StageMap EXCEPT ![e] = "completed"]
    BY <1>3, <2>1 DEF StageMap
  <2>3. /\ AttemptMap' = [AttemptMap EXCEPT ![e] = "none"]
        /\ EventAttempt(e) \in {"begun", "answered"}
        /\ EventAttempt(e) = "begun" => ~Addressed(e)
    BY <1>2, <1>3, <1>4, <1>14 DEF StepFinishes, Phase
  <2>4. Service!Finish(e)
    BY <2>1, <2>2, <2>3 DEF Service!Finish, StageMap, AttemptMap
  <2> QED
    BY <2>4 DEF Service!ServiceNext
<1>15. CASE StepFails(i)
  <2>1. /\ StageMap' = StageMap /\ EventAttempt(e) # "none"
        /\ AttemptMap' = [AttemptMap EXCEPT ![e] = "none"]
        /\ aborts' = [aborts EXCEPT ![e] = @ + 1]
        /\ \/ posts' = posts
           \/ EventAttempt(e) = "begun" /\ posts' = [posts EXCEPT ![e] = @ + 1]
    BY <1>2, <1>3, <1>4, <1>6, <1>7, <1>8, <1>10, <1>15 DEF StepFails
  <2>2. Service!FailAttempt(e)
    BY <2>1 DEF Service!FailAttempt, StageMap, AttemptMap
  <2> QED
    BY <2>2 DEF Service!ServiceNext
<1> QED
  BY <1>11, <1>12, <1>13, <1>14, <1>15, WorkerStep

(* A message that is queued has its event accepted, unless it was.         *)
LEMMA IngressServes ==
  ASSUME ServiceInv, [Next]_vars, NEW e \in Event, Ingress(e)
  PROVE  [Service!ServiceNext]_(Service!serviceVars)
<1>1. PathInv /\ TypeOK /\ QueueOrder
  BY DEF ServiceInv, RecoveryInv, PathInv
<1>2. step' = step /\ posts' = posts /\ aborts' = aborts /\ row' = row
  BY DEF Ingress, localVars, workVars, historyVars, claimsVars
<1>3. \A d \in Event : EventAttempt(d)' = EventAttempt(d)
  BY <1>1, <1>2, AttemptStep DEF Phase, Working
<1>4. CASE msg' = msg
  <2>1. \A d \in Event : EventStage(d)' = EventStage(d)
    BY <1>2, <1>4, StageStep DEF CompletedEvent
  <2> QED
    BY <1>2, <1>3, <2>1 DEF Service!serviceVars
<1>5. CASE msg' # msg
  <2>1. PICK n \in MessageId :
          /\ Unused(n) /\ msg'[n].id = e /\ msg'[n].status = "queued"
          /\ \A m \in MessageId : m # n => msg'[m] = msg[m]
    BY <1>1, <1>5, IngressStep
  <2>2. msg[n].id = None
    BY <1>1, <2>1 DEF QueueOrder, NoMessage
  <2>3. \A d \in Event : d # e => EventStage(d)' = EventStage(d)
    BY <1>2, <2>1, <2>2, ClaimsAssumption, StageStep DEF CompletedEvent
  <2>4. CASE EventStage(e)' = EventStage(e)
    <3>1. \A d \in Event : EventStage(d)' = EventStage(d)
      BY <2>3, <2>4
    <3> QED
      BY <1>2, <1>3, <3>1 DEF Service!serviceVars
  <2>5. CASE EventStage(e)' # EventStage(e)
    <3>1. ~CompletedEvent(e) /\ ~CompletedEvent(e)'
      BY <1>2, <2>5 DEF EventStage, CompletedEvent
    <3>2. EventStage(e)' = "pending"
      BY <2>1, <3>1 DEF EventStage, Queued
    <3>3. EventStage(e) \in {"new", "dead"}
      BY <2>5, <3>1, <3>2 DEF EventStage
    <3>4. StageMap' = [StageMap EXCEPT ![e] = "pending"] /\ AttemptMap' = AttemptMap
      BY <1>3, <2>3, <3>2 DEF StageMap, AttemptMap
    <3>5. Service!Accept(e)
      BY <1>2, <3>3, <3>4 DEF Service!Accept, StageMap, AttemptMap
    <3> QED
      BY <3>5 DEF Service!ServiceNext
  <2> QED
    BY <2>4, <2>5
<1> QED
  BY <1>4, <1>5

(* A message is dead-lettered when nobody works in its thread: its event   *)
(* is given up, unless it was completed or is queued once more.            *)
LEMMA RedriveServes ==
  ASSUME ServiceInv, [Next]_vars, NEW n \in MessageId, Redrive(n)
  PROVE  [Service!ServiceNext]_(Service!serviceVars)
<1>1. /\ PathInv /\ TypeOK /\ QueueOrder /\ InFlight
      /\ Front(n) /\ Queued(n) /\ ~Unused(n) /\ msg[n].visibleAt <= now
  BY DEF ServiceInv, RecoveryInv, PathInv, Redrive, DeadLetter, Front, Queued, Unused
<1>2. step' = step /\ posts' = posts /\ aborts' = aborts /\ row' = row
  BY DEF Redrive, localVars, workVars, historyVars, claimsVars
<1>3. \A d \in Event : EventAttempt(d)' = EventAttempt(d)
  BY <1>1, <1>2, AttemptStep DEF Phase, Working
<1>4. PICK e \in Event : msg[n].id = e
  BY <1>1 DEF TypeOK
<1>5. /\ msg'[n].id = e /\ msg'[n].status = "dead"
      /\ \A m \in MessageId : m # n => msg'[m] = msg[m]
  BY <1>1, <1>4, RedriveStep
<1>6. \A d \in Event : d # e => EventStage(d)' = EventStage(d)
  BY <1>2, <1>4, <1>5, StageStep DEF CompletedEvent
<1>7. EventAttempt(e) = "none"
  <2>1. ASSUME NEW j \in Invocation, Running(j), EventOf(j) = e PROVE FALSE
    <3>1. MessageOf(j) \in MessageId /\ Front(MessageOf(j)) /\ ~Unused(MessageOf(j))
      BY <1>1, <2>1, RunningMessage DEF InFlight
    <3>2. msg[MessageOf(j)].group = msg[n].group
      BY <1>1, <1>4, <2>1, <3>1 DEF QueueOrder, EventOf
    <3>3. MessageOf(j) = n
      BY <1>1, <3>1, <3>2, FrontUnique
    <3> QED
      BY <1>1, <2>1, <3>3, Hidden
  <2> QED
    BY <2>1, AttemptOfNobody
<1>8. CASE EventStage(e)' = EventStage(e)
  <2>1. \A d \in Event : EventStage(d)' = EventStage(d)
    BY <1>6, <1>8
  <2> QED
    BY <1>2, <1>3, <2>1 DEF Service!serviceVars
<1>9. CASE EventStage(e)' # EventStage(e)
  <2>1. ~CompletedEvent(e) /\ ~CompletedEvent(e)'
    BY <1>2, <1>9 DEF EventStage, CompletedEvent
  <2>2. EventStage(e) = "pending"
    BY <1>1, <1>4, <2>1 DEF EventStage
  <2>3. EventStage(e)' = "dead"
    BY <1>5, <1>9, <2>1, <2>2 DEF EventStage, DeadLettered
  <2>4. StageMap' = [StageMap EXCEPT ![e] = "dead"] /\ AttemptMap' = AttemptMap
    BY <1>3, <1>6, <2>3 DEF StageMap, AttemptMap
  <2>5. Service!GiveUp(e)
    BY <1>2, <1>7, <2>2, <2>4 DEF Service!GiveUp, StageMap, AttemptMap
  <2> QED
    BY <2>5 DEF Service!ServiceNext
<1> QED
  BY <1>8, <1>9

(* Nothing that Slack, the queue and the clock do besides is seen.         *)
LEMMA NobodyServes ==
  ASSUME ServiceInv, [Next]_vars, step' = step \/ \E m \in MessageId : Receive(m),
         posts' = posts, aborts' = aborts, row' = row,
         \A m \in MessageId : msg'[m].id = msg[m].id /\ msg'[m].status = msg[m].status
  PROVE  UNCHANGED Service!serviceVars
<1>1. PathInv /\ TypeOK /\ InFlight
  BY DEF ServiceInv, RecoveryInv, PathInv
<1>2. ASSUME NEW i \in Invocation, Running(i) PROVE Phase(i)' = Phase(i)
  <2>1. step'[i] = step[i]
    <3>1. ASSUME NEW m \in MessageId, Receive(m), step'[i] # step[i] PROVE FALSE
      <4>1. i = <<m, msg[m].received + 1>>
        BY <1>1, <3>1 DEF Receive, TypeOK
      <4>2. ReceiveOf(i) = msg[MessageOf(i)].received + 1
        BY <4>1 DEF MessageOf, ReceiveOf
      <4> QED
        BY <1>1, <1>2, <4>2, NumberTypes DEF InFlight
    <3> QED
      BY <3>1
  <2> QED
    BY <2>1 DEF Phase, Working
<1>3. \A e \in Event : EventAttempt(e)' = EventAttempt(e)
  BY <1>1, <1>2, AttemptStep
<1>4. \A e \in Event : EventStage(e)' = EventStage(e)
  BY StageStep DEF CompletedEvent
<1> QED
  BY <1>3, <1>4 DEF Service!serviceVars

LEMMA ServiceStep ==
  ASSUME ServiceInv, ~ResentWrites, [Next]_vars
  PROVE  [Service!ServiceNext]_(Service!serviceVars)
<1>1. PathInv /\ TypeOK
  BY DEF ServiceInv, RecoveryInv, PathInv
<1>2. ASSUME NEW m \in MessageId, Receive(m)
      PROVE  UNCHANGED Service!serviceVars
  <2>1. msg[m].status = "queued"
    BY <1>2 DEF Receive, ReceiveMessage, Front, Queued
  <2>2. \A k \in MessageId : msg'[k].id = msg[k].id /\ msg'[k].status = msg[k].status
    BY <1>1, <1>2, <2>1, ReceiveStep
  <2>3. posts' = posts /\ aborts' = aborts /\ row' = row
    BY <1>2 DEF Receive, workVars, historyVars, claimsVars
  <2> QED
    BY <1>2, <2>2, <2>3, NobodyServes
<1>3. ASSUME TimePasses \/ (\E e \in Event : IngressFails(e)) \/ UNCHANGED vars
      PROVE  UNCHANGED Service!serviceVars
  <2>1. msg' = msg /\ step' = step /\ posts' = posts /\ aborts' = aborts /\ row' = row
    BY <1>3 DEF TimePasses, Tick, IngressFails, localVars, workVars, historyVars, claimsVars,
       tableVars, vars
  <2> QED
    BY <2>1, NobodyServes
<1> QED
  BY <1>2, <1>3, IngressServes, RedriveServes, WorkerServes DEF Next

LEMMA ServiceStart == Init => Service!ServiceInit
<1> SUFFICES ASSUME Init PROVE Service!ServiceInit
  OBVIOUS
<1>1. ASSUME NEW e \in Event PROVE EventStage(e) = "new" /\ EventAttempt(e) = "none"
  <2>1. ~CompletedEvent(e)
    BY DEF Init, ClaimsInit, Absent, CompletedEvent
  <2>2. \A m \in MessageId : msg[m].id # e
    BY ClaimsAssumption DEF Init, QueueInit, NoMessage
  <2>3. \A i \in Invocation : step[i] = "idle"
    BY DEF Init
  <2> QED
    BY <2>1, <2>2, <2>3 DEF EventStage, EventAttempt, Working
<1> QED
  BY <1>1 DEF Init, Service!ServiceInit

(* Whoever sees neither queue nor leases sees a service: what is accepted  *)
(* is pending until it is completed or dead-lettered, attempts in a thread *)
(* come one after the other, what is addressed to the bot is completed     *)
(* only with a reply, and an attempt that failed leaves its event pending. *)
THEOREM PathImplementsService ==
  ASSUME LeaseEndsInTime, ~ResentWrites
  PROVE  Spec => ImplementsService
<1>1. ServiceInv /\ [Next]_vars => [Service!ServiceNext]_(Service!serviceVars)
  BY ServiceStep
<1> QED
  BY <1>1, ServiceStart, ServiceInvariant, PTL
     DEF Spec, ImplementsService, Service!ServiceSpec

(* What follows for somebody who knows the service only: an event that is  *)
(* addressed to the bot is not completed without a reply.                  *)
AnsweredWhenDone ==
  \A e \in Event :
    /\ EventAttempt(e) = "answered" => posts[e] > 0
    /\ CompletedEvent(e) /\ Addressed(e) => posts[e] > 0

LEMMA AnsweredStep ==
  ASSUME TypeOK, [Service!ServiceNext]_(Service!serviceVars), AnsweredWhenDone
  PROVE  AnsweredWhenDone'
<1> SUFFICES ASSUME NEW e \in Event
             PROVE  /\ EventAttempt(e)' = "answered" => posts'[e] > 0
                    /\ CompletedEvent(e)' /\ Addressed(e) => posts'[e] > 0
  BY DEF AnsweredWhenDone, Addressed, Ignored, IsDirect, IsMention, IsFollowup
<1>1. /\ posts \in [Event -> Nat] /\ posts[e] \in Nat
      /\ EventAttempt(e) = "answered" => posts[e] > 0
      /\ CompletedEvent(e) /\ Addressed(e) => posts[e] > 0
  BY DEF TypeOK, AnsweredWhenDone
<1>2. AttemptMap[e] = EventAttempt(e) /\ AttemptMap'[e] = EventAttempt(e)'
  BY DEF AttemptMap
<1>3. /\ StageMap[e] = "completed" <=> CompletedEvent(e)
      /\ StageMap'[e] = "completed" <=> CompletedEvent(e)'
  BY DEF StageMap, EventStage
<1>4. AttemptMap \in [Event -> {"none", "begun", "answered"}]
  BY DEF AttemptMap, EventAttempt
<1>5. StageMap \in [Event -> {"new", "pending", "completed", "dead"}]
  BY DEF StageMap, EventStage
<1>6. posts'[e] \in Nat /\ posts'[e] >= posts[e]
  <2>1. posts' = posts \/ \E d \in Event : posts' = [posts EXCEPT ![d] = @ + 1]
    BY DEF Service!ServiceNext, Service!serviceVars, Service!Accept, Service!Begin,
       Service!Answer, Service!Finish, Service!FailAttempt, Service!GiveUp
  <2>2. posts'[e] = posts[e] \/ posts'[e] = posts[e] + 1
    BY <1>1, <2>1
  <2> QED
    BY <1>1, <2>2
<1>7. AttemptMap'[e] = "answered" => AttemptMap[e] = "answered" \/ posts'[e] = posts[e] + 1
  BY <1>1, <1>4 DEF Service!ServiceNext, Service!serviceVars, Service!Accept, Service!Begin,
     Service!Answer, Service!Finish, Service!FailAttempt, Service!GiveUp, AttemptMap
<1>8. StageMap'[e] = "completed" =>
        StageMap[e] = "completed" \/ AttemptMap[e] = "answered" \/ ~Addressed(e)
  BY <1>5 DEF Service!ServiceNext, Service!serviceVars, Service!Accept, Service!Begin,
     Service!Answer, Service!Finish, Service!FailAttempt, Service!GiveUp, StageMap, AttemptMap
<1> QED
  BY <1>1, <1>2, <1>3, <1>6, <1>7, <1>8

(* A direct message or a mention that was completed had a reply, however   *)
(* its attempts went: the worker completes an event only after the post,   *)
(* and a refused or repeated claim completes nothing.                      *)
THEOREM CompletedWereAnswered ==
  ASSUME LeaseEndsInTime, ~ResentWrites
  PROVE  Spec => [](\A e \in Event : CompletedEvent(e) /\ Addressed(e) => posts[e] > 0)
<1>1. Init => AnsweredWhenDone
  <2> SUFFICES ASSUME Init, NEW e \in Event PROVE ~CompletedEvent(e) /\ EventAttempt(e) = "none"
    BY DEF AnsweredWhenDone
  <2>1. row[e] = Absent /\ \A i \in Invocation : step[i] = "idle"
    BY DEF Init, ClaimsInit
  <2> QED
    BY <2>1 DEF Absent, CompletedEvent, EventAttempt, Working
<1>2. ServiceInv /\ AnsweredWhenDone /\ [Next]_vars => AnsweredWhenDone'
  BY ServiceStep, AnsweredStep DEF ServiceInv, RecoveryInv, PathInv
<1>3. AnsweredWhenDone => \A e \in Event : CompletedEvent(e) /\ Addressed(e) => posts[e] > 0
  BY DEF AnsweredWhenDone
<1> QED
  BY <1>1, <1>2, <1>3, ServiceInvariant, PTL DEF Spec
=============================================================================
