------------------------ MODULE SlackEventsProofs ------------------------
(***************************************************************************)
(* What holds of the Slack Events path for any conversation, any number of *)
(* deliveries, messages and receives, any times, and with conditional      *)
(* writes that are sent again or not.                                      *)
(*                                                                         *)
(* Sync ties the place of an invocation in process to that of its claim.   *)
(* QueueOrder and InFlight say what the FIFO queue guarantees: a running   *)
(* invocation works on the message at the front of its group, which stays  *)
(* hidden until after the worker's timeout, so no two of them share a      *)
(* thread.                                                                 *)
(***************************************************************************)
EXTENDS SlackEvents, EventClaimsProofs

(* Messages are used in order, and one that was received stays at the      *)
(* front of its group until it is out of the queue.                        *)
QueueOrder ==
  /\ \A m \in MessageId : Unused(m) => msg[m] = NoMessage
  /\ \A m \in MessageId : ~Unused(m) => msg[m].group = Thread(msg[m].id)
  /\ \A k, m \in MessageId : k < m /\ ~Unused(m) => ~Unused(k)
  /\ \A m \in MessageId : Queued(m) /\ msg[m].received > 0 => Front(m)

(* The message of a running invocation is at the front of its group, and   *)
(* hidden until long after the invocation is cut off; an invocation of a   *)
(* receive that is still to come did not begin.                            *)
InFlight ==
  /\ \A i \in Invocation : step[i] # "idle" => ReceiveOf(i) <= msg[MessageOf(i)].received
  /\ \A i \in Invocation : Running(i) =>
       /\ Front(MessageOf(i))
       /\ msg[MessageOf(i)].received = ReceiveOf(i)
       /\ msg[MessageOf(i)].visibleAt = started[i] + Visibility
       /\ started[i] <= now
       /\ now <= started[i] + WorkerTimeout

(* Where process is, and where its claim is. *)
Sync ==
  \A i \in Invocation :
    /\ step[i] \in {"idle", "route"} => pc[i] = "idle"
    /\ step[i] = "claim" => pc[i] \in {"put", "update"}
    /\ Working(i) => pc[i] = "held"
    /\ step[i] \in {"clear", "release"} => pc[i] = "failed"
    /\ step[i] = "return" => pc[i] \in {"refused", "done"}
    /\ step[i] = "end" => pc[i] \in {"idle", "over"}
    /\ pc[i] \notin {"idle", "over"} => target[i] = EventOf(i)

PathInv == TypeOK /\ QueueOrder /\ InFlight /\ Sync

-----------------------------------------------------------------------------
(* What the steps change *)

LEMMA InvocationType ==
  ASSUME NEW i \in Invocation
  PROVE  /\ MessageOf(i) \in MessageId /\ ReceiveOf(i) \in 1..MaxReceive
         /\ i = <<MessageOf(i), ReceiveOf(i)>>
BY SlackEventsAssumption DEF MessageOf, ReceiveOf

LEMMA MessageIdType == MessageId \subseteq Nat
BY SlackEventsAssumption DEF MessageId

LEMMA ThreadType == ASSUME NEW e \in Event PROVE Thread(e) \in Ts
BY SlackEventsAssumption DEF Thread, Envelope

(* A step of a worker changes nothing of the others and nothing of the     *)
(* queue, except that the message is deleted when it returns.              *)
LEMMA WorkerFrame ==
  ASSUME NEW i \in Invocation, Work(i) \/ Trouble(i)
  PROVE  /\ Running(i)
         /\ now' = now /\ slack' = slack
         /\ \/ /\ \E s \in Step \ {"idle", "route", "end"} : step' = [step EXCEPT ![i] = s]
               /\ started' = started /\ msg' = msg
            \/ /\ step' = [step EXCEPT ![i] = "end"]
               /\ started' = [started EXCEPT ![i] = 0]
               /\ msg' = msg \/ (step[i] = "return" /\ DeleteMessage(MessageOf(i)))
<1> USE DEF Step, Running, Goto, EndStep
<1>1. CASE Route(i)
  BY <1>1 DEF Route, ClaimEvent
<1>2. CASE TryClaim(i)
  <2>1. now' = now /\ step[i] = "claim" /\ slack' = slack /\ msg' = msg /\ started' = started
    BY <1>2 DEF TryClaim, ClaimPut, ClaimPutResent, ClaimUpdate, ClaimUpdateResent
  <2>2. \E s \in {"message", "return", "claim"} : step' = [step EXCEPT ![i] = s]
    BY <1>2 DEF TryClaim
  <2> QED
    BY <2>1, <2>2
<1>3. CASE Message(i)
  BY <1>3 DEF Message, claimsVars
<1>4. CASE Reply(i)
  BY <1>4 DEF Reply, claimsVars
<1>5. CASE Invoke(i) \/ Post(i) \/ Clear(i)
  BY <1>5 DEF Invoke, Post, Clear, claimsVars
<1>6. CASE Complete(i)
  <2>1. now' = now /\ step[i] \in {"complete", "skip"} /\ slack' = slack /\ msg' = msg
        /\ started' = started
    BY <1>6 DEF Complete, CompleteEvent, CompleteEventResent
  <2>2. \E s \in {"return", "release", "clear"} : step' = [step EXCEPT ![i] = s]
    BY <1>6 DEF Complete, Handler
  <2> QED
    BY <2>1, <2>2
<1>7. CASE Release(i)
  BY <1>7 DEF Release, ReleaseEvent
<1>8. CASE Return(i) \/ ReturnLost(i)
  BY <1>8 DEF Return, ReturnLost, Leave
<1>9. CASE RouteFails(i) \/ ClearRaises(i) \/ Stop(i)
  BY <1>9 DEF RouteFails, ClearRaises, Stop, Crash, claimsVars
<1>10. CASE Raise(i) \/ PostRaises(i) \/ StatusRaises(i)
  BY <1>10 DEF Raise, PostRaises, StatusRaises, Fail, Working, Handler
<1> QED
  BY <1>1, <1>2, <1>3, <1>4, <1>5, <1>6, <1>7, <1>8, <1>9, <1>10 DEF Work, Trouble

(* What becomes of the message that a step is about. *)
LEMMA ReceiveStep ==
  ASSUME TypeOK, NEW m \in MessageId, Receive(m)
  PROVE  /\ msg' \in [MessageId -> MessageRecord]
         /\ \A k \in MessageId : k # m => msg'[k] = msg[k]
         /\ msg'[m].id = msg[m].id /\ msg'[m].group = msg[m].group
         /\ msg'[m].status = "queued" /\ msg'[m].sentAt = msg[m].sentAt
         /\ msg'[m].received = msg[m].received + 1
         /\ msg'[m].visibleAt = now + Visibility
         /\ <<m, msg[m].received + 1>> \in Invocation
<1> USE SlackEventsAssumption DEF TypeOK, ClaimsTypeOK
<1>1. /\ msg[m] \in MessageRecord /\ now \in Nat /\ msg[m].status = "queued"
      /\ msg[m].received < MaxReceive
      /\ msg' = [msg EXCEPT ![m].received = @ + 1, ![m].visibleAt = now + Visibility]
  BY DEF Receive, ReceiveMessage, Front, Queued
<1>2. msg' = [msg EXCEPT ![m] = [msg[m] EXCEPT !.received = @ + 1,
                                               !.visibleAt = now + Visibility]]
  BY <1>1
<1>3. msg'[m] = [id |-> msg[m].id, group |-> msg[m].group, status |-> msg[m].status,
                 sentAt |-> msg[m].sentAt, received |-> msg[m].received + 1,
                 visibleAt |-> now + Visibility]
  BY <1>1, <1>2 DEF MessageRecord
<1>4. Visibility \in Nat
  BY DEF Visibility
<1>5. msg'[m] \in MessageRecord /\ msg[m].received \in Nat
  BY <1>1, <1>3, <1>4 DEF MessageRecord
<1>6. <<m, msg[m].received + 1>> \in MessageId \X (1..MaxReceive)
  BY <1>1, <1>5
<1> QED
  BY <1>1, <1>2, <1>3, <1>5, <1>6

LEMMA RedriveStep ==
  ASSUME TypeOK, NEW m \in MessageId, Redrive(m)
  PROVE  /\ msg' \in [MessageId -> MessageRecord]
         /\ \A k \in MessageId : k # m => msg'[k] = msg[k]
         /\ msg'[m].id = msg[m].id /\ msg'[m].group = msg[m].group
         /\ msg'[m].status = "dead" /\ msg'[m].received = msg[m].received
<1> USE DEF TypeOK
<1>1. /\ msg[m] \in MessageRecord
      /\ msg' = [msg EXCEPT ![m].status = "dead", ![m].visibleAt = 0]
  BY DEF Redrive, DeadLetter
<1>2. msg' = [msg EXCEPT ![m] = [msg[m] EXCEPT !.status = "dead", !.visibleAt = 0]]
  BY <1>1
<1>3. msg'[m] = [id |-> msg[m].id, group |-> msg[m].group, status |-> "dead",
                 sentAt |-> msg[m].sentAt, received |-> msg[m].received, visibleAt |-> 0]
  BY <1>1, <1>2 DEF MessageRecord
<1>4. msg'[m] \in MessageRecord
  BY <1>1, <1>3 DEF MessageRecord
<1> QED
  BY <1>2, <1>3, <1>4

LEMMA DeleteStep ==
  ASSUME TypeOK, NEW m \in MessageId, DeleteMessage(m)
  PROVE  /\ msg' \in [MessageId -> MessageRecord]
         /\ \A k \in MessageId : k # m => msg'[k] = msg[k]
         /\ msg'[m].id = msg[m].id /\ msg'[m].group = msg[m].group
         /\ msg'[m].status = "deleted" /\ msg'[m].received = msg[m].received
<1> USE DEF TypeOK
<1>1. /\ msg[m] \in MessageRecord
      /\ msg' = [msg EXCEPT ![m].status = "deleted", ![m].visibleAt = 0]
  BY DEF DeleteMessage
<1>2. msg' = [msg EXCEPT ![m] = [msg[m] EXCEPT !.status = "deleted", !.visibleAt = 0]]
  BY <1>1
<1>3. msg'[m] = [id |-> msg[m].id, group |-> msg[m].group, status |-> "deleted",
                 sentAt |-> msg[m].sentAt, received |-> msg[m].received, visibleAt |-> 0]
  BY <1>1, <1>2 DEF MessageRecord
<1>4. msg'[m] \in MessageRecord
  BY <1>1, <1>3 DEF MessageRecord
<1> QED
  BY <1>2, <1>3, <1>4

LEMMA IngressStep ==
  ASSUME TypeOK, NEW e \in Event, Ingress(e), msg' # msg
  PROVE  \E m \in MessageId :
           /\ Unused(m) /\ \A k \in MessageId : k < m => ~Unused(k)
           /\ msg' \in [MessageId -> MessageRecord]
           /\ \A k \in MessageId : k # m => msg'[k] = msg[k]
           /\ msg'[m].id = e /\ msg'[m].group = Thread(e)
           /\ msg'[m].status = "queued" /\ msg'[m].received = 0
<1>1. Enqueue(e, Thread(e), now)
  BY DEF Ingress, SendMessage
<1>2. PICK m \in MessageId :
        /\ Unused(m) /\ \A k \in MessageId : k < m => ~Unused(k)
        /\ msg' = [msg EXCEPT ![m] =
             [id |-> e, group |-> Thread(e), status |-> "queued", sentAt |-> now,
              received |-> 0, visibleAt |-> now]]
  BY <1>1 DEF Enqueue
<1>3. msg'[m] = [id |-> e, group |-> Thread(e), status |-> "queued", sentAt |-> now,
                 received |-> 0, visibleAt |-> now]
  BY <1>2 DEF TypeOK
<1>4. msg'[m] \in MessageRecord
  BY <1>3, ThreadType DEF TypeOK, ClaimsTypeOK, MessageRecord
<1> QED
  BY <1>2, <1>3, <1>4 DEF TypeOK

-----------------------------------------------------------------------------
(* The path uses the claims only through their operations *)

LEMMA RunningMessage ==
  ASSUME TypeOK, InFlight, NEW i \in Invocation, Running(i)
  PROVE  /\ MessageOf(i) \in MessageId /\ Queued(MessageOf(i)) /\ ~Unused(MessageOf(i))
         /\ EventOf(i) \in Event
BY InvocationType DEF TypeOK, InFlight, Front, Queued, Unused, EventOf

LEMMA ClaimsStep == TypeOK /\ InFlight /\ [Next]_vars => [ClaimsNext]_claimsVars
<1> SUFFICES ASSUME TypeOK, InFlight, [Next]_vars PROVE ClaimsNext \/ UNCHANGED claimsVars
  OBVIOUS
<1>1. ASSUME NEW e \in Event, Ingress(e) \/ IngressFails(e)
      PROVE  UNCHANGED claimsVars
  BY <1>1 DEF Ingress, IngressFails
<1>2. ASSUME NEW m \in MessageId, Receive(m) \/ Redrive(m)
      PROVE  UNCHANGED claimsVars
  BY <1>2 DEF Receive, Redrive
<1>3. ASSUME NEW i \in Invocation, Work(i)
      PROVE  ClaimsNext \/ UNCHANGED claimsVars
  <2>1. CASE Route(i)
    <3>1. EventOf(i) \in Event
      BY <1>3, RunningMessage, WorkerFrame
    <3> QED
      BY <2>1, <3>1 DEF Route, ClaimsNext
  <2> QED
    BY <1>3, <2>1 DEF Work, TryClaim, Message, Reply, Invoke, Post, Complete, Clear,
       Release, Return, ClaimsNext
<1>4. ASSUME NEW i \in Invocation, Trouble(i)
      PROVE  ClaimsNext \/ UNCHANGED claimsVars
  BY <1>4 DEF Trouble, RouteFails, Raise, PostRaises, StatusRaises, ClearRaises, Stop,
     ReturnLost, ClaimsNext
<1>5. CASE TimePasses
  BY <1>5 DEF TimePasses, ClaimsNext
<1>6. CASE UNCHANGED vars
  BY <1>6 DEF vars
<1> QED
  BY <1>1, <1>2, <1>3, <1>4, <1>5, <1>6 DEF Next

-----------------------------------------------------------------------------
(* Type correctness *)

LEMMA MessageTypeStep ==
  ASSUME TypeOK, InFlight, [Next]_vars
  PROVE  /\ msg' \in [MessageId -> MessageRecord]
         /\ \A m \in MessageId : ~Unused(m)' => msg'[m].id \in Event
         /\ \A m \in MessageId : ~Unused(m) =>
              ~Unused(m)' /\ msg'[m].id = msg[m].id /\ msg'[m].group = msg[m].group
<1> USE DEF Unused
<1>1. CASE msg' = msg
  BY <1>1 DEF TypeOK
<1>2. ASSUME NEW e \in Event, Ingress(e), msg' # msg
      PROVE  /\ msg' \in [MessageId -> MessageRecord]
             /\ \A m \in MessageId : ~Unused(m)' => msg'[m].id \in Event
             /\ \A m \in MessageId : ~Unused(m) =>
                  ~Unused(m)' /\ msg'[m].id = msg[m].id /\ msg'[m].group = msg[m].group
  BY <1>2, IngressStep DEF TypeOK
<1>3. ASSUME NEW m \in MessageId,
             Receive(m) \/ Redrive(m) \/ DeleteMessage(m)
      PROVE  /\ msg' \in [MessageId -> MessageRecord]
             /\ \A k \in MessageId : ~Unused(k)' => msg'[k].id \in Event
             /\ \A k \in MessageId : ~Unused(k) =>
                  ~Unused(k)' /\ msg'[k].id = msg[k].id /\ msg'[k].group = msg[k].group
  <2>1. Queued(m)
    BY <1>3 DEF Receive, ReceiveMessage, Redrive, DeadLetter, DeleteMessage, Front
  <2>2. /\ msg' \in [MessageId -> MessageRecord]
        /\ \A k \in MessageId : k # m => msg'[k] = msg[k]
        /\ msg'[m].id = msg[m].id /\ msg'[m].group = msg[m].group
        /\ msg'[m].status \in {"queued", "dead", "deleted"}
    BY <1>3, ReceiveStep, RedriveStep, DeleteStep
  <2> QED
    BY <2>1, <2>2 DEF TypeOK, Queued
<1>4. ASSUME NEW i \in Invocation, Work(i) \/ Trouble(i), msg' # msg
      PROVE  MessageOf(i) \in MessageId /\ DeleteMessage(MessageOf(i))
  BY <1>4, WorkerFrame, InvocationType
<1> QED
  BY <1>1, <1>2, <1>3, <1>4 DEF Next, IngressFails, TimePasses, vars

LEMMA InitType == Init => TypeOK
<1> SUFFICES ASSUME Init PROVE TypeOK
  OBVIOUS
<1>1. NoMessage \in MessageRecord
  BY DEF NoMessage, MessageRecord
<1> QED
  BY <1>1, ClaimsTypeInit DEF Init, QueueInit, TypeOK, Step, Unused, NoMessage

LEMMA TypeStep == TypeOK /\ InFlight /\ [Next]_vars => TypeOK'
<1> SUFFICES ASSUME TypeOK, InFlight, [Next]_vars PROVE TypeOK'
  OBVIOUS
<1>1. ClaimsTypeOK'
  BY ClaimsStep, ClaimsTypeStep DEF TypeOK
<1>2. /\ msg' \in [MessageId -> MessageRecord]
      /\ \A m \in MessageId : ~Unused(m)' => msg'[m].id \in Event
  BY MessageTypeStep
<1> DEFINE Rest == /\ slack \in [Event -> [tries: Nat, answered: BOOLEAN]]
                   /\ started \in [Invocation -> Nat]
                   /\ step \in [Invocation -> Step]
                   /\ threads \subseteq Ts
                   /\ session \in [Ts -> Event \cup {None}]
                   /\ using \in [Invocation -> Event \cup {None}]
                   /\ posts \in [Event -> Nat]
                   /\ aborts \in [Event -> Nat]
                   /\ otherFault \subseteq Event
<1>3. Rest
  BY DEF TypeOK
<1>4. ASSUME NEW e \in Event, Ingress(e) \/ IngressFails(e)
      PROVE  Rest'
  <2>1. slack' \in [Event -> [tries: Nat, answered: BOOLEAN]]
    BY <1>3, <1>4 DEF Ingress, IngressFails
  <2> QED
    BY <1>3, <1>4, <2>1 DEF Ingress, IngressFails, localVars, workVars, historyVars
<1>5. ASSUME NEW m \in MessageId, Receive(m) \/ Redrive(m)
      PROVE  Rest'
  BY <1>3, <1>5 DEF Receive, Redrive, Step, localVars, workVars, historyVars, TypeOK,
     ClaimsTypeOK
<1>6. ASSUME NEW i \in Invocation, Work(i) \/ Trouble(i)
      PROVE  Rest'
  <2>1. EventOf(i) \in Event /\ Thread(EventOf(i)) \in Ts
    BY <1>6, RunningMessage, ThreadType, WorkerFrame
  <2>2. slack' = slack /\ started' \in [Invocation -> Nat] /\ step' \in [Invocation -> Step]
    BY <1>3, <1>6, WorkerFrame DEF Step
  <2>3. threads' \subseteq Ts
    BY <1>3, <1>6, <2>1 DEF Work, Trouble, Route, TryClaim, Message, Reply, Invoke, Post,
       Complete, Clear, Release, Return, RouteFails, Raise, PostRaises, StatusRaises,
       ClearRaises, Stop, ReturnLost, workVars
  <2>4. session' \in [Ts -> Event \cup {None}]
    BY <1>3, <1>6, <2>1 DEF Work, Trouble, Route, TryClaim, Message, Reply, Invoke, Post,
       Complete, Clear, Release, Return, RouteFails, Raise, PostRaises, StatusRaises,
       ClearRaises, Stop, ReturnLost, workVars
  <2>5. using' \in [Invocation -> Event \cup {None}]
    BY <1>3, <1>6, <2>1 DEF Work, Trouble, Route, TryClaim, Message, Reply, Invoke, Post,
       Complete, Clear, Release, Return, RouteFails, Raise, PostRaises, StatusRaises,
       ClearRaises, Stop, ReturnLost, Goto, EndStep
  <2>6. posts' \in [Event -> Nat]
    BY <1>3, <1>6, <2>1 DEF Work, Trouble, Route, TryClaim, Message, Reply, Invoke, Post,
       Complete, Clear, Release, Return, RouteFails, Raise, PostRaises, StatusRaises,
       ClearRaises, Stop, ReturnLost, workVars
  <2>7. aborts' \in [Event -> Nat]
    BY <1>3, <1>6, <2>1 DEF Work, Trouble, Route, TryClaim, Message, Reply, Invoke, Post,
       Complete, Clear, Release, Return, RouteFails, Raise, PostRaises, StatusRaises,
       ClearRaises, Stop, ReturnLost, historyVars, Abort
  <2>8. otherFault' \subseteq Event
    BY <1>3, <1>6, <2>1 DEF Work, Trouble, Route, TryClaim, Message, Reply, Invoke, Post,
       Complete, Clear, Release, Return, RouteFails, Raise, PostRaises, StatusRaises,
       ClearRaises, Stop, ReturnLost, historyVars, OtherFault
  <2> QED
    BY <1>3, <2>2, <2>3, <2>4, <2>5, <2>6, <2>7, <2>8
<1>7. ASSUME TimePasses \/ UNCHANGED vars
      PROVE  Rest'
  <2>1. /\ slack' = slack /\ started' = started /\ step' = step /\ using' = using
        /\ threads' = threads /\ session' = session /\ posts' = posts
        /\ aborts' = aborts /\ otherFault' = otherFault
    BY <1>7 DEF TimePasses, vars, localVars, workVars, historyVars
  <2> QED
    BY <1>3, <2>1
<1> HIDE DEF Rest
<1>8. Rest'
  BY <1>4, <1>5, <1>6, <1>7 DEF Next
<1> QED
  BY <1>1, <1>2, <1>8 DEF TypeOK, Rest

-----------------------------------------------------------------------------
(* What the queue guarantees *)

LEMMA FrontUnique ==
  ASSUME NEW k \in MessageId, NEW m \in MessageId, Front(k), Front(m),
         msg[k].group = msg[m].group
  PROVE  k = m
BY MessageIdType DEF Front

(* At most one invocation runs in a thread. *)
LEMMA Alone ==
  ASSUME TypeOK, QueueOrder, InFlight, NEW i \in Invocation, NEW j \in Invocation,
         Running(i), Running(j), Thread(EventOf(i)) = Thread(EventOf(j))
  PROVE  i = j
<1>1. /\ MessageOf(i) \in MessageId /\ ~Unused(MessageOf(i)) /\ Front(MessageOf(i))
      /\ MessageOf(j) \in MessageId /\ ~Unused(MessageOf(j)) /\ Front(MessageOf(j))
  BY RunningMessage DEF InFlight
<1>2. msg[MessageOf(i)].group = msg[MessageOf(j)].group
  BY <1>1 DEF QueueOrder, EventOf
<1>3. MessageOf(i) = MessageOf(j)
  BY <1>1, <1>2, FrontUnique
<1>4. ReceiveOf(i) = ReceiveOf(j)
  BY <1>3 DEF InFlight
<1> QED
  BY <1>3, <1>4, InvocationType

(* A message that can be received or dead-lettered has no running          *)
(* invocation.                                                             *)
LEMMA Hidden ==
  ASSUME TypeOK, InFlight, NEW m \in MessageId, msg[m].visibleAt <= now,
         NEW i \in Invocation, Running(i)
  PROVE  MessageOf(i) # m
<1>1. started[i] \in Nat /\ now \in Nat /\ WorkerTimeout \in Nat \ {0}
  BY SlackEventsAssumption DEF TypeOK, ClaimsTypeOK
<1> QED
  BY <1>1 DEF InFlight, Visibility

(* A queued message keeps its place until it is received, dead-lettered or *)
(* deleted.                                                                *)
LEMMA FrontStep ==
  ASSUME TypeOK, QueueOrder, InFlight, [Next]_vars, NEW m \in MessageId, Front(m),
         Queued(m)'
  PROVE  Front(m)'
<1>1. \A k \in MessageId : k < m /\ Queued(k)' => Queued(k)
  <2>1. ASSUME NEW e \in Event, Ingress(e), msg' # msg, NEW k \in MessageId, k < m,
               Queued(k)'
        PROVE  Queued(k)
    <3>1. PICK n \in MessageId :
            Unused(n) /\ \A l \in MessageId : l # n => msg'[l] = msg[l]
      BY <2>1, IngressStep
    <3>2. k # n
      BY <2>1, <3>1 DEF Front, Queued, Unused, QueueOrder
    <3> QED
      BY <2>1, <3>1, <3>2 DEF Queued
  <2>2. ASSUME NEW n \in MessageId, Receive(n) \/ Redrive(n) \/ DeleteMessage(n),
               NEW k \in MessageId, Queued(k)'
        PROVE  Queued(k)
    BY <2>2, ReceiveStep, RedriveStep, DeleteStep
       DEF Receive, ReceiveMessage, Redrive, DeadLetter, DeleteMessage, Front, Queued
  <2>3. ASSUME NEW i \in Invocation, Work(i) \/ Trouble(i), msg' # msg
        PROVE  MessageOf(i) \in MessageId /\ DeleteMessage(MessageOf(i))
    BY <2>3, WorkerFrame, InvocationType
  <2>4. CASE msg' = msg
    BY <2>4 DEF Queued
  <2> QED
    BY <2>1, <2>2, <2>3, <2>4 DEF Next, IngressFails, TimePasses, vars
<1>2. \A k \in MessageId : k < m /\ Queued(k) => msg'[k].group = msg[k].group
  BY MessageTypeStep DEF Queued, Unused
<1>3. msg'[m].group = msg[m].group
  BY MessageTypeStep DEF Front, Queued, Unused
<1> QED
  BY <1>1, <1>2, <1>3 DEF Front

LEMMA QueueOrderStep ==
  TypeOK /\ QueueOrder /\ InFlight /\ [Next]_vars => QueueOrder'
<1> SUFFICES ASSUME TypeOK, QueueOrder, InFlight, [Next]_vars PROVE QueueOrder'
  OBVIOUS
<1>1. \A m \in MessageId : ~Unused(m) =>
        ~Unused(m)' /\ msg'[m].id = msg[m].id /\ msg'[m].group = msg[m].group
  BY MessageTypeStep
<1>2. CASE msg' = msg
  BY <1>2 DEF QueueOrder, Unused, Queued, Front
<1>3. ASSUME NEW e \in Event, Ingress(e), msg' # msg
      PROVE  QueueOrder'
  <2>1. PICK n \in MessageId :
          /\ Unused(n) /\ \A k \in MessageId : k < n => ~Unused(k)
          /\ \A k \in MessageId : k # n => msg'[k] = msg[k]
          /\ msg'[n].id = e /\ msg'[n].group = Thread(e)
          /\ msg'[n].status = "queued" /\ msg'[n].received = 0
    BY <1>3, IngressStep
  <2>2. \A m \in MessageId : Unused(m)' => msg'[m] = NoMessage
    BY <2>1 DEF QueueOrder, Unused
  <2>3. \A m \in MessageId : ~Unused(m)' => msg'[m].group = Thread(msg'[m].id)
    BY <2>1 DEF QueueOrder, Unused
  <2>4. \A k, m \in MessageId : k < m /\ ~Unused(m)' => ~Unused(k)'
    BY <1>1, <2>1 DEF QueueOrder, Unused
  <2>5. ASSUME NEW m \in MessageId, Queued(m)', msg'[m].received > 0
        PROVE  Front(m)'
    <3>1. msg'[m] = msg[m]
      BY <2>1, <2>5
    <3>2. Front(m)
      BY <2>5, <3>1 DEF QueueOrder, Queued
    <3> QED
      BY <2>5, <3>2, FrontStep
  <2> QED
    BY <2>2, <2>3, <2>4, <2>5 DEF QueueOrder
<1>4. ASSUME NEW n \in MessageId, Receive(n) \/ Redrive(n) \/ DeleteMessage(n)
      PROVE  QueueOrder'
  <2>1. /\ Queued(n)
        /\ Receive(n) => Front(n)
        /\ \A k \in MessageId : k # n => msg'[k] = msg[k]
        /\ msg'[n].id = msg[n].id /\ msg'[n].group = msg[n].group
        /\ msg'[n].status \in {"queued", "dead", "deleted"}
        /\ ~Receive(n) => msg'[n].status # "queued"
    BY <1>4, ReceiveStep, RedriveStep, DeleteStep
       DEF Receive, ReceiveMessage, Redrive, DeadLetter, DeleteMessage, Front
  <2>2. \A m \in MessageId : Unused(m)' <=> Unused(m)
    BY <2>1 DEF Unused, Queued
  <2>3. ASSUME NEW m \in MessageId, Queued(m)', msg'[m].received > 0
        PROVE  Front(m)'
    <3>1. CASE m = n
      BY <2>1, <2>3, <3>1, FrontStep DEF Queued
    <3>2. CASE m # n
      <4>1. Front(m)
        BY <2>1, <2>3, <3>2 DEF QueueOrder, Queued
      <4> QED
        BY <2>3, <4>1, FrontStep
    <3> QED
      BY <3>1, <3>2
  <2>4. \A m \in MessageId : Unused(m)' => msg'[m] = NoMessage
    BY <2>1, <2>2 DEF QueueOrder, Unused, Queued
  <2>5. \A m \in MessageId : ~Unused(m)' => msg'[m].group = Thread(msg'[m].id)
    BY <1>1, <2>2 DEF QueueOrder
  <2> QED
    BY <2>2, <2>3, <2>4, <2>5 DEF QueueOrder
<1>5. ASSUME NEW i \in Invocation, Work(i) \/ Trouble(i), msg' # msg
      PROVE  MessageOf(i) \in MessageId /\ DeleteMessage(MessageOf(i))
  BY <1>5, WorkerFrame, InvocationType
<1> QED
  BY <1>2, <1>3, <1>4, <1>5 DEF Next, IngressFails, TimePasses, vars

LEMMA ReceivedStep ==
  ASSUME TypeOK, QueueOrder, InFlight, [Next]_vars, NEW m \in MessageId
  PROVE  /\ msg[m].received \in Nat
         /\ msg'[m].received = msg[m].received \/ msg'[m].received = msg[m].received + 1
<1>1. msg[m].received \in Nat
  BY DEF TypeOK, MessageRecord
<1>2. CASE msg' = msg
  BY <1>1, <1>2
<1>3. ASSUME NEW e \in Event, Ingress(e), msg' # msg
      PROVE  msg'[m].received = msg[m].received
  BY <1>3, IngressStep DEF QueueOrder, NoMessage
<1>4. ASSUME NEW n \in MessageId, Receive(n) \/ Redrive(n) \/ DeleteMessage(n)
      PROVE  msg'[m].received = msg[m].received \/ msg'[m].received = msg[m].received + 1
  BY <1>4, ReceiveStep, RedriveStep, DeleteStep
<1>5. ASSUME NEW i \in Invocation, Work(i) \/ Trouble(i), msg' # msg
      PROVE  MessageOf(i) \in MessageId /\ DeleteMessage(MessageOf(i))
  BY <1>5, WorkerFrame, InvocationType
<1> QED
  BY <1>1, <1>2, <1>3, <1>4, <1>5 DEF Next, IngressFails, TimePasses, vars

(* An invocation that runs after a step ran before it with the same        *)
(* message, or was just started by its receive.                            *)
LEMMA StartStep ==
  ASSUME TypeOK, [Next]_vars, NEW i \in Invocation, step'[i] # "idle"
  PROVE  \/ /\ step[i] # "idle"
            /\ Running(i)' => Running(i)
            /\ Running(i)' => started'[i] = started[i]
         \/ /\ Receive(MessageOf(i)) /\ ReceiveOf(i) = msg[MessageOf(i)].received + 1
            /\ started'[i] = now /\ step'[i] = "route"
<1> USE DEF Running, TypeOK
<1>1. ASSUME NEW m \in MessageId, Receive(m)
      PROVE  \/ step'[i] = step[i] /\ started'[i] = started[i]
             \/ /\ m = MessageOf(i) /\ ReceiveOf(i) = msg[m].received + 1
                /\ started'[i] = now /\ step'[i] = "route"
  <2>1. CASE i = <<m, msg[m].received + 1>>
    BY <1>1, <2>1 DEF Receive, MessageOf, ReceiveOf
  <2>2. CASE i # <<m, msg[m].received + 1>>
    BY <1>1, <2>2 DEF Receive
  <2> QED
    BY <2>1, <2>2
<1>2. ASSUME NEW j \in Invocation, Work(j) \/ Trouble(j)
      PROVE  /\ step[i] # "idle"
             /\ Running(i)' => Running(i)
             /\ Running(i)' => started'[i] = started[i]
  BY <1>2, WorkerFrame
<1>3. ASSUME step' = step /\ started' = started
      PROVE  /\ step[i] # "idle"
             /\ Running(i)' => Running(i)
             /\ Running(i)' => started'[i] = started[i]
  BY <1>3
<1> QED
  BY <1>1, <1>2, <1>3 DEF Next, Ingress, IngressFails, Redrive, TimePasses, vars, localVars

(* Nothing happens to the message of an invocation as long as it runs. *)
LEMMA HeldStep ==
  ASSUME TypeOK, QueueOrder, InFlight, [Next]_vars, NEW i \in Invocation,
         Running(i), Running(i)'
  PROVE  msg'[MessageOf(i)] = msg[MessageOf(i)]
<1>1. MessageOf(i) \in MessageId /\ ~Unused(MessageOf(i))
  BY RunningMessage
<1>2. ASSUME NEW e \in Event, Ingress(e), msg' # msg
      PROVE  msg'[MessageOf(i)] = msg[MessageOf(i)]
  BY <1>1, <1>2, IngressStep
<1>3. ASSUME NEW m \in MessageId, Receive(m) \/ Redrive(m)
      PROVE  msg'[MessageOf(i)] = msg[MessageOf(i)]
  <2>1. MessageOf(i) # m
    BY <1>3, Hidden DEF Receive, ReceiveMessage, Redrive, DeadLetter
  <2> QED
    BY <1>1, <1>3, <2>1, ReceiveStep, RedriveStep
<1>4. ASSUME NEW j \in Invocation, Work(j) \/ Trouble(j), msg' # msg
      PROVE  msg'[MessageOf(i)] = msg[MessageOf(i)]
  <2>1. Running(j) /\ DeleteMessage(MessageOf(j)) /\ step'[j] = "end"
    BY <1>4, WorkerFrame DEF TypeOK
  <2>2. i # j
    BY <2>1 DEF Running
  <2>3. MessageOf(i) # MessageOf(j)
    BY <2>1, <2>2, Alone DEF EventOf
  <2> QED
    BY <1>1, <2>1, <2>3, DeleteStep, InvocationType
<1> QED
  BY <1>2, <1>3, <1>4 DEF Next, IngressFails, TimePasses, vars

LEMMA InFlightStep ==
  TypeOK /\ QueueOrder /\ InFlight /\ [Next]_vars => InFlight'
<1> SUFFICES ASSUME TypeOK, QueueOrder, InFlight, [Next]_vars PROVE InFlight'
  OBVIOUS
<1>1. ASSUME NEW i \in Invocation, step'[i] # "idle"
      PROVE  ReceiveOf(i) <= msg'[MessageOf(i)].received
  <2>1. MessageOf(i) \in MessageId /\ ReceiveOf(i) \in Nat
    BY InvocationType, SlackEventsAssumption
  <2>2. CASE step[i] # "idle"
    <3>1. ReceiveOf(i) <= msg[MessageOf(i)].received
      BY <2>2 DEF InFlight
    <3>2. /\ msg[MessageOf(i)].received \in Nat
          /\ \/ msg'[MessageOf(i)].received = msg[MessageOf(i)].received
             \/ msg'[MessageOf(i)].received = msg[MessageOf(i)].received + 1
      BY <2>1, ReceivedStep
    <3> QED
      BY <2>1, <3>1, <3>2
  <2>3. CASE Receive(MessageOf(i)) /\ ReceiveOf(i) = msg[MessageOf(i)].received + 1
    <3>1. msg'[MessageOf(i)].received = msg[MessageOf(i)].received + 1
      BY <2>1, <2>3, ReceiveStep
    <3> QED
      BY <2>1, <2>3, <3>1
  <2> QED
    BY <1>1, <2>2, <2>3, StartStep
<1>2. ASSUME NEW i \in Invocation, Running(i)'
      PROVE  /\ Front(MessageOf(i))'
             /\ msg'[MessageOf(i)].received = ReceiveOf(i)
             /\ msg'[MessageOf(i)].visibleAt = started'[i] + Visibility
             /\ started'[i] <= now'
             /\ now' <= started'[i] + WorkerTimeout
  <2>1. MessageOf(i) \in MessageId /\ now \in Nat /\ started[i] \in Nat
        /\ WorkerTimeout \in Nat
    BY InvocationType, SlackEventsAssumption DEF TypeOK, ClaimsTypeOK
  <2>2. CASE Receive(MessageOf(i)) /\ ReceiveOf(i) = msg[MessageOf(i)].received + 1
             /\ started'[i] = now
    <3>0. msg'[MessageOf(i)].status = "queued" /\ Front(MessageOf(i))
      BY <2>1, <2>2, ReceiveStep DEF Receive, ReceiveMessage
    <3>1. Front(MessageOf(i))'
      BY <2>1, <3>0, FrontStep DEF Queued
    <3>2. now' = now
      BY <2>2 DEF Receive, claimsVars
    <3>3. /\ msg'[MessageOf(i)].received = msg[MessageOf(i)].received + 1
          /\ msg'[MessageOf(i)].visibleAt = now + Visibility
      BY <2>1, <2>2, ReceiveStep
    <3>4. started'[i] <= now' /\ now' <= started'[i] + WorkerTimeout
      BY <2>1, <2>2, <3>2
    <3> QED
      BY <2>2, <3>1, <3>3, <3>4
  <2>3. CASE Running(i) /\ started'[i] = started[i]
    <3>1. msg'[MessageOf(i)] = msg[MessageOf(i)]
      BY <1>2, <2>3, HeldStep
    <3>0. /\ Front(MessageOf(i))
          /\ msg[MessageOf(i)].received = ReceiveOf(i)
          /\ msg[MessageOf(i)].visibleAt = started[i] + Visibility
          /\ started[i] <= now /\ now <= started[i] + WorkerTimeout
      BY <2>3 DEF InFlight
    <3>2. Front(MessageOf(i))'
      <4>1. Queued(MessageOf(i))'
        BY <3>0, <3>1 DEF Front, Queued
      <4> QED
        BY <2>1, <3>0, <4>1, FrontStep
    <3>3. now' = now \/ (now' = now + 1 /\ now < started[i] + WorkerTimeout)
      <4>1. ASSUME NEW j \in Invocation, Work(j) \/ Trouble(j) PROVE now' = now
        BY <4>1, WorkerFrame
      <4>2. CASE TimePasses
        BY <2>3, <4>2 DEF TimePasses, Tick
      <4> QED
        BY <4>1, <4>2 DEF Next, Ingress, IngressFails, Receive, Redrive, vars, claimsVars
    <3>4. started'[i] <= now' /\ now' <= started'[i] + WorkerTimeout
      BY <2>1, <2>3, <3>0, <3>3
    <3> QED
      BY <2>3, <3>0, <3>1, <3>2, <3>4
  <2> QED
    BY <1>2, <2>2, <2>3, StartStep DEF Running
<1> QED
  BY <1>1, <1>2 DEF InFlight

-----------------------------------------------------------------------------
(* process and its claim go together *)

(* What Sync says of one invocation. *)
InStep(i) ==
  /\ step[i] \in {"idle", "route"} => pc[i] = "idle"
  /\ step[i] = "claim" => pc[i] \in {"put", "update"}
  /\ Working(i) => pc[i] = "held"
  /\ step[i] \in {"clear", "release"} => pc[i] = "failed"
  /\ step[i] = "return" => pc[i] \in {"refused", "done"}
  /\ step[i] = "end" => pc[i] \in {"idle", "over"}
  /\ pc[i] \notin {"idle", "over"} => target[i] = EventOf(i)

LEMMA WorkerInStep ==
  ASSUME TypeOK, InFlight, [Next]_vars, NEW i \in Invocation, InStep(i), Work(i) \/ Trouble(i)
  PROVE  InStep(i)'
<1> USE DEF InStep, Working, Goto, EndStep, TypeOK, ClaimsTypeOK
<1>1. EventOf(i)' = EventOf(i)
  <2>1. MessageOf(i) \in MessageId /\ ~Unused(MessageOf(i))
    BY RunningMessage, WorkerFrame
  <2> QED
    BY <2>1, MessageTypeStep DEF EventOf
<1>2. CASE Route(i)
  BY <1>1, <1>2 DEF Route, ClaimEvent
<1>3. CASE TryClaim(i)
  BY <1>1, <1>3 DEF TryClaim, ClaimPut, ClaimPutResent, ClaimUpdate, ClaimUpdateResent
<1>4. CASE Message(i) \/ Reply(i) \/ Invoke(i) \/ Post(i) \/ Clear(i)
  BY <1>1, <1>4 DEF Message, Reply, Invoke, Post, Clear, claimsVars
<1>5. CASE Complete(i)
  BY <1>1, <1>5 DEF Complete, CompleteEvent, CompleteEventResent, Handler
<1>6. CASE Release(i) \/ Return(i) \/ ReturnLost(i)
  BY <1>6 DEF Release, Return, ReturnLost, ReleaseEvent, Leave, End
<1>7. CASE RouteFails(i)
  BY <1>7 DEF RouteFails, claimsVars
<1>8. CASE ClearRaises(i) \/ Stop(i)
  BY <1>8 DEF ClearRaises, Stop, Crash, End
<1>9. CASE Raise(i) \/ PostRaises(i) \/ StatusRaises(i)
  BY <1>1, <1>9 DEF Raise, PostRaises, StatusRaises, Fail, Handler
<1> QED
  BY <1>2, <1>3, <1>4, <1>5, <1>6, <1>7, <1>8, <1>9 DEF Work, Trouble

(* A step of a worker changes nothing of the others' claims. *)
LEMMA ClaimFrame ==
  ASSUME NEW i \in Invocation, Work(i) \/ Trouble(i), NEW j \in Invocation, j # i, TypeOK
  PROVE  /\ pc'[j] = pc[j] /\ target'[j] = target[j] /\ readAt'[j] = readAt[j]
         /\ step'[j] = step[j] /\ started'[j] = started[j]
<1> USE DEF TypeOK, ClaimsTypeOK
<1>1. step'[j] = step[j] /\ started'[j] = started[j]
  BY WorkerFrame
<1>2. CASE Route(i) \/ TryClaim(i)
  BY <1>1, <1>2 DEF Route, TryClaim, ClaimEvent, ClaimPut, ClaimPutResent, ClaimUpdate,
     ClaimUpdateResent
<1>3. CASE Message(i) \/ Reply(i) \/ Invoke(i) \/ Post(i) \/ Clear(i) \/ RouteFails(i)
  BY <1>1, <1>3 DEF Message, Reply, Invoke, Post, Clear, RouteFails, claimsVars
<1>4. CASE Complete(i) \/ Raise(i) \/ PostRaises(i) \/ StatusRaises(i)
  BY <1>1, <1>4 DEF Complete, CompleteEvent, CompleteEventResent, Raise, PostRaises,
     StatusRaises, Fail
<1>5. CASE Release(i) \/ Return(i) \/ ReturnLost(i) \/ ClearRaises(i) \/ Stop(i)
  BY <1>1, <1>5 DEF Release, Return, ReturnLost, ClearRaises, Stop, ReleaseEvent, Leave,
     Crash, End
<1> QED
  BY <1>2, <1>3, <1>4, <1>5 DEF Work, Trouble

LEMMA SyncStep == PathInv /\ [Next]_vars => Sync'
<1> SUFFICES ASSUME PathInv, [Next]_vars, NEW j \in Invocation PROVE InStep(j)'
  BY DEF Sync, InStep
<1>1. TypeOK /\ QueueOrder /\ InFlight /\ InStep(j)
  BY DEF PathInv, Sync, InStep
<1>2. pc[j] \notin {"idle", "over"} => Running(j)
  BY <1>1 DEF InStep, Running
<1>3. pc[j] \notin {"idle", "over"} => EventOf(j)' = EventOf(j)
  <2> SUFFICES ASSUME Running(j) PROVE EventOf(j)' = EventOf(j)
    BY <1>2
  <2>1. MessageOf(j) \in MessageId /\ ~Unused(MessageOf(j))
    BY <1>1, RunningMessage
  <2> QED
    BY <1>1, <2>1, MessageTypeStep DEF EventOf
<1>4. ASSUME pc' = pc, target' = target, step' = step
      PROVE  InStep(j)'
  BY <1>1, <1>3, <1>4 DEF InStep, Working
<1>5. ASSUME NEW m \in MessageId, Receive(m)
      PROVE  InStep(j)'
  <2>1. pc' = pc /\ target' = target
    BY <1>5 DEF Receive, claimsVars
  <2>2. CASE j = <<m, msg[m].received + 1>>
    <3>1. MessageOf(j) = m /\ ReceiveOf(j) = msg[m].received + 1 /\ step'[j] = "route"
      BY <1>1, <1>5, <2>2 DEF Receive, MessageOf, ReceiveOf, TypeOK
    <3>2. msg[m].received \in Nat
      BY <1>1 DEF TypeOK, MessageRecord
    <3>3. step[j] = "idle"
      BY <1>1, <3>1, <3>2 DEF InFlight
    <3> QED
      BY <1>1, <2>1, <3>1, <3>3 DEF InStep, Working
  <2>3. CASE j # <<m, msg[m].received + 1>>
    <3>1. step'[j] = step[j]
      BY <1>1, <1>5, <2>3 DEF Receive, TypeOK
    <3> QED
      BY <1>1, <1>3, <2>1, <3>1 DEF InStep, Working
  <2> QED
    BY <2>2, <2>3
<1>6. ASSUME NEW i \in Invocation, Work(i) \/ Trouble(i)
      PROVE  InStep(j)'
  <2>1. CASE i = j
    BY <1>1, <1>6, <2>1, WorkerInStep
  <2>2. CASE i # j
    <3>1. pc'[j] = pc[j] /\ target'[j] = target[j] /\ step'[j] = step[j]
      BY <1>1, <1>6, <2>2, ClaimFrame
    <3> QED
      BY <1>1, <1>3, <3>1 DEF InStep, Working
  <2> QED
    BY <2>1, <2>2
<1> QED
  BY <1>4, <1>5, <1>6
     DEF Next, Ingress, IngressFails, Redrive, TimePasses, Tick, tableVars, vars, claimsVars,
         localVars

LEMMA PathInvInit == Init => PathInv
<1> SUFFICES ASSUME Init PROVE PathInv
  OBVIOUS
<1>1. QueueOrder
  BY DEF Init, QueueInit, QueueOrder, Unused, Queued, NoMessage
<1>2. InFlight /\ Sync
  BY DEF Init, ClaimsInit, InFlight, Sync, Running, Working
<1> QED
  BY <1>1, <1>2, InitType DEF PathInv

LEMMA PathInvStep == PathInv /\ [Next]_vars => PathInv'
BY TypeStep, QueueOrderStep, InFlightStep, SyncStep DEF PathInv

LEMMA PathInvariant == Spec => []PathInv
BY PathInvInit, PathInvStep, PTL DEF Spec

(* The path's state is always well-formed: in particular every message     *)
(* that was queued is that of an event, and every invocation inside        *)
(* claim_event has one.                                                    *)
THEOREM TypeCorrect == Spec => []TypeOK
<1>1. PathInv => TypeOK
  BY DEF PathInv
<1> QED
  BY <1>1, PathInvariant, PTL

(* The worker uses the table only through claim_event, complete_event and  *)
(* release_event, in an order in which they may be called, so that what    *)
(* EventClaimsProofs proves holds of the whole path.                       *)
THEOREM PathImplementsClaims == Spec => ImplementsClaims
<1>1. Init => ClaimsInit
  BY DEF Init
<1>2. PathInv /\ [Next]_vars => [ClaimsNext]_claimsVars
  BY ClaimsStep DEF PathInv
<1> QED
  BY <1>1, <1>2, PathInvariant, PTL DEF Spec, ImplementsClaims, ClaimsSpec

(* Two invocations never run in the same thread at a time: dispatch's      *)
(* message group and a visibility timeout longer than the worker's.        *)
THEOREM ThreadsAreSerial == Spec => []OneWorkerPerThread
<1>1. PathInv => OneWorkerPerThread
  BY Alone DEF PathInv, OneWorkerPerThread
<1> QED
  BY <1>1, PathInvariant, PTL
=============================================================================
