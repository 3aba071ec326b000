----------------------------- MODULE FifoQueue -----------------------------
(***************************************************************************)
(* The FIFO queue between the ingress and the worker, with its redrive     *)
(* policy, as SqsFifoDispatcher and the event source mapping use it: it is *)
(* Amazon SQS, configured by modules/slack-oauth-callback/main.tf.         *)
(*                                                                         *)
(*  - a message id already sent within DedupWindow is accepted and not     *)
(*    queued again;                                                        *)
(*  - of each message group only the oldest message can be received, and   *)
(*    while it is in flight the group waits;                               *)
(*  - a received message is hidden for Visibility; it is deleted, or it is *)
(*    received again, or after MaxReceive receives it is dead-lettered.    *)
(*                                                                         *)
(* The callers pass the time t.                                            *)
(***************************************************************************)
EXTENDS Naturals

CONSTANTS
  MaxMessages,  \* bound of the messages ever queued
  MaxReceive,   \* maxReceiveCount of the redrive policy
  DedupWindow,  \* the deduplication interval
  None          \* no message id, no group

VARIABLE
  msg           \* what became of each message, in the order they were queued

MessageId == 1..MaxMessages

Unused(m) == msg[m].status = "unused"
Queued(m) == msg[m].status = "queued"
DeadLettered(m) == msg[m].status = "dead"

NoMessage ==
  [id |-> None, group |-> None, status |-> "unused", sentAt |-> 0, received |-> 0,
   visibleAt |-> 0]

QueueInit == msg = [m \in MessageId |-> NoMessage]

(* The message at the front of its group. *)
Front(m) ==
  /\ Queued(m)
  /\ \A k \in MessageId : k < m /\ Queued(k) => msg[k].group # msg[m].group

(* The deduplication interval of an id counts from the message it queued. *)
Duplicate(id, t) ==
  \E m \in MessageId : msg[m].id = id /\ t < msg[m].sentAt + DedupWindow

Enqueue(id, group, t) ==
  \E m \in MessageId :
    /\ Unused(m)
    /\ \A k \in MessageId : k < m => ~Unused(k)
    /\ msg' = [msg EXCEPT ![m] =
         [id |-> id, group |-> group, status |-> "queued", sentAt |-> t,
          received |-> 0, visibleAt |-> t]]

(* send_message with a MessageGroupId and a MessageDeduplicationId. *)
SendMessage(id, group, t) ==
  \/ Duplicate(id, t) /\ UNCHANGED msg
  \/ ~Duplicate(id, t) /\ Enqueue(id, group, t)

(* The event source mapping polls the front message of a group. *)
ReceiveMessage(m, t, visibility) ==
  /\ Front(m)
  /\ msg[m].visibleAt <= t
  /\ msg[m].received < MaxReceive
  /\ msg' = [msg EXCEPT ![m].received = @ + 1, ![m].visibleAt = t + visibility]

(* A plausible slip: off by one, so that no message is dead-lettered. *)
DeadLetterBeyond(m, t) ==
  /\ Front(m)
  /\ msg[m].visibleAt <= t
  /\ msg[m].received > MaxReceive
  /\ msg' = [msg EXCEPT ![m].status = "dead", ![m].visibleAt = 0]

(* The redrive policy, when a message would be received once too often. *)
DeadLetter(m, t) ==
  /\ Front(m)
  /\ msg[m].visibleAt <= t
  /\ msg[m].received = MaxReceive
  /\ msg' = [msg EXCEPT ![m].status = "dead", ![m].visibleAt = 0]

(* The invocation returned and the event source mapping deletes. *)
DeleteMessage(m) ==
  /\ Queued(m)
  /\ msg' = [msg EXCEPT ![m].status = "deleted", ![m].visibleAt = 0]
=============================================================================
