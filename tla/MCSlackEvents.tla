--------------------------- MODULE MCSlackEvents ---------------------------
(***************************************************************************)
(* SlackEvents for TLC.  Each instance is a short conversation in one or   *)
(* two threads; the .cfg files choose one, and scale the times.            *)
(***************************************************************************)
EXTENDS SlackEvents

Invocations == (1..MaxMessages) \X (1..MaxReceive)

Mention(at, says) ==
  [type |-> "app_mention", channel_type |-> "channel", bot |-> FALSE, ts |-> at,
   thread_ts |-> None, text |-> says]

InThread(root, at, says) ==
  [type |-> "message", channel_type |-> "channel", bot |-> FALSE, ts |-> at,
   thread_ts |-> root, text |-> says]

DirectMessage(at, says) ==
  [type |-> "message", channel_type |-> "im", bot |-> FALSE, ts |-> at,
   thread_ts |-> None, text |-> says]

(* A mention opens a thread, and a reply in it asks for a new session. *)
MentionThenNew ==
  [e1 |-> Mention("t1", "talk"), e2 |-> InThread("t1", "t2", "new")]

(* The mention itself asks for a new session, and so does a reply. *)
NewThenNew ==
  [e1 |-> Mention("t1", "new"), e2 |-> InThread("t1", "t2", "new")]

OneMention == [e1 |-> Mention("t1", "talk")]

(* A direct message asks for a new session. *)
OneDirectNew == [e1 |-> DirectMessage("t1", "new")]

Once == [e \in Event |-> 1]
Twice == [e \in Event |-> 2]
FirstTwice == [e \in Event |-> IF e = "e1" THEN 2 ELSE 1]
=============================================================================
