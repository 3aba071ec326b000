--------------------------- MODULE ChannelService ---------------------------
(***************************************************************************)
(* ChannelService of clients/channel/core.py: which messages are heard,    *)
(* and the session each conversation talks in.  Its state lives in the     *)
(* memory of the process that owns it.                                     *)
(*                                                                         *)
(* A message says whether its sender is on the allow-list, and its text is *)
(* a command or something to say.  A session is None, the one derived from *)
(* the conversation, or named after the /new that asked for it, as uuid4   *)
(* never gives a name twice.                                               *)
(***************************************************************************)
EXTENDS Integers, Sequences, FiniteSets

CONSTANTS
  Chat,  \* conversations
  None

VARIABLES
  seen,     \* _seen_messages: message IDs, without their conversations
  sessions  \* _sessions

serviceVars == <<seen, sessions>>

ServiceStart ==
  /\ seen' = {}
  /\ sessions' = [c \in Chat |-> None]

Heard(m) == m.allowed /\ m.id \notin seen

(* A message of a stranger, or one that was seen before, has no reply. *)
Ignore(m) ==
  /\ ~Heard(m)
  /\ UNCHANGED serviceVars

(* A command is answered at once; u is the update that brings it. *)
Command(m, u) ==
  /\ Heard(m)
  /\ m.text \in {"help", "new"}
  /\ seen' = seen \cup {m.id}
  /\ sessions' = [sessions EXCEPT ![m.chat] = IF m.text = "new" THEN u ELSE @]

(* Anything else goes to the Harness, in the conversation's session. *)
Talk(m) ==
  /\ Heard(m)
  /\ m.text = "talk"
  /\ seen' = seen \cup {m.id}
  /\ UNCHANGED sessions
=============================================================================
