--------------------------- MODULE SlackParameters ---------------------------
(***************************************************************************)
(* The SSM parameters of one agent, as SlackReconciler, the OAuth callback *)
(* and load_agent read and write them: a binding and credentials, two      *)
(* parameters that no request reads or writes together.                    *)
(***************************************************************************)
EXTENDS SlackApps

CONSTANT
  Unreadable  \* a binding that is corrupt, or of another workspace

VARIABLES
  binding,     \* None, Unreadable, or a Binding
  credentials  \* None, or Credentials

parameterVars == <<binding, credentials>>

(* bot names the exchange that bot_user_id comes from.  socket_mode_ready  *)
(* is what the former Socket Mode called an installed App.                 *)
Binding ==
  [app: App, digest: Manifest,
   state: {"approval_required", "installed", "socket_mode_ready"},
   bot: Code \cup {None}]

(* client stands for client_id, client_secret and signing_secret, which    *)
(* come together; legacy for the app_token of the former Socket Mode.      *)
Credentials ==
  [client: App \cup {None}, key: Key \cup {None}, token: Code \cup {None},
   legacy: BOOLEAN]

(* What _json_object makes of a parameter that is not there. *)
NoCredentials == [client |-> None, key |-> None, token |-> None, legacy |-> FALSE]

Readable(b) == b \notin {None, Unreadable}

(* The bindings load_agent accepts; normalized_event then refuses events   *)
(* for one that is socket_mode_ready.                                      *)
Loadable(b) == Readable(b) /\ b.state \in {"installed", "socket_mode_ready"}

PutBinding(b) ==
  /\ binding' = b
  /\ UNCHANGED credentials

PutCredentials(c) ==
  /\ credentials' = c
  /\ UNCHANGED binding
=============================================================================
