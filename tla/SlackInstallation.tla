-------------------------- MODULE SlackInstallation --------------------------
(***************************************************************************)
(* The installation of one agent's Slack App: the reconciler's commands    *)
(* and the OAuth callback write the agent's two parameters, while the      *)
(* Events Lambdas read them with load_agent of core.py.                    *)
(***************************************************************************)
EXTENDS SlackReconciler, OAuthCallback

CONSTANT MaxTime  \* bound of the clock

ASSUME InstallationAssumption ==
  /\ Ttl \in Nat \ {0}
  /\ MaxTime \in Nat
  /\ None \notin App \cup Manifest \cup Key \cup Code
  /\ None \notin Binding \cup Credentials \cup Link
  /\ Unreadable \notin Binding \cup {None}
  /\ Past \in Code

VARIABLES
  now,    \* the clock of all hosts
  reader  \* what load_agent has read, None outside of it

vars == <<now, reader, op, links, cb, parameterVars, slackVars>>

(* load_agent reads the binding, then the credentials. *)
LoadBinding ==
  /\ reader = None
  /\ Loadable(binding)
  /\ reader' = binding
  /\ UNCHANGED <<now, op, links, cb, parameterVars, slackVars>>

LoadCredentials ==
  /\ reader # None
  /\ reader' = None
  /\ UNCHANGED <<now, op, links, cb, parameterVars, slackVars>>

(* Slack redirects the browser of somebody who approves a link. *)
Approve ==
  /\ \E link \in links, code \in Code : ApproveLink(link, code)
  /\ UNCHANGED <<now, reader, op, links, cb, parameterVars, deployed, spent, refresh>>

Command == Reconcile(now) /\ UNCHANGED <<now, reader, cb>>

Handle(i) == HandleCallback(i, now) /\ UNCHANGED <<now, reader, op, links>>

Tick ==
  /\ now < MaxTime
  /\ now' = now + 1
  /\ UNCHANGED <<reader, op, links, cb, parameterVars, slackVars>>

-----------------------------------------------------------------------------

(* A new agent. *)
NewAgent ==
  /\ deployed = [a \in App |-> None]
  /\ binding = None
  /\ credentials = None

(* An agent from before links were signed, or from when it still had an    *)
(* app_token, installed or not; its binding is there, or was lost.  The    *)
(* links of that time have expired.                                        *)
OldAgent ==
  \E a \in App, m \in Manifest, k \in Key \cup {None}, t \in {Past, None},
     old \in BOOLEAN, s \in {"approval_required", "installed", "socket_mode_ready"} :
    /\ t = None <=> s = "approval_required"
    /\ s = "socket_mode_ready" => old
    /\ deployed = [x \in App |-> IF x = a THEN m ELSE None]
    /\ credentials = [client |-> a, key |-> k, token |-> t, legacy |-> old]
    /\ binding \in {Unreadable, [app |-> a, digest |-> m, state |-> s, bot |-> t]}

Init ==
  /\ NewAgent \/ OldAgent
  /\ redirects = {}
  /\ spent = {Past}
  /\ refresh = TRUE
  /\ ReconcilerInit
  /\ CallbackInit
  /\ now = 0
  /\ reader = None

Next ==
  \/ Command
  \/ Approve
  \/ \E i \in Callback : Handle(i)
  \/ LoadBinding
  \/ LoadCredentials
  \/ Tick

Spec == Init /\ [][Next]_vars

-----------------------------------------------------------------------------
(* Properties *)

TypeOK ==
  /\ now \in Nat
  /\ reader \in Binding \cup {None}
  /\ op \in Op
  /\ links \subseteq Link
  /\ cb \in [Callback -> CallbackRecord]
  /\ binding \in Binding \cup {None, Unreadable}
  /\ credentials \in Credentials \cup {None}
  /\ deployed \in [App -> Manifest \cup {None}]
  /\ redirects \subseteq Redirect
  /\ spent \subseteq Code
  /\ refresh \in BOOLEAN

(* load_agent, which reads the parameters one after the other, never       *)
(* accepts a binding and then finds no bot token: whoever writes installed *)
(* has stored a token before, and nobody writes the token away with        *)
(* credentials read too early.                                             *)
ReaderFindsToken ==
  reader # None => Stored.token # None

(* A link that was given out is good until it expires, and no longer: the  *)
(* state verifies with the stored key and for the App of the binding,      *)
(* whatever commands and callbacks have written since.                     *)
LinksVerifyUntilExpiry ==
  \A l \in links :
    /\ Readable(binding)
    /\ VerifyState(l.state, Stored.key, binding.app, now) <=> now < l.state.exp

(* A bot token is stored next to the client credentials it was exchanged   *)
(* with, and, if Slack's answer named its App, only when that is the App   *)
(* of the binding; also when an operator adopted an App whose credentials  *)
(* are not the stored ones.                                                *)
(*                                                                         *)
(* An answer without app_id is outside of the second half: the callback    *)
(* does not compare it (callback.py:275-277), so that after an adoption it *)
(* stores the token of an App that the binding does not name.              *)
NamedTokensAreBound ==
  [][\A code \in Code :
       Stored'.token = code /\ Stored.token # code
       => /\ Readable(binding)
          /\ CodeApp(code) = Stored'.client
          /\ Named(code) => CodeApp(code) = binding.app]_vars

(* An App whose events are taken can be mentioned: the worker strips the   *)
(* mention with the bot user of the binding, and drops it without one.     *)
InstalledAgentHearsMentions ==
  Readable(binding) /\ binding.state = "installed" => binding.bot # None

(* The parameters keep the promises of AgentIdentity. *)
Identity ==
  INSTANCE AgentIdentity WITH
    Token <- Code,
    app <- IF Readable(binding) THEN binding.app ELSE None,
    key <- Stored.key,
    token <- Stored.token

ImplementsIdentity == Identity!IdentitySpec
=============================================================================
