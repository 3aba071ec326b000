------------------------------ MODULE SlackApps ------------------------------
(***************************************************************************)
(* Slack's side of an agent's installation, as reconciliation.py and       *)
(* callback.py use it: Apps with the manifest they run, install links that *)
(* a workspace member approves, codes that are exchanged once, and the     *)
(* refresh token of the configuration token, which is used once, too.      *)
(***************************************************************************)
EXTENDS OAuthState

CONSTANTS
  Manifest,  \* rendered App manifests, and their digests
  Code,      \* OAuth codes, and the bot tokens they are exchanged for
  Past,      \* the code of an installation made in the past
  None

VARIABLES
  deployed,   \* the manifest each App runs, None before the App is created
  redirects,  \* codes that Slack redirected a browser with
  spent,      \* codes that were exchanged
  refresh     \* whether the refresh token in SSM is still good

slackVars == <<deployed, redirects, spent, refresh>>

Created(a) == deployed[a] # None

(* An install link names the client it is for, and carries a state. *)
Link == [client: App, state: State]

(* named: the answer to the exchange of the code has an app_id. *)
Redirect == [code: Code, link: Link, named: BOOLEAN]

RedirectOf(code) == CHOOSE r \in redirects : r.code = code
CodeApp(code) == RedirectOf(code).link.client
Named(code) == RedirectOf(code).named

(* apps.manifest.create, with an App ID that Slack has never given before. *)
CreateApp(a, m) ==
  /\ ~Created(a)
  /\ deployed' = [deployed EXCEPT ![a] = m]

(* apps.manifest.update. *)
UpdateApp(a, m) ==
  /\ Created(a)
  /\ deployed' = [deployed EXCEPT ![a] = m]

(* A workspace member approves a link.  The state is Slack's to carry, not *)
(* to check: a link can be approved at any time.  Whether the answer to    *)
(* the code's exchange will name its App is Slack's to choose.             *)
ApproveLink(link, code) ==
  /\ Created(link.client)
  /\ code # Past
  /\ \A r \in redirects : r.code # code
  /\ \E named \in BOOLEAN :
       redirects' = redirects \cup {[code |-> code, link |-> link, named |-> named]}

(* oauth.v2.access: a code is good once, and for the client it is for. *)
Exchangeable(code, client) ==
  /\ code \notin spent
  /\ client = CodeApp(code)

ExchangeCode(code, client) ==
  /\ Exchangeable(code, client)
  /\ spent' = spent \cup {code}
=============================================================================
