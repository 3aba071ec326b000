--------------------------- MODULE SlackReconciler ---------------------------
(***************************************************************************)
(* SlackReconciler of reconciliation.py: the commands apply, install-url   *)
(* and complete-oauth of reconcile.py, one step per SSM or Slack request.  *)
(* Commands are run by an operator, one at a time; any request may fail,   *)
(* or the process may be stopped, and then the command is over where it is.*)
(*                                                                         *)
(* plan is what apply begins with.  A signing key that is too short, an    *)
(* incomplete response and a configuration token of another workspace are  *)
(* errors like any other (Fail).                                           *)
(***************************************************************************)
EXTENDS SlackParameters

CONSTANT Ttl  \* DEFAULT_TTL_SECONDS

VARIABLES
  op,    \* the command that runs, and its locals
  links  \* the install links that were given out

(* apply         present  plan is about to look for credentials
                 rotate   about to rotate the configuration token
                 rotated  about to store the new refresh token
                 create   about to create the App
                 keep     about to store its credentials
                 reread   update: about to read the binding again
                 read     update, adopt: about to read the credentials
                 seed     about to store a new signing key
                 update   about to update the App
                 sanitize about to store credentials without app_token
                 bind     about to store the binding
   install-url   mint     about to read the credentials
   complete-oauth  get    about to read the credentials
                 exchange about to exchange the code
                 save     about to store the bot token
                 record   about to store the binding                        *)
ApplyStep ==
  {"present", "rotate", "rotated", "create", "keep", "reread", "read", "seed",
   "update", "sanitize", "bind"}
CompleteStep == {"get", "exchange", "save", "record"}

(* kind: the plan's action.  app, digest: the plan's.  b, c: binding and   *)
(* credentials as read, or to be written.  dirty: app_token was read.      *)
Op ==
  [at: {"idle", "mint"} \cup ApplyStep \cup CompleteStep,
   kind: {"none", "create", "update", "adopt"},
   app: App \cup {None}, digest: Manifest \cup {None},
   b: Binding \cup {None, Unreadable}, c: Credentials \cup {None},
   dirty: BOOLEAN, code: Code \cup {None}, link: Link \cup {None}]

Idle ==
  [at |-> "idle", kind |-> "none", app |-> None, digest |-> None, b |-> None,
   c |-> None, dirty |-> FALSE, code |-> None, link |-> None]

At(s) == op.at = s
Goto(s) == op' = [op EXCEPT !.at = s]
Finish == op' = Idle

(* The credentials as _json_object reads them. *)
Stored == IF credentials = None THEN NoCredentials ELSE credentials

(* A key that secrets.token_hex has never given before. *)
FreshKey(k) ==
  /\ Stored.key # k
  /\ \A l \in links : l.state.key # k

(* Nothing but the command's own locals changes. *)
Local == UNCHANGED <<parameterVars, slackVars, links>>

-----------------------------------------------------------------------------
(* plan *)

(* A command is started, and reads the binding. *)
Apply(m, adopt) ==
  /\ At("idle")
  /\ op' = [Idle EXCEPT !.at = "present", !.digest = m, !.app = adopt, !.b = binding]
  /\ Local

PlanAs(kind, app) ==
  op' = [op EXCEPT !.at = "rotate", !.kind = kind, !.app = app, !.b = None]

(* A plausible slip: an App is created whenever the binding is missing. *)
PlanOverCredentials ==
  /\ At("present")
  /\ \/ /\ op.app # None /\ ~Readable(op.b)
        /\ PlanAs("adopt", op.app)
     \/ /\ op.app = None /\ op.b = None
        /\ PlanAs("create", None)
     \/ /\ op.app = None /\ Readable(op.b)
        /\ IF op.b.digest # op.digest THEN PlanAs("update", op.b.app) ELSE Finish
  /\ Local

(* The credentials are there or not; then the action is chosen, or plan    *)
(* refuses, or there is nothing to do.                                     *)
Plan ==
  /\ At("present")
  /\ \/ /\ op.app # None /\ ~Readable(op.b)
        /\ PlanAs("adopt", op.app)
     \/ /\ op.app = None /\ op.b = None /\ credentials = None
        /\ PlanAs("create", None)
     \/ /\ op.app = None /\ Readable(op.b) /\ op.b.digest # op.digest
        /\ PlanAs("update", op.b.app)
     \/ /\ \/ op.app # None /\ Readable(op.b)
           \/ op.app = None /\ op.b = None /\ credentials # None
           \/ op.b = Unreadable /\ op.app = None
           \/ Readable(op.b) /\ op.b.digest = op.digest
        /\ Finish
  /\ Local

-----------------------------------------------------------------------------
(* apply *)

(* The stored refresh token is read and used up. *)
Rotate ==
  /\ At("rotate")
  /\ refresh
  /\ refresh' = FALSE
  /\ Goto("rotated")
  /\ UNCHANGED <<parameterVars, deployed, redirects, spent, links>>

StoreRotated ==
  /\ At("rotated")
  /\ refresh' = TRUE
  /\ Goto(CASE op.kind = "create" -> "create"
            [] op.kind = "update" -> "reread"
            [] op.kind = "adopt" -> "read")
  /\ UNCHANGED <<parameterVars, deployed, redirects, spent, links>>

(* A plausible slip: the App keeps the name the plan had for it, none. *)
CreateManifestUnnamed ==
  /\ At("create")
  /\ \E a \in App, k \in Key :
       /\ CreateApp(a, op.digest)
       /\ FreshKey(k)
       /\ op' = [op EXCEPT !.at = "keep",
                   !.c = [client |-> a, key |-> k, token |-> None, legacy |-> FALSE]]
  /\ UNCHANGED <<parameterVars, redirects, spent, refresh, links>>

(* The App is created, with client credentials, and a signing key is drawn. *)
CreateManifest ==
  /\ At("create")
  /\ \E a \in App, k \in Key :
       /\ CreateApp(a, op.digest)
       /\ FreshKey(k)
       /\ op' = [op EXCEPT !.at = "keep", !.app = a,
                   !.c = [client |-> a, key |-> k, token |-> None, legacy |-> FALSE]]
  /\ UNCHANGED <<parameterVars, redirects, spent, refresh, links>>

(* The new App's credentials are stored, and a link is signed. *)
KeepCredentials(now) ==
  /\ At("keep")
  /\ PutCredentials(op.c)
  /\ op' = [op EXCEPT !.at = "bind",
              !.link = [client |-> op.c.client,
                        state |-> SignState(op.app, op.c.key, Ttl, now)]]
  /\ UNCHANGED <<slackVars, links>>

(* _binding, for what is to be preserved of it. *)
Reread ==
  /\ At("reread")
  /\ Readable(binding)
  /\ op' = [op EXCEPT !.at = "read", !.b = binding]
  /\ Local

(* A plausible slip: every apply draws a signing key. *)
ReadCredentialsRekeyed ==
  /\ At("read")
  /\ \E k \in Key :
       /\ FreshKey(k)
       /\ op' = [op EXCEPT !.at = "seed", !.dirty = Stored.legacy,
                   !.c = [Stored EXCEPT !.key = k, !.legacy = FALSE]]
  /\ Local

(* The credentials are read without their app_token; a signing key is      *)
(* drawn when there is none.                                               *)
ReadCredentials ==
  /\ At("read")
  /\ \/ /\ Stored.key # None
        /\ op' = [op EXCEPT !.at = "update", !.dirty = Stored.legacy,
                    !.c = [Stored EXCEPT !.legacy = FALSE]]
     \/ /\ Stored.key = None
        /\ \E k \in Key :
             /\ FreshKey(k)
             /\ op' = [op EXCEPT !.at = "seed", !.dirty = Stored.legacy,
                         !.c = [Stored EXCEPT !.key = k, !.legacy = FALSE]]
  /\ Local

Seed ==
  /\ At("seed")
  /\ PutCredentials(op.c)
  /\ Goto("update")
  /\ UNCHANGED <<slackVars, links>>

UpdateManifest ==
  /\ At("update")
  /\ UpdateApp(op.app, op.digest)
  /\ Goto(IF op.dirty THEN "sanitize" ELSE "bind")
  /\ UNCHANGED <<parameterVars, redirects, spent, refresh, links>>

(* A plausible slip: the credentials are cleared, not only of app_token. *)
SanitizeAll ==
  /\ At("sanitize")
  /\ PutCredentials([op.c EXCEPT !.token = None])
  /\ Goto("bind")
  /\ UNCHANGED <<slackVars, links>>

Sanitize ==
  /\ At("sanitize")
  /\ PutCredentials(op.c)
  /\ Goto("bind")
  /\ UNCHANGED <<slackVars, links>>

(* The binding apply writes: whether the App is installed is what the      *)
(* credentials said when they were read.                                   *)
Applied ==
  [app |-> op.app, digest |-> op.digest,
   state |-> IF op.kind # "create" /\ op.c.token # None
             THEN "installed" ELSE "approval_required",
   bot |-> IF op.kind = "update" THEN op.b.bot ELSE None]

(* The binding is stored; a created App's link is given out with it. *)
Bind ==
  /\ At("bind")
  /\ PutBinding(Applied)
  /\ links' = IF op.kind = "create" THEN links \cup {op.link} ELSE links
  /\ Finish
  /\ UNCHANGED slackVars

-----------------------------------------------------------------------------
(* install-url *)

InstallUrl(m) ==
  /\ At("idle")
  /\ Readable(binding) /\ binding.digest = m
  /\ op' = [Idle EXCEPT !.at = "mint", !.app = binding.app]
  /\ Local

(* _credentials refuses what is not one of today's keys. *)
MintLink(now) ==
  /\ At("mint")
  /\ Stored.client # None /\ Stored.key # None /\ ~Stored.legacy
  /\ links' = links \cup {[client |-> credentials.client,
                           state |-> SignState(op.app, credentials.key, Ttl, now)]}
  /\ Finish
  /\ UNCHANGED <<parameterVars, slackVars>>

-----------------------------------------------------------------------------
(* complete-oauth, with a code an operator took from a redirect *)

CompleteOauth(code) ==
  /\ At("idle")
  /\ \E r \in redirects : r.code = code
  /\ Readable(binding)
  /\ op' = [Idle EXCEPT !.at = "get", !.code = code, !.b = binding]
  /\ Local

GetCredentials ==
  /\ At("get")
  /\ Stored.client # None /\ ~Stored.legacy
  /\ op' = [op EXCEPT !.at = "exchange", !.c = Stored]
  /\ Local

(* The response must have an app_id, and it must be the binding's. *)
Exchange ==
  /\ At("exchange")
  /\ ExchangeCode(op.code, op.c.client)
  /\ IF Named(op.code) /\ op.c.client = op.b.app
     THEN op' = [op EXCEPT !.at = "save", !.c.token = op.code]
     ELSE Finish
  /\ UNCHANGED <<parameterVars, deployed, redirects, refresh, links>>

SaveToken ==
  /\ At("save")
  /\ PutCredentials(op.c)
  /\ Goto("record")
  /\ UNCHANGED <<slackVars, links>>

(* The binding keeps its bot user when the response has none. *)
RecordInstalled ==
  /\ At("record")
  /\ \E bot \in {op.code, op.b.bot} :
       PutBinding([op.b EXCEPT !.state = "installed", !.bot = bot])
  /\ Finish
  /\ UNCHANGED <<slackVars, links>>

-----------------------------------------------------------------------------

(* A request fails, or a read finds what the command cannot go on with. *)
Fail ==
  /\ ~At("idle")
  /\ Finish
  /\ Local

(* The workspace owner supplies new configuration tokens. *)
Bootstrap ==
  /\ At("idle")
  /\ ~refresh
  /\ refresh' = TRUE
  /\ UNCHANGED <<parameterVars, deployed, redirects, spent, links, op>>

ReconcilerInit ==
  /\ op = Idle
  /\ links = {}

Reconcile(now) ==
  \/ \E m \in Manifest, adopt \in App \cup {None} : Apply(m, adopt)
  \/ Plan
  \/ Rotate
  \/ StoreRotated
  \/ CreateManifest
  \/ KeepCredentials(now)
  \/ Reread
  \/ ReadCredentials
  \/ Seed
  \/ UpdateManifest
  \/ Sanitize
  \/ Bind
  \/ \E m \in Manifest : InstallUrl(m)
  \/ MintLink(now)
  \/ \E code \in Code : CompleteOauth(code)
  \/ GetCredentials
  \/ Exchange
  \/ SaveToken
  \/ RecordInstalled
  \/ Fail
  \/ Bootstrap
=============================================================================
