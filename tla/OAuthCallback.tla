---------------------------- MODULE OAuthCallback ----------------------------
(***************************************************************************)
(* The OAuth callback Lambda: complete_installation of callback.py behind  *)
(* lambda_handler, one step per SSM or Slack request.  Any number of       *)
(* invocations run at once, several of them perhaps for one redirect of    *)
(* Slack's, since a browser can repeat its request.                        *)
(*                                                                         *)
(* A query that has no code, or none that Slack gave, changes nothing, and *)
(* is left out; so is an exchange whose response lacks a token.            *)
(***************************************************************************)
EXTENDS SlackParameters

CONSTANT Callback  \* invocations of the Lambda

VARIABLE cb  \* each invocation and its locals

(* idle        not yet invoked        save    about to store the credentials
   binding     about to read it       record  about to store the binding
   credentials about to read them     success answered with 200
   exchange    about to exchange      refused answered with an error, or cut off *)
CallbackStep ==
  {"idle", "binding", "credentials", "exchange", "save", "record", "success", "refused"}

CallbackRecord ==
  [at: CallbackStep, code: Code \cup {None}, link: Link \cup {None},
   b: Binding \cup {None}, c: Credentials \cup {None}]

Ended(at) == [at |-> at, code |-> None, link |-> None, b |-> None, c |-> None]

Answer(i, at) == cb' = [cb EXCEPT ![i] = Ended(at)]

(* A browser follows a redirect of Slack's. *)
Request(i) ==
  /\ cb[i].at = "idle"
  /\ \E r \in redirects :
       cb' = [cb EXCEPT ![i].at = "binding", ![i].code = r.code, ![i].link = r.link]
  /\ UNCHANGED <<parameterVars, slackVars>>

(* The binding is there and _parse_binding accepts it.  That it does not   *)
(* look at the workspace makes no difference: for a binding of another one *)
(* no link was given out, and verify_state compares the workspace.         *)
ReadBinding(i) ==
  /\ cb[i].at = "binding"
  /\ Readable(binding)
  /\ cb' = [cb EXCEPT ![i].at = "credentials", ![i].b = binding]
  /\ UNCHANGED <<parameterVars, slackVars>>

(* The credentials are read, without app_token, and the state is verified  *)
(* with their key and for the App of the binding.                          *)
Verify(i, now) ==
  /\ cb[i].at = "credentials"
  /\ credentials # None
  /\ credentials.key # None /\ credentials.client # None
  /\ VerifyState(cb[i].link.state, credentials.key, cb[i].b.app, now)
  /\ cb' = [cb EXCEPT ![i].at = "exchange",
              ![i].c = [credentials EXCEPT !.legacy = FALSE]]
  /\ UNCHANGED <<parameterVars, slackVars>>

(* A plausible slip: the App of the response is not looked at. *)
ExchangeAnyApp(i) ==
  /\ cb[i].at = "exchange"
  /\ ExchangeCode(cb[i].code, cb[i].c.client)
  /\ cb' = [cb EXCEPT ![i].at = "save", ![i].c.token = cb[i].code]
  /\ UNCHANGED <<parameterVars, deployed, redirects, refresh>>

(* The code is exchanged; when the response has an app_id, it must be the  *)
(* binding's.  When it has none, the App is not compared at all.           *)
ExchangeAndCheck(i) ==
  /\ cb[i].at = "exchange"
  /\ ExchangeCode(cb[i].code, cb[i].c.client)
  /\ IF Named(cb[i].code) /\ cb[i].c.client # cb[i].b.app
     THEN Answer(i, "refused")
     ELSE cb' = [cb EXCEPT ![i].at = "save", ![i].c.token = cb[i].code]
  /\ UNCHANGED <<parameterVars, deployed, redirects, refresh>>

SaveCredentials(i) ==
  /\ cb[i].at = "save"
  /\ PutCredentials(cb[i].c)
  /\ cb' = [cb EXCEPT ![i].at = "record"]
  /\ UNCHANGED slackVars

(* The binding keeps its bot user when the response has none. *)
SaveBinding(i) ==
  /\ cb[i].at = "record"
  /\ \E bot \in {cb[i].code, cb[i].b.bot} :
       PutBinding([cb[i].b EXCEPT !.state = "installed", !.bot = bot])
  /\ Answer(i, "success")
  /\ UNCHANGED slackVars

(* A check or a request fails, or the invocation is cut off. *)
Refuse(i) ==
  /\ cb[i].at \notin {"idle", "success", "refused"}
  /\ Answer(i, "refused")
  /\ UNCHANGED <<parameterVars, slackVars>>

CallbackInit == cb = [i \in Callback |-> Ended("idle")]

HandleCallback(i, now) ==
  \/ Request(i)
  \/ ReadBinding(i)
  \/ Verify(i, now)
  \/ ExchangeAndCheck(i)
  \/ SaveCredentials(i)
  \/ SaveBinding(i)
  \/ Refuse(i)
=============================================================================
