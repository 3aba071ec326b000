----------------------- MODULE SlackInstallationProofs -----------------------
(***************************************************************************)
(* Proofs about the installation of a Slack App, for any Apps, manifests,  *)
(* keys, codes, times, and any number of callbacks.                        *)
(*                                                                         *)
(* The argument has one idea: whoever writes a parameter knows enough of   *)
(* what is in it, although it was read some requests ago, because the App, *)
(* the key and the presence of a token never change once they are there    *)
(* (Steady), and because nobody but the command writes before the App has  *)
(* a name or a key, or as long as no link was given out.                   *)
(***************************************************************************)
EXTENDS SlackInstallation, TLAPS

Bound(a) == Readable(binding) /\ binding.app = a

(* The code is for the client; Slack names its App only if that is a. *)
Answered(code, client, a) ==
  \E r \in redirects :
    r.code = code /\ r.link.client = client /\ (r.named => client = a)

(* A link is for the App of the binding, signed with the key that is       *)
(* stored; every redirect comes from a link, and its code is its own.      *)
LinkInv ==
  /\ \A l \in links :
       /\ Bound(l.state.app)
       /\ l.state.key = Stored.key /\ Stored.legacy = FALSE
       /\ l.state.iat <= now /\ l.state.iat < l.state.exp
  /\ \A r \in redirects : r.link \in links
  /\ \A q, r \in redirects : q.code = r.code => q = r

Verified(at) == at \in {"exchange", "save", "record"}
Exchanged(at) == at \in {"save", "record"}

CallbackOK(r) ==
  /\ r.at \in {"binding", "credentials"} \/ Verified(r.at) =>
       r.link \in links /\ \E q \in redirects : q.code = r.code
  /\ r.at = "credentials" \/ Verified(r.at) => r.b # None /\ Bound(r.b.app)
  /\ Verified(r.at) =>
       r.c # None /\ r.c.key = Stored.key /\ Stored.key # None /\ r.c.legacy = FALSE
  /\ Exchanged(r.at) =>
       r.code # None /\ r.c.token = r.code /\ Answered(r.code, r.c.client, r.b.app)
  /\ r.at = "record" => Stored.token # None

CallbackInv == \A i \in Callback : CallbackOK(cb[i])

TokenInv == Loadable(binding) \/ reader # None => Stored.token # None

(* The kinds of command that can be at each step. *)
KindInv ==
  /\ op.at \in {"idle", "present", "mint"} \cup CompleteStep => op.kind = "none"
  /\ op.at \in {"rotate", "rotated", "bind"} => op.kind # "none"
  /\ op.at \in {"create", "keep"} => op.kind = "create"
  /\ op.at = "reread" => op.kind = "update"
  /\ op.at \in {"read", "seed", "update", "sanitize"} => op.kind \in {"update", "adopt"}
  /\ op.at \in ApplyStep => op.digest \in Manifest

PlanInv ==
  op.at = "present" =>
    /\ Readable(op.b) => Bound(op.b.app)
    /\ ~Readable(op.b) => binding = op.b

CreateInv ==
  op.kind = "create" =>
    /\ binding = None
    /\ op.at # "bind" => credentials = None
    /\ op.at \in {"keep", "bind"} =>
         /\ op.app \in App
         /\ op.c # None /\ op.c.key # None /\ op.c.client # None
         /\ op.c.legacy = FALSE /\ op.c.token = None
    /\ op.at = "bind" =>
         /\ credentials = op.c
         /\ op.link # None
         /\ op.link.state.app = op.app /\ op.link.state.key = op.c.key
         /\ op.link.state.iat <= now /\ op.link.state.iat < op.link.state.exp

(* What update and adopt know of the App, and of the credentials they read.*)
ChangeInv ==
  /\ op.kind = "adopt" => ~Readable(binding) /\ op.app \in App
  /\ op.kind = "update" =>
       /\ Bound(op.app)
       /\ op.at \in {"read", "seed", "update", "sanitize", "bind"} => Readable(op.b)
  /\ op.kind \in {"adopt", "update"} =>
       /\ op.at = "seed" =>
            /\ Stored.key = None
            /\ op.c # None /\ op.c.key # None /\ op.c.legacy = FALSE
            /\ op.c.token = Stored.token
       /\ op.at \in {"update", "sanitize", "bind"} =>
            /\ op.c # None /\ op.c.key = Stored.key /\ Stored.key # None
            /\ op.c.legacy = FALSE
            /\ op.c.token # None => Stored.token # None
       /\ op.at = "sanitize" => op.dirty
       /\ op.at \in {"seed", "update", "sanitize"} /\ op.dirty => links = {}
       /\ op.at \in {"update", "sanitize"} /\ op.dirty => op.c.token = Stored.token

CompleteInv ==
  /\ op.at = "mint" => Bound(op.app)
  /\ op.at \in CompleteStep =>
       /\ Readable(op.b) /\ Bound(op.b.app)
       /\ op.code \in Code
       /\ \E r \in redirects : r.code = op.code
  /\ Verified(op.at) => op.c # None /\ op.c.key = Stored.key /\ op.c.legacy = FALSE
  /\ Exchanged(op.at) => op.c.token = op.code /\ Answered(op.code, op.c.client, op.b.app)
  /\ op.at = "record" => Stored.token # None

OpInv == KindInv /\ PlanInv /\ CreateInv /\ ChangeInv /\ CompleteInv

InstallInv == TypeOK /\ LinkInv /\ CallbackInv /\ TokenInv /\ OpInv

(* What no step takes back. *)
Steady ==
  /\ Readable(binding) => Readable(binding') /\ binding'.app = binding.app
  /\ Stored.key # None => Stored'.key = Stored.key
  /\ Stored.token # None => Stored'.token # None
  /\ Stored.legacy = FALSE => Stored'.legacy = FALSE
  /\ links \subseteq links' /\ redirects \subseteq redirects'

(* What a step can do to the parameters: the App is named, once; the key   *)
(* is drawn, once; a token is stored that Slack gave for the client, and   *)
(* for the App of the binding, if the answer named an App.                 *)
AppNamed ==
  /\ Stored' = Stored /\ Readable(binding') /\ binding'.app \in App
  /\ Readable(binding) => binding'.app = binding.app
KeyDrawn ==
  /\ binding' = binding
  /\ Stored.key = None /\ Stored'.key \in Key /\ Stored'.token = Stored.token
TokenStored ==
  /\ binding' = binding
  /\ Stored'.key = Stored.key
  /\ \/ Stored'.token = Stored.token
     \/ /\ Readable(binding) /\ Stored'.token \in Code
        /\ Answered(Stored'.token, Stored'.client, binding.app)
Change == UNCHANGED parameterVars \/ AppNamed \/ KeyDrawn \/ TokenStored

-----------------------------------------------------------------------------
(* The signed state *)

(* A state is accepted for the App and the key it was signed for, from the *)
(* time it was signed to ttl later, and at no other time: the boundaries   *)
(* of verify_state and sign_state meet.                                    *)
THEOREM StateWindow ==
  ASSUME NEW app, NEW key, NEW other, NEW k, NEW ttl \in Nat \ {0},
         NEW signed \in Int, NEW clock \in Int
  PROVE  VerifyState(SignState(app, key, ttl, signed), k, other, clock)
         <=> k = key /\ other = app /\ clock \in signed..(signed + ttl - 1)
BY DEF VerifyState, SignState

-----------------------------------------------------------------------------
(* Lemmas about steps that change little *)

LEMMA StoredType ==
  ASSUME TypeOK
  PROVE  Stored \in Credentials /\ (credentials # None => Stored = credentials)
BY DEF TypeOK, Stored, NoCredentials, Credentials

LEMMA ActiveCallback ==
  ASSUME InstallInv, NEW i \in Callback, Verified(cb[i].at)
  PROVE  /\ links # {} /\ Readable(binding) /\ Stored.key # None
         /\ Stored.legacy = FALSE
BY DEF InstallInv, LinkInv, CallbackInv, CallbackOK, Bound, Verified

(* The code of a redirect is for the client of its link. *)
LEMMA CodeAppOf ==
  ASSUME InstallInv, NEW r \in redirects
  PROVE  CodeApp(r.code) = r.link.client /\ Named(r.code) = r.named
<1> DEFINE q == CHOOSE q \in redirects : q.code = r.code
<1>1. q \in redirects /\ q.code = r.code
  OBVIOUS
<1>2. q = r
  BY <1>1 DEF InstallInv, LinkInv
<1> QED BY <1>2 DEF CodeApp, Named, RedirectOf

LEMMA SameStored == UNCHANGED parameterVars => Stored' = Stored
BY DEF parameterVars, Stored

LEMMA CallbacksKept ==
  ASSUME InstallInv, Steady, cb' = cb
  PROVE  CallbackInv'
BY DEF InstallInv, CallbackInv, CallbackOK, Steady, Bound, Answered, Verified, Exchanged

LEMMA LinksKept ==
  ASSUME InstallInv, Steady, UNCHANGED <<links, redirects>>, now' = now \/ now' = now + 1
  PROVE  LinkInv'
<1>1. /\ now \in Nat /\ links \subseteq Link
  BY DEF InstallInv, TypeOK
<1>2. \A l \in links : l.state.key \in Key /\ l.state.iat \in Int /\ l.state.key # None
  BY <1>1, InstallationAssumption DEF Link, State
<1> QED BY <1>1, <1>2 DEF InstallInv, LinkInv, Steady, Bound

LEMMA SteadyParameters ==
  ASSUME UNCHANGED parameterVars, links \subseteq links', redirects \subseteq redirects'
  PROVE  Steady
BY SameStored DEF parameterVars, Steady

(* A command's step that writes no parameter and gives out no link. *)
LEMMA QuietStep ==
  ASSUME InstallInv, UNCHANGED <<now, reader, cb, parameterVars, links, redirects>>,
         op' \in Op, deployed' \in [App -> Manifest \cup {None}], spent' \subseteq Code,
         refresh' \in BOOLEAN, OpInv'
  PROVE  InstallInv'
<1>1. Steady
  BY SteadyParameters
<1>2. CallbackInv' /\ LinkInv'
  BY <1>1, CallbacksKept, LinksKept
<1>3. TypeOK'
  BY DEF InstallInv, TypeOK, parameterVars
<1>4. TokenInv'
  BY SameStored DEF InstallInv, TokenInv, parameterVars
<1> QED BY <1>2, <1>3, <1>4 DEF InstallInv

(* A step that is not the command's: it leaves the parameters alone, or is *)
(* a callback's, and then there is a link.                                 *)
LEMMA CommandKept ==
  ASSUME InstallInv, Steady, op' = op, links' = links, now' = now \/ now' = now + 1,
         UNCHANGED parameterVars
         \/ (links # {} /\ Readable(binding) /\ Stored.key # None)
  PROVE  OpInv'
<1>1. KindInv'
  BY DEF InstallInv, OpInv, KindInv
<1>2. PlanInv'
  BY DEF InstallInv, OpInv, PlanInv, Steady, Bound, parameterVars, Readable
<1>3. CreateInv'
  <2> SUFFICES ASSUME op.kind = "create" PROVE CreateInv'
    BY DEF CreateInv
  <2>1. binding = None
    BY DEF InstallInv, OpInv, CreateInv
  <2>2. UNCHANGED parameterVars
    BY <2>1 DEF Readable
  <2>3. op.link # None => op.link.state.iat \in Int
    BY DEF InstallInv, TypeOK, Op, Link, State
  <2> QED BY <2>2, <2>3 DEF InstallInv, OpInv, CreateInv, parameterVars, TypeOK
<1>4. ChangeInv'
  BY SameStored DEF InstallInv, OpInv, ChangeInv, Steady, Bound, parameterVars, Readable
<1>5. CompleteInv'
  <2>1. Verified(op.at) => Stored.key # None
    <3> SUFFICES ASSUME Verified(op.at) PROVE Stored.key # None
      OBVIOUS
    <3>1. PICK r \in redirects : r.code = op.code
      BY DEF InstallInv, OpInv, CompleteInv, Verified, CompleteStep
    <3>2. r.link \in links /\ r.link.state.key \in Key
      BY DEF InstallInv, LinkInv, TypeOK, Link, State
    <3> QED BY <3>2, InstallationAssumption DEF InstallInv, LinkInv
  <2> QED BY <2>1 DEF InstallInv, OpInv, CompleteInv, Steady, Bound, Answered
<1> QED BY <1>1, <1>2, <1>3, <1>4, <1>5 DEF OpInv

-----------------------------------------------------------------------------
(* The initial state *)

LEMMA InitInstall == Init => InstallInv
<1> SUFFICES ASSUME Init PROVE InstallInv
  OBVIOUS
<1> USE InstallationAssumption
<1>1. op = Idle /\ links = {} /\ redirects = {} /\ reader = None /\ now = 0
      /\ \A i \in Callback : cb[i] = Ended("idle")
  BY DEF Init, ReconcilerInit, CallbackInit
<1>2. cb \in [Callback -> CallbackRecord]
  BY DEF Init, CallbackInit, Ended, CallbackRecord, CallbackStep
<1>3. op \in Op
  BY <1>1 DEF Op, Idle
<1>4. /\ binding \in Binding \cup {None, Unreadable}
      /\ credentials \in Credentials \cup {None}
      /\ deployed \in [App -> Manifest \cup {None}]
  <2>1. CASE NewAgent
    BY <2>1 DEF NewAgent
  <2>2. CASE OldAgent
    BY <2>2 DEF OldAgent, Binding, Credentials
  <2> QED BY <2>1, <2>2 DEF Init
<1>5. TypeOK
  BY <1>1, <1>2, <1>3, <1>4 DEF TypeOK, Init
<1>6. LinkInv /\ CallbackInv
  BY <1>1 DEF LinkInv, CallbackInv, CallbackOK, Verified, Exchanged, Ended
<1>7. TokenInv
  <2>1. CASE NewAgent
    BY <1>1, <2>1 DEF NewAgent, TokenInv, Loadable, Readable
  <2>2. CASE OldAgent
    <3>1. PICK t \in {Past, None} :
            /\ credentials.token = t /\ credentials # None
            /\ binding = Unreadable \/ (t = None => binding.state = "approval_required")
      BY <1>4, <2>2 DEF OldAgent, Credentials
    <3>2. Stored.token = t
      BY <3>1 DEF Stored
    <3>3. Loadable(binding) => t # None
      BY <3>1 DEF Loadable, Readable
    <3> QED BY <1>1, <3>2, <3>3 DEF TokenInv
  <2> QED BY <2>1, <2>2 DEF Init
<1>8. OpInv
  BY <1>1 DEF OpInv, KindInv, PlanInv, CreateInv, ChangeInv, CompleteInv, Idle, ApplyStep,
             CompleteStep, Verified, Exchanged
<1> QED BY <1>5, <1>6, <1>7, <1>8 DEF InstallInv

-----------------------------------------------------------------------------
(* The steps of the commands *)

(* Everything OpInv says is said of some steps only. *)
LEMMA IdleOp == op' = Idle => OpInv' /\ op' \in Op
BY DEF OpInv, KindInv, PlanInv, CreateInv, ChangeInv, CompleteInv, Idle, ApplyStep,
       CompleteStep, Verified, Exchanged, Op

LEMMA FinishStep ==
  ASSUME InstallInv, Finish, Local, UNCHANGED <<now, reader, cb>>
  PROVE  InstallInv'
<1>1. OpInv' /\ op' \in Op
  BY IdleOp DEF Finish
<1> QED BY <1>1, QuietStep DEF InstallInv, TypeOK, Local, slackVars

LEMMA ApplyQuiet ==
  ASSUME InstallInv, NEW m \in Manifest, NEW adopt \in App \cup {None}, Apply(m, adopt),
         UNCHANGED <<now, reader, cb>>
  PROVE  InstallInv'
<1>1. op' \in Op
  BY DEF InstallInv, TypeOK, Apply, Idle, Op, ApplyStep
<1>2. OpInv'
  BY DEF InstallInv, Apply, Idle, OpInv, KindInv, PlanInv, CreateInv, ChangeInv, CompleteInv,
         ApplyStep, CompleteStep, Verified, Exchanged, Local, parameterVars, Bound, Readable
<1> QED BY <1>1, <1>2, QuietStep DEF InstallInv, TypeOK, Apply, Local, slackVars

LEMMA PlanQuiet ==
  ASSUME InstallInv, Plan, UNCHANGED <<now, reader, cb>>
  PROVE  InstallInv'
<1>1. Local /\ op.at = "present" /\ UNCHANGED parameterVars
  BY DEF Plan, Local, At
<1>2. op \in Op /\ op.digest \in Manifest
  BY <1>1 DEF InstallInv, TypeOK, OpInv, KindInv, ApplyStep
<1>3. CASE op.app # None /\ ~Readable(op.b) /\ PlanAs("adopt", op.app)
  <2>1. op' \in Op
    BY <1>2, <1>3 DEF PlanAs, Op, ApplyStep
  <2>2. ~Readable(binding) /\ op.app \in App
    BY <1>1, <1>2, <1>3 DEF InstallInv, OpInv, PlanInv, Readable, Op
  <2>3. OpInv'
    BY <1>1, <1>2, <1>3, <2>2 DEF PlanAs, OpInv, KindInv, PlanInv, CreateInv, ChangeInv,
       CompleteInv, ApplyStep, CompleteStep, Verified, Exchanged, parameterVars, Readable, Op
  <2> QED BY <1>1, <2>1, <2>3, QuietStep DEF InstallInv, TypeOK, Local, slackVars
<1>4. CASE op.app = None /\ op.b = None /\ credentials = None /\ PlanAs("create", None)
  <2>1. op' \in Op
    BY <1>2, <1>4 DEF PlanAs, Op, ApplyStep
  <2>2. binding = None
    BY <1>1, <1>4 DEF InstallInv, OpInv, PlanInv, Readable
  <2>3. OpInv'
    BY <1>1, <1>2, <1>4, <2>2 DEF PlanAs, OpInv, KindInv, PlanInv, CreateInv, ChangeInv,
       CompleteInv, ApplyStep, CompleteStep, Verified, Exchanged, parameterVars, Op
  <2> QED BY <1>1, <2>1, <2>3, QuietStep DEF InstallInv, TypeOK, Local, slackVars
<1>5. CASE op.app = None /\ Readable(op.b) /\ PlanAs("update", op.b.app)
  <2>1. op.b \in Binding /\ op.b.app \in App
    BY <1>2, <1>5 DEF Op, Readable, Binding
  <2>2. op' \in Op
    BY <1>2, <1>5, <2>1 DEF PlanAs, Op, ApplyStep
  <2>3. Bound(op.b.app)
    BY <1>1, <1>5 DEF InstallInv, OpInv, PlanInv
  <2>4. OpInv'
    BY <1>1, <1>2, <1>5, <2>3 DEF PlanAs, OpInv, KindInv, PlanInv, CreateInv, ChangeInv,
       CompleteInv, ApplyStep, CompleteStep, Verified, Exchanged, parameterVars, Bound,
       Readable, Op
  <2> QED BY <1>1, <2>2, <2>4, QuietStep DEF InstallInv, TypeOK, Local, slackVars
<1>6. CASE Finish
  BY <1>1, <1>6, FinishStep
<1> QED BY <1>3, <1>4, <1>5, <1>6 DEF Plan

(* rotate_configuration_token, and putting the new refresh token. *)
LEMMA RotateQuiet ==
  ASSUME InstallInv, Rotate \/ StoreRotated, UNCHANGED <<now, reader, cb>>
  PROVE  InstallInv'
<1>1. /\ op \in Op /\ op.at \in {"rotate", "rotated"} /\ UNCHANGED parameterVars
      /\ UNCHANGED <<links, deployed, spent, redirects>> /\ refresh' \in BOOLEAN
  BY DEF InstallInv, TypeOK, Rotate, StoreRotated, At
<1>2. op.kind \in {"create", "update", "adopt"}
  BY <1>1 DEF InstallInv, OpInv, KindInv, Op
<1>3. \E at \in {"rotated", "create", "reread", "read"} :
        /\ op' = [op EXCEPT !.at = at]
        /\ at = "create" => op.kind = "create"
        /\ at = "reread" => op.kind = "update"
        /\ at = "read" => op.kind = "adopt"
  BY <1>2 DEF Rotate, StoreRotated, Goto
<1>4. op' \in Op
  BY <1>1, <1>3 DEF Op, ApplyStep
<1>5. OpInv'
  BY <1>1, <1>2, <1>3 DEF InstallInv, OpInv, KindInv, PlanInv, CreateInv, ChangeInv,
     CompleteInv, ApplyStep, CompleteStep, Verified, Exchanged, parameterVars, Bound, Op
<1> QED BY <1>1, <1>4, <1>5, QuietStep DEF InstallInv, TypeOK

LEMMA CreateQuiet ==
  ASSUME InstallInv, CreateManifest, UNCHANGED <<now, reader, cb>>
  PROVE  InstallInv'
<1>1. PICK a \in App, k \in Key :
        /\ CreateApp(a, op.digest)
        /\ op' = [op EXCEPT !.at = "keep", !.app = a,
                    !.c = [client |-> a, key |-> k, token |-> None, legacy |-> FALSE]]
  BY DEF CreateManifest
<1>2. /\ op \in Op /\ op.at = "create" /\ op.kind = "create" /\ op.digest \in Manifest
      /\ UNCHANGED <<binding, credentials, links, redirects, spent, refresh>>
  BY DEF InstallInv, TypeOK, OpInv, KindInv, CreateManifest, At, ApplyStep, parameterVars
<1> DEFINE c == [client |-> a, key |-> k, token |-> None, legacy |-> FALSE]
<1>8. c \in Credentials
  BY DEF Credentials
<1>9. c.key = k /\ c.client = a /\ c.legacy = FALSE /\ c.token = None
  OBVIOUS
<1>0. c # None /\ k # None /\ a # None
  BY <1>8, InstallationAssumption
<1> HIDE DEF c
<1>3. /\ op' \in Op
      /\ op'.at = "keep" /\ op'.kind = "create" /\ op'.app = a /\ op'.c = c
      /\ op'.digest \in Manifest
  BY <1>1, <1>2, <1>8 DEF Op, ApplyStep, c
<1>4. deployed' \in [App -> Manifest \cup {None}]
  BY <1>1, <1>2 DEF InstallInv, TypeOK, CreateApp
<1>5. CreateInv'
  BY <1>0, <1>2, <1>3, <1>9 DEF InstallInv, OpInv, CreateInv
<1>6. KindInv' /\ PlanInv' /\ ChangeInv' /\ CompleteInv'
  BY <1>3 DEF KindInv, PlanInv, ChangeInv, CompleteInv, ApplyStep, CompleteStep, Verified,
     Exchanged
<1>7. OpInv'
  BY <1>5, <1>6 DEF OpInv
<1> QED BY <1>2, <1>3, <1>4, <1>7, QuietStep DEF InstallInv, TypeOK, parameterVars

LEMMA RereadQuiet ==
  ASSUME InstallInv, Reread, UNCHANGED <<now, reader, cb>>
  PROVE  InstallInv'
<1>1. /\ op \in Op /\ op.at = "reread" /\ op.kind = "update" /\ Readable(binding)
      /\ op' = [op EXCEPT !.at = "read", !.b = binding] /\ Local
  BY DEF InstallInv, TypeOK, OpInv, KindInv, Reread, At
<1>2. op' \in Op
  BY <1>1 DEF InstallInv, TypeOK, Op, ApplyStep
<1>3. OpInv'
  BY <1>1 DEF InstallInv, OpInv, KindInv, PlanInv, CreateInv, ChangeInv, CompleteInv,
     ApplyStep, CompleteStep, Verified, Exchanged, Local, parameterVars, Bound, Op
<1> QED BY <1>1, <1>2, <1>3, QuietStep DEF InstallInv, TypeOK, Local, slackVars

(* While credentials are legacy, no link was given out. *)
LEMMA ReadCredentialsQuiet ==
  ASSUME InstallInv, ReadCredentials, UNCHANGED <<now, reader, cb>>
  PROVE  InstallInv'
<1>1. /\ op \in Op /\ op.at = "read" /\ op.kind \in {"update", "adopt"} /\ Local
      /\ Stored \in Credentials
  BY StoredType DEF InstallInv, TypeOK, OpInv, KindInv, ReadCredentials, At
<1>2. Stored' = Stored /\ UNCHANGED <<binding, credentials, links, redirects>>
  BY <1>1, SameStored DEF Local, parameterVars, slackVars
<1>3. Stored.legacy => links = {}
  BY DEF InstallInv, LinkInv
<1>4. CASE /\ Stored.key # None
           /\ op' = [op EXCEPT !.at = "update", !.dirty = Stored.legacy,
                       !.c = [Stored EXCEPT !.legacy = FALSE]]
  <2> DEFINE c == [Stored EXCEPT !.legacy = FALSE]
  <2>0. c \in Credentials /\ c # None /\ Stored.legacy \in BOOLEAN
    BY <1>1, InstallationAssumption DEF Credentials
  <2>1. op' \in Op
    BY <1>1, <1>4, <2>0 DEF Op, ApplyStep
  <2>2. op'.c = c /\ op'.c # None
    BY <1>1, <1>4, <2>0 DEF Op
  <2>3. KindInv' /\ PlanInv' /\ CreateInv' /\ CompleteInv'
    BY <1>1, <1>4 DEF InstallInv, OpInv, KindInv, PlanInv, CreateInv, CompleteInv,
       ApplyStep, CompleteStep, Verified, Exchanged, Op
  <2>4. ChangeInv'
    BY <1>1, <1>2, <1>3, <1>4, <2>2 DEF InstallInv, OpInv, ChangeInv, Bound, Op, Credentials
  <2> QED BY <1>1, <2>1, <2>3, <2>4, QuietStep DEF InstallInv, TypeOK, OpInv, Local, slackVars
<1>5. CASE /\ Stored.key = None
           /\ \E k \in Key :
                op' = [op EXCEPT !.at = "seed", !.dirty = Stored.legacy,
                         !.c = [Stored EXCEPT !.key = k, !.legacy = FALSE]]
  <2>0. PICK k \in Key :
          op' = [op EXCEPT !.at = "seed", !.dirty = Stored.legacy,
                   !.c = [Stored EXCEPT !.key = k, !.legacy = FALSE]]
    BY <1>5
  <2> DEFINE c == [Stored EXCEPT !.key = k, !.legacy = FALSE]
  <2>9. c \in Credentials /\ c # None /\ Stored.legacy \in BOOLEAN
    BY <1>1, InstallationAssumption DEF Credentials
  <2>1. op' \in Op
    BY <1>1, <2>0, <2>9 DEF Op, ApplyStep
  <2>2. op'.c = c /\ op'.c # None /\ k # None
    BY <1>1, <2>0, <2>9, InstallationAssumption DEF Op
  <2>3. KindInv' /\ PlanInv' /\ CreateInv' /\ CompleteInv'
    BY <1>1, <2>0 DEF InstallInv, OpInv, KindInv, PlanInv, CreateInv, CompleteInv,
       ApplyStep, CompleteStep, Verified, Exchanged, Op
  <2>4. ChangeInv'
    BY <1>1, <1>2, <1>3, <1>5, <2>0, <2>2 DEF InstallInv, OpInv, ChangeInv, Bound, Op,
       Credentials
  <2> QED BY <1>1, <2>1, <2>3, <2>4, QuietStep DEF InstallInv, TypeOK, OpInv, Local, slackVars
<1> QED BY <1>4, <1>5 DEF ReadCredentials

LEMMA UpdateQuiet ==
  ASSUME InstallInv, UpdateManifest, UNCHANGED <<now, reader, cb>>
  PROVE  InstallInv'
<1>1. /\ op \in Op /\ op.at = "update" /\ op.kind \in {"update", "adopt"}
      /\ op.digest \in Manifest /\ UpdateApp(op.app, op.digest)
      /\ UNCHANGED <<binding, credentials, links, redirects, spent, refresh>>
      /\ op' = [op EXCEPT !.at = IF op.dirty THEN "sanitize" ELSE "bind"]
  BY DEF InstallInv, TypeOK, OpInv, KindInv, UpdateManifest, At, ApplyStep, Goto,
         parameterVars
<1>2. Stored' = Stored
  BY <1>1, SameStored DEF parameterVars
<1>3. op' \in Op /\ deployed' \in [App -> Manifest \cup {None}]
  BY <1>1 DEF InstallInv, TypeOK, Op, ApplyStep, UpdateApp
<1>4. KindInv' /\ PlanInv' /\ CreateInv' /\ CompleteInv'
  BY <1>1 DEF InstallInv, OpInv, KindInv, PlanInv, CreateInv, CompleteInv,
     ApplyStep, CompleteStep, Verified, Exchanged, Op
<1>5. ChangeInv'
  BY <1>1, <1>2 DEF InstallInv, OpInv, ChangeInv, Bound, Op
<1> QED BY <1>1, <1>3, <1>4, <1>5, QuietStep DEF InstallInv, TypeOK, OpInv, parameterVars

LEMMA InstallUrlQuiet ==
  ASSUME InstallInv, NEW m \in Manifest, InstallUrl(m), UNCHANGED <<now, reader, cb>>
  PROVE  InstallInv'
<1>1. binding \in Binding /\ op' = [Idle EXCEPT !.at = "mint", !.app = binding.app] /\ Local
  BY DEF InstallInv, TypeOK, InstallUrl, Readable
<1>2. op' \in Op
  BY <1>1 DEF Idle, Op, Binding
<1>3. OpInv'
  BY <1>1 DEF InstallUrl, Idle, OpInv, KindInv, PlanInv, CreateInv, ChangeInv, CompleteInv,
         ApplyStep, CompleteStep, Verified, Exchanged, Local, parameterVars, Bound
<1> QED BY <1>1, <1>2, <1>3, QuietStep DEF InstallInv, TypeOK, Local, slackVars

LEMMA CompleteOauthQuiet ==
  ASSUME InstallInv, NEW code \in Code, CompleteOauth(code), UNCHANGED <<now, reader, cb>>
  PROVE  InstallInv'
<1>1. /\ binding \in Binding /\ Readable(binding) /\ Local
      /\ op' = [Idle EXCEPT !.at = "get", !.code = code, !.b = binding]
  BY DEF InstallInv, TypeOK, CompleteOauth, Readable
<1>2. op' \in Op
  BY <1>1 DEF Idle, Op, CompleteStep
<1>3. OpInv'
  BY <1>1 DEF CompleteOauth, Idle, OpInv, KindInv, PlanInv, CreateInv, ChangeInv, CompleteInv,
         ApplyStep, CompleteStep, Verified, Exchanged, Local, parameterVars, Bound, slackVars
<1> QED BY <1>1, <1>2, <1>3, QuietStep DEF InstallInv, TypeOK, Local, slackVars

LEMMA GetCredentialsQuiet ==
  ASSUME InstallInv, GetCredentials, UNCHANGED <<now, reader, cb>>
  PROVE  InstallInv'
<1>1. /\ op \in Op /\ op.at = "get" /\ op.kind = "none" /\ Local
      /\ Stored \in Credentials /\ Stored.legacy = FALSE /\ Stored # None
      /\ op' = [op EXCEPT !.at = "exchange", !.c = Stored]
  BY StoredType, InstallationAssumption
     DEF InstallInv, TypeOK, OpInv, KindInv, GetCredentials, At, CompleteStep, Credentials
<1>2. Stored' = Stored /\ UNCHANGED <<binding, credentials, links, redirects>>
  BY <1>1, SameStored DEF Local, parameterVars, slackVars
<1>3. op' \in Op
  BY <1>1 DEF Op, CompleteStep
<1>4. OpInv'
  BY <1>1, <1>2 DEF InstallInv, OpInv, KindInv, PlanInv, CreateInv, ChangeInv, CompleteInv,
         ApplyStep, CompleteStep, Verified, Exchanged, Bound, Op
<1> QED BY <1>1, <1>3, <1>4, QuietStep DEF InstallInv, TypeOK, Local, slackVars

(* The code's client is the one that was read, and the App is checked. *)
LEMMA ExchangeQuiet ==
  ASSUME InstallInv, Exchange, UNCHANGED <<now, reader, cb>>
  PROVE  InstallInv'
<1>1. /\ op \in Op /\ op.at = "exchange" /\ op.kind = "none" /\ op.code \in Code
      /\ UNCHANGED <<binding, credentials, links, redirects, deployed, refresh>>
      /\ spent' \subseteq Code
  BY DEF InstallInv, TypeOK, OpInv, KindInv, CompleteInv, Exchange, At, CompleteStep,
         parameterVars, ExchangeCode
<1>2. CASE /\ op.c.client = op.b.app
           /\ op' = [op EXCEPT !.at = "save", !.c.token = op.code]
  <2>1. op.c \in Credentials
    BY <1>1 DEF InstallInv, OpInv, CompleteInv, Verified, Op
  <2>9. [op.c EXCEPT !.token = op.code] \in Credentials
    BY <1>1, <2>1 DEF Credentials
  <2>8. op' = [op EXCEPT !.at = "save", !.c = [op.c EXCEPT !.token = op.code]]
    BY <1>1, <1>2 DEF Op
  <2>2. op' \in Op /\ op'.c # None
    BY <1>1, <2>8, <2>9, InstallationAssumption DEF Op, CompleteStep
  <2>3. PICK r \in redirects : r.code = op.code
    BY <1>1 DEF InstallInv, OpInv, CompleteInv, CompleteStep
  <2>4. Answered(op.code, op.c.client, op.b.app)
    BY <1>2, <2>3, CodeAppOf DEF Exchange, ExchangeCode, Exchangeable, Answered
  <2>5. op'.c = [op.c EXCEPT !.token = op.code]
    BY <1>1, <1>2, <2>1 DEF Op, Credentials
  <2>6. CompleteInv'
    BY <1>1, <1>2, <2>1, <2>2, <2>4, <2>5, SameStored
       DEF InstallInv, OpInv, CompleteInv, CompleteStep, Verified, Exchanged, Bound, Answered,
           Op, Credentials, parameterVars
  <2>7. KindInv' /\ PlanInv' /\ CreateInv' /\ ChangeInv'
    BY <1>1, <1>2 DEF KindInv, PlanInv, CreateInv, ChangeInv, ApplyStep, CompleteStep, Op
  <2> QED BY <1>1, <2>2, <2>6, <2>7, QuietStep DEF InstallInv, TypeOK, OpInv, parameterVars
<1>3. CASE Finish
  BY <1>1, <1>3, IdleOp, QuietStep DEF Finish, InstallInv, TypeOK, parameterVars
<1> QED BY <1>2, <1>3 DEF Exchange

LEMMA BootstrapQuiet ==
  ASSUME InstallInv, Bootstrap, UNCHANGED <<now, reader, cb>>
  PROVE  InstallInv'
<1>1. op = Idle \/ op.at = "idle"
  BY DEF Bootstrap, At
<1>2. OpInv'
  BY SameStored DEF Bootstrap, InstallInv, OpInv, KindInv, PlanInv, CreateInv, ChangeInv,
     CompleteInv, Bound, Answered, parameterVars
<1> QED BY <1>2, QuietStep DEF Bootstrap, InstallInv, TypeOK

-----------------------------------------------------------------------------
(* The steps of the commands that write *)

LEMMA WriteStep ==
  ASSUME InstallInv, Steady, UNCHANGED <<now, cb, links, redirects>>,
         TypeOK', OpInv', TokenInv'
  PROVE  InstallInv'
BY CallbacksKept, LinksKept DEF InstallInv

LEMMA TokenKept ==
  ASSUME InstallInv, Steady, reader' = reader,
         Loadable(binding') => Loadable(binding) \/ Stored'.token # None
  PROVE  TokenInv'
BY DEF InstallInv, TokenInv, Steady

LEMMA CredentialsPut ==
  ASSUME NEW c \in Credentials, PutCredentials(c)
  PROVE  Stored' = c /\ credentials' = c /\ binding' = binding
BY InstallationAssumption DEF PutCredentials, Stored

LEMMA BindingPut ==
  ASSUME NEW b \in Binding, PutBinding(b)
  PROVE  /\ binding' = b /\ credentials' = credentials /\ Stored' = Stored
         /\ Readable(b) /\ b # None
BY InstallationAssumption DEF PutBinding, Stored, Readable

LEMMA KeepStep ==
  ASSUME InstallInv, KeepCredentials(now), UNCHANGED <<now, reader, cb>>
  PROVE  InstallInv' /\ Change
<1> USE InstallationAssumption
<1>1. /\ op \in Op /\ op.at = "keep" /\ op.kind = "create" /\ op.digest \in Manifest
      /\ binding = None /\ credentials = None /\ now \in Nat
      /\ op.app \in App
      /\ op.c # None /\ op.c.key # None /\ op.c.client # None
      /\ op.c.legacy = FALSE /\ op.c.token = None
  BY DEF InstallInv, TypeOK, OpInv, KindInv, CreateInv, KeepCredentials, At, ApplyStep
<1>2. op.c \in Credentials /\ op.c.client \in App /\ op.c.key \in Key
  BY <1>1 DEF Op, Credentials
<1>3. Stored' = op.c /\ credentials' = op.c /\ binding' = binding
  BY <1>2, CredentialsPut DEF KeepCredentials
<1>4. Stored = NoCredentials
  BY <1>1 DEF Stored
<1>5. Steady
  BY <1>1, <1>3, <1>4 DEF Steady, NoCredentials, KeepCredentials, slackVars
<1> DEFINE link == [client |-> op.c.client, state |-> SignState(op.app, op.c.key, Ttl, now)]
<1>6. /\ link \in Link /\ link # None
      /\ link.state.app = op.app /\ link.state.key = op.c.key
      /\ link.state.iat <= now /\ link.state.iat < link.state.exp
  <2>1. SignState(op.app, op.c.key, Ttl, now) \in State
    BY <1>1, <1>2 DEF SignState, State
  <2>2. link \in Link
    BY <1>2, <2>1 DEF Link
  <2> QED BY <1>1, <2>2 DEF SignState
<1>7. op' = [op EXCEPT !.at = "bind", !.link = link]
  BY DEF KeepCredentials
<1> HIDE DEF link
<1>8. op' \in Op
  BY <1>1, <1>6, <1>7 DEF Op, ApplyStep
<1>9. TypeOK'
  BY <1>2, <1>3, <1>8 DEF InstallInv, TypeOK, KeepCredentials, slackVars
<1>10. /\ op'.at = "bind" /\ op'.kind = "create" /\ op'.app = op.app /\ op'.c = op.c
       /\ op'.link = link /\ op'.digest = op.digest
  BY <1>1, <1>7 DEF Op
<1>11. CreateInv'
  BY <1>1, <1>3, <1>6, <1>10 DEF CreateInv
<1>12. KindInv' /\ PlanInv' /\ ChangeInv' /\ CompleteInv'
  BY <1>1, <1>10 DEF KindInv, PlanInv, ChangeInv, CompleteInv, ApplyStep, CompleteStep,
     Verified, Exchanged
<1>13. TokenInv'
  BY <1>3, <1>5, TokenKept
<1>14. Change
  BY <1>1, <1>2, <1>3, <1>4 DEF Change, KeyDrawn, NoCredentials
<1> QED BY <1>14, <1>5, <1>9, <1>11, <1>12, <1>13, WriteStep DEF OpInv, KeepCredentials, slackVars

LEMMA SeedStep ==
  ASSUME InstallInv, Seed, UNCHANGED <<now, reader, cb>>
  PROVE  InstallInv' /\ Change
<1> USE InstallationAssumption
<1>1. /\ op \in Op /\ op.at = "seed" /\ op.kind \in {"update", "adopt"}
      /\ op.digest \in Manifest
      /\ Stored.key = None /\ op.c # None /\ op.c.key # None /\ op.c.legacy = FALSE
      /\ op.c.token = Stored.token
      /\ op' = [op EXCEPT !.at = "update"]
      /\ UNCHANGED <<links, redirects, deployed, spent, refresh>>
  BY DEF InstallInv, TypeOK, OpInv, KindInv, ChangeInv, Seed, At, Goto, ApplyStep, slackVars
<1>2. op.c \in Credentials
  BY <1>1 DEF Op
<1>3. Stored' = op.c /\ credentials' = op.c /\ binding' = binding
  BY <1>2, CredentialsPut DEF Seed
<1>4. Steady
  BY <1>1, <1>3 DEF Steady
<1>5. op' \in Op
  BY <1>1 DEF Op, ApplyStep
<1>6. TypeOK'
  BY <1>1, <1>2, <1>3, <1>5 DEF InstallInv, TypeOK
<1>7. /\ op'.at = "update" /\ op'.kind = op.kind /\ op'.app = op.app /\ op'.c = op.c
      /\ op'.b = op.b /\ op'.dirty = op.dirty /\ op'.digest = op.digest
  BY <1>1 DEF Op
<1>8. ChangeInv'
  BY <1>1, <1>3, <1>7 DEF InstallInv, OpInv, ChangeInv, Bound
<1>9. KindInv' /\ PlanInv' /\ CreateInv' /\ CompleteInv'
  BY <1>1, <1>7 DEF KindInv, PlanInv, CreateInv, CompleteInv, ApplyStep, CompleteStep,
     Verified, Exchanged
<1>10. TokenInv'
  BY <1>3, <1>4, TokenKept
<1>11. Change
  BY <1>1, <1>2, <1>3 DEF Change, KeyDrawn, Credentials
<1> QED BY <1>11, <1>1, <1>4, <1>6, <1>8, <1>9, <1>10, WriteStep DEF OpInv

LEMMA SanitizeStep ==
  ASSUME InstallInv, Sanitize, UNCHANGED <<now, reader, cb>>
  PROVE  InstallInv' /\ Change
<1> USE InstallationAssumption
<1>1. /\ op \in Op /\ op.at = "sanitize" /\ op.kind \in {"update", "adopt"}
      /\ op.digest \in Manifest
      /\ op.c # None /\ op.c.key = Stored.key /\ Stored.key # None /\ op.c.legacy = FALSE
      /\ op.c.token = Stored.token
      /\ op' = [op EXCEPT !.at = "bind"]
      /\ UNCHANGED <<links, redirects, deployed, spent, refresh>>
  BY DEF InstallInv, TypeOK, OpInv, KindInv, ChangeInv, Sanitize, At, Goto, ApplyStep,
         slackVars
<1>2. op.c \in Credentials
  BY <1>1 DEF Op
<1>3. Stored' = op.c /\ credentials' = op.c /\ binding' = binding
  BY <1>2, CredentialsPut DEF Sanitize
<1>4. Steady
  BY <1>1, <1>3 DEF Steady
<1>5. op' \in Op
  BY <1>1 DEF Op, ApplyStep
<1>6. TypeOK'
  BY <1>1, <1>2, <1>3, <1>5 DEF InstallInv, TypeOK
<1>7. /\ op'.at = "bind" /\ op'.kind = op.kind /\ op'.app = op.app /\ op'.c = op.c
      /\ op'.b = op.b /\ op'.dirty = op.dirty /\ op'.digest = op.digest
  BY <1>1 DEF Op
<1>8. ChangeInv'
  BY <1>1, <1>3, <1>7 DEF InstallInv, OpInv, ChangeInv, Bound
<1>9. KindInv' /\ PlanInv' /\ CreateInv' /\ CompleteInv'
  BY <1>1, <1>7 DEF KindInv, PlanInv, CreateInv, CompleteInv, ApplyStep, CompleteStep,
     Verified, Exchanged
<1>10. TokenInv'
  BY <1>3, <1>4, TokenKept
<1>11. Change
  BY <1>1, <1>3 DEF Change, TokenStored
<1> QED BY <1>11, <1>1, <1>4, <1>6, <1>8, <1>9, <1>10, WriteStep DEF OpInv

LEMMA SaveTokenStep ==
  ASSUME InstallInv, SaveToken, UNCHANGED <<now, reader, cb>>
  PROVE  InstallInv' /\ Change
<1> USE InstallationAssumption
<1>1. /\ op \in Op /\ op.at = "save" /\ op.kind = "none"
      /\ op.code \in Code /\ Readable(op.b) /\ Bound(op.b.app)
      /\ \E r \in redirects : r.code = op.code
      /\ op.c # None /\ op.c.key = Stored.key /\ op.c.legacy = FALSE
      /\ op.c.token = op.code /\ Answered(op.code, op.c.client, op.b.app)
      /\ op' = [op EXCEPT !.at = "record"]
      /\ UNCHANGED <<links, redirects, deployed, spent, refresh>>
  BY DEF InstallInv, TypeOK, OpInv, KindInv, CompleteInv, SaveToken, At, Goto, CompleteStep,
         Verified, Exchanged, slackVars
<1>2. op.c \in Credentials
  BY <1>1 DEF Op
<1>3. Stored' = op.c /\ credentials' = op.c /\ binding' = binding
  BY <1>2, CredentialsPut DEF SaveToken
<1>4. Steady
  BY <1>1, <1>3 DEF Steady
<1>5. op' \in Op
  BY <1>1 DEF Op, CompleteStep
<1>6. TypeOK'
  BY <1>1, <1>2, <1>3, <1>5 DEF InstallInv, TypeOK
<1>7. /\ op'.at = "record" /\ op'.kind = "none" /\ op'.c = op.c
      /\ op'.b = op.b /\ op'.code = op.code
  BY <1>1 DEF Op
<1>8. CompleteInv'
  BY <1>1, <1>3, <1>7 DEF CompleteInv, Bound, Answered, CompleteStep
<1>9. KindInv' /\ PlanInv' /\ CreateInv' /\ ChangeInv'
  BY <1>7 DEF KindInv, PlanInv, CreateInv, ChangeInv, ApplyStep, CompleteStep
<1>10. TokenInv'
  BY <1>3, <1>4, TokenKept
<1>11. Change
  BY <1>1, <1>3 DEF Change, TokenStored, Bound
<1> QED BY <1>11, <1>1, <1>4, <1>6, <1>8, <1>9, <1>10, WriteStep DEF OpInv

LEMMA RecordStep ==
  ASSUME InstallInv, RecordInstalled, UNCHANGED <<now, reader, cb>>
  PROVE  InstallInv' /\ Change
<1> USE InstallationAssumption
<1>0. PICK bot \in {op.code, op.b.bot} :
        PutBinding([op.b EXCEPT !.state = "installed", !.bot = bot])
  BY DEF RecordInstalled
<1> DEFINE b == [op.b EXCEPT !.state = "installed", !.bot = bot]
<1>1. /\ op \in Op /\ op.at = "record" /\ op.code \in Code
      /\ Readable(op.b) /\ Bound(op.b.app) /\ Stored.token # None
      /\ UNCHANGED <<links, redirects, deployed, spent, refresh>>
      /\ op' = Idle /\ PutBinding(b)
  BY <1>0 DEF InstallInv, TypeOK, OpInv, CompleteInv, RecordInstalled, At, Finish, CompleteStep,
         slackVars
<1>2. op.b \in Binding
  BY <1>1 DEF Op, Readable
<1>3. b \in Binding /\ b.app = op.b.app
  BY <1>1, <1>2 DEF Binding
<1>4. binding' = b /\ credentials' = credentials /\ Stored' = Stored /\ Readable(b)
  BY <1>1, <1>3, BindingPut
<1>5. Steady
  BY <1>1, <1>3, <1>4 DEF Steady, Bound
<1>6. OpInv' /\ op' \in Op
  BY <1>1, IdleOp
<1>7. TypeOK'
  BY <1>1, <1>3, <1>4, <1>6 DEF InstallInv, TypeOK
<1>8. TokenInv'
  BY <1>1, <1>4, <1>5, TokenKept
<1>9. Change
  BY <1>1, <1>3, <1>4 DEF Change, AppNamed, Bound, Binding
<1> QED BY <1>9, <1>1, <1>5, <1>6, <1>7, <1>8, WriteStep

(* What update, adopt and create put into the binding. *)
LEMMA BindStep ==
  ASSUME InstallInv, Bind, UNCHANGED <<now, reader, cb>>
  PROVE  InstallInv' /\ Change
<1> USE InstallationAssumption
<1>1. /\ op \in Op /\ op.at = "bind" /\ op.kind \in {"create", "update", "adopt"}
      /\ op.digest \in Manifest /\ op' = Idle /\ PutBinding(Applied)
      /\ UNCHANGED <<redirects, deployed, spent, refresh>>
      /\ links' = IF op.kind = "create" THEN links \cup {op.link} ELSE links
  BY DEF InstallInv, TypeOK, OpInv, KindInv, Bind, At, Finish, ApplyStep, Op, slackVars
<1>2. /\ op.app \in App
      /\ Readable(binding) => op.app = binding.app
      /\ op.kind = "update" => op.b \in Binding
      /\ op.c # None
      /\ op.kind # "create" /\ op.c.token # None => Stored.token # None
  <2>1. CASE op.kind = "create"
    BY <1>1, <2>1 DEF InstallInv, OpInv, CreateInv, Readable
  <2>2. CASE op.kind = "update"
    BY <1>1, <2>2 DEF InstallInv, TypeOK, OpInv, ChangeInv, Bound, Readable, Op, Binding
  <2>3. CASE op.kind = "adopt"
    BY <1>1, <2>3 DEF InstallInv, OpInv, ChangeInv
  <2> QED BY <1>1, <2>1, <2>2, <2>3
<1>3. /\ Applied \in Binding /\ Applied.app = op.app
      /\ Loadable(Applied) => op.kind # "create" /\ op.c.token # None
  BY <1>1, <1>2 DEF Applied, Binding, Loadable
<1>4. /\ binding' = Applied /\ credentials' = credentials /\ Stored' = Stored
      /\ Readable(binding')
  BY <1>1, <1>3, BindingPut
<1>5. Steady
  BY <1>1, <1>2, <1>3, <1>4 DEF Steady
<1>6. OpInv' /\ op' \in Op
  BY <1>1, IdleOp
<1>7. TokenInv'
  BY <1>2, <1>3, <1>4, <1>5, TokenKept
<1>8. Change
  BY <1>2, <1>3, <1>4 DEF Change, AppNamed
<1>9. CASE op.kind # "create"
  <2>1. TypeOK'
    BY <1>1, <1>3, <1>4, <1>6, <1>9 DEF InstallInv, TypeOK
  <2> QED BY <1>1, <1>5, <1>6, <1>7, <1>8, <1>9, <2>1, WriteStep
<1>10. CASE op.kind = "create"
  <2>1. /\ binding = None /\ credentials = op.c /\ op.c.legacy = FALSE
        /\ op.link # None /\ op.link \in Link
        /\ op.link.state.app = op.app /\ op.link.state.key = op.c.key
        /\ op.link.state.iat <= now /\ op.link.state.iat < op.link.state.exp
    BY <1>1, <1>10 DEF InstallInv, OpInv, CreateInv, Op
  <2>2. links = {}
    BY <2>1 DEF InstallInv, LinkInv, Bound, Readable
  <2>3. links' = {op.link}
    BY <1>1, <1>10, <2>2
  <2>4. Stored' = op.c
    BY <1>2, <1>4, <2>1 DEF Stored
  <2>5. LinkInv'
    BY <1>1, <1>3, <1>4, <2>1, <2>2, <2>3, <2>4 DEF InstallInv, LinkInv, Bound
  <2>6. TypeOK'
    BY <1>1, <1>3, <1>4, <1>6, <2>1, <2>3 DEF InstallInv, TypeOK
  <2>7. CallbackInv'
    BY <1>5, CallbacksKept
  <2> QED BY <1>6, <1>7, <1>8, <2>5, <2>6, <2>7 DEF InstallInv
<1> QED BY <1>9, <1>10

LEMMA MintStep ==
  ASSUME InstallInv, MintLink(now), UNCHANGED <<now, reader, cb>>
  PROVE  InstallInv'
<1> USE InstallationAssumption
<1> DEFINE link == [client |-> credentials.client,
                    state |-> SignState(op.app, credentials.key, Ttl, now)]
<1>1. /\ op \in Op /\ op.at = "mint" /\ Bound(op.app) /\ now \in Nat
      /\ Stored.client # None /\ Stored.key # None /\ Stored.legacy = FALSE
      /\ links' = links \cup {link} /\ op' = Idle
      /\ UNCHANGED <<binding, credentials, deployed, redirects, spent, refresh>>
  BY DEF InstallInv, TypeOK, OpInv, CompleteInv, MintLink, At, Finish, parameterVars, slackVars
<1>2. credentials # None /\ Stored = credentials /\ Stored \in Credentials
  BY <1>1, StoredType DEF InstallInv, Stored, NoCredentials
<1>3. op.app \in App
  BY <1>1 DEF InstallInv, TypeOK, Bound, Readable, Binding
<1>4. /\ link \in Link
      /\ link.state.app = op.app /\ link.state.key = Stored.key
      /\ link.state.iat <= now /\ link.state.iat < link.state.exp
  <2>1. credentials.client \in App /\ credentials.key \in Key
    BY <1>1, <1>2 DEF Credentials
  <2>2. SignState(op.app, credentials.key, Ttl, now) \in State
    BY <1>1, <1>3, <2>1 DEF SignState, State
  <2>3. link \in Link
    BY <2>1, <2>2 DEF Link
  <2> QED BY <1>1, <1>2, <2>3 DEF SignState
<1> HIDE DEF link
<1>5. Stored' = Stored
  BY <1>1 DEF Stored
<1>6. Steady
  BY <1>1, <1>5 DEF Steady
<1>7. OpInv' /\ op' \in Op
  BY <1>1, IdleOp
<1>8. TypeOK'
  BY <1>1, <1>4, <1>7 DEF InstallInv, TypeOK
<1>9. LinkInv'
  BY <1>1, <1>4, <1>5 DEF InstallInv, LinkInv, Bound
<1>10. CallbackInv' /\ TokenInv'
  BY <1>1, <1>6, CallbacksKept, TokenKept
<1> QED BY <1>7, <1>8, <1>9, <1>10 DEF InstallInv

LEMMA CommandStep ==
  ASSUME InstallInv, Command
  PROVE  InstallInv' /\ Change
<1>0. UNCHANGED <<now, reader, cb>> /\ Reconcile(now)
  BY DEF Command
<1>1. CASE \E m \in Manifest, adopt \in App \cup {None} : Apply(m, adopt)
  BY <1>0, <1>1, ApplyQuiet DEF Change, Apply, Local
<1>2. CASE Plan             BY <1>0, <1>2, PlanQuiet DEF Change, Plan, Local
<1>3. CASE Rotate           BY <1>0, <1>3, RotateQuiet DEF Change, Rotate
<1>4. CASE StoreRotated     BY <1>0, <1>4, RotateQuiet DEF Change, StoreRotated
<1>5. CASE CreateManifest   BY <1>0, <1>5, CreateQuiet DEF Change, CreateManifest
<1>6. CASE KeepCredentials(now) BY <1>0, <1>6, KeepStep
<1>7. CASE Reread           BY <1>0, <1>7, RereadQuiet DEF Change, Reread, Local
<1>8. CASE ReadCredentials  BY <1>0, <1>8, ReadCredentialsQuiet DEF Change, ReadCredentials, Local
<1>9. CASE Seed             BY <1>0, <1>9, SeedStep
<1>10. CASE UpdateManifest  BY <1>0, <1>10, UpdateQuiet DEF Change, UpdateManifest
<1>11. CASE Sanitize        BY <1>0, <1>11, SanitizeStep
<1>12. CASE Bind            BY <1>0, <1>12, BindStep
<1>13. CASE \E m \in Manifest : InstallUrl(m)
  BY <1>0, <1>13, InstallUrlQuiet DEF Change, InstallUrl, Local
<1>14. CASE MintLink(now)   BY <1>0, <1>14, MintStep DEF Change, MintLink
<1>15. CASE \E code \in Code : CompleteOauth(code)
  BY <1>0, <1>15, CompleteOauthQuiet DEF Change, CompleteOauth, Local
<1>16. CASE GetCredentials  BY <1>0, <1>16, GetCredentialsQuiet DEF Change, GetCredentials, Local
<1>17. CASE Exchange        BY <1>0, <1>17, ExchangeQuiet DEF Change, Exchange
<1>18. CASE SaveToken       BY <1>0, <1>18, SaveTokenStep
<1>19. CASE RecordInstalled BY <1>0, <1>19, RecordStep
<1>20. CASE Fail            BY <1>0, <1>20, FinishStep DEF Change, Fail, Local
<1>21. CASE Bootstrap       BY <1>0, <1>21, BootstrapQuiet DEF Change, Bootstrap
<1> QED BY <1>0, <1>1, <1>2, <1>3, <1>4, <1>5, <1>6, <1>7, <1>8, <1>9, <1>10, <1>11, <1>12,
           <1>13, <1>14, <1>15, <1>16, <1>17, <1>18, <1>19, <1>20, <1>21 DEF Reconcile

-----------------------------------------------------------------------------
(* The steps of a callback *)

(* What a callback has to show: that it writes nothing, or has verified a  *)
(* state, and what its own locals are worth.                               *)
LEMMA OneCallback ==
  ASSUME InstallInv, NEW i \in Callback, NEW r \in CallbackRecord,
         cb' = [cb EXCEPT ![i] = r],
         UNCHANGED <<now, reader, op, links, deployed, redirects, refresh>>,
         binding' \in Binding \cup {None, Unreadable},
         credentials' \in Credentials \cup {None}, spent' \subseteq Code,
         Steady, CallbackOK(r)', TokenInv',
         UNCHANGED parameterVars \/ Verified(cb[i].at)
  PROVE  InstallInv'
<1>1. TypeOK'
  BY DEF InstallInv, TypeOK
<1>2. \A j \in Callback : CallbackOK(cb[j])'
  <2> TAKE j \in Callback
  <2>1. CASE j = i
    BY <2>1 DEF InstallInv, TypeOK
  <2>2. CASE j # i
    <3>1. cb'[j] = cb[j] /\ CallbackOK(cb[j])
      BY <2>2 DEF InstallInv, TypeOK, CallbackInv
    <3> QED BY <3>1 DEF CallbackOK, Steady, Bound, Answered, Verified, Exchanged
  <2> QED BY <2>1, <2>2
<1>3. OpInv'
  BY ActiveCallback, CommandKept
<1>4. LinkInv'
  BY LinksKept
<1> QED BY <1>1, <1>2, <1>3, <1>4 DEF InstallInv, CallbackInv

LEMMA QuietCallback ==
  ASSUME InstallInv, NEW i \in Callback, NEW r \in CallbackRecord,
         cb' = [cb EXCEPT ![i] = r],
         UNCHANGED <<now, reader, op, links, deployed, redirects, refresh, parameterVars>>,
         spent' \subseteq Code, CallbackOK(r)'
  PROVE  InstallInv'
<1>1. Steady
  BY SteadyParameters
<1>2. TokenInv'
  BY <1>1, TokenKept DEF parameterVars
<1> QED BY <1>1, <1>2, OneCallback DEF InstallInv, TypeOK, parameterVars

LEMMA EndedOK ==
  ASSUME NEW at \in {"success", "refused"}
  PROVE  Ended(at) \in CallbackRecord /\ CallbackOK(Ended(at))'
BY DEF Ended, CallbackRecord, CallbackStep, CallbackOK, Verified, Exchanged

LEMMA CallbackHandleStep ==
  ASSUME InstallInv, NEW i \in Callback, Handle(i)
  PROVE  InstallInv' /\ Change
<1> USE InstallationAssumption
<1>0. /\ UNCHANGED <<now, reader, op, links>> /\ cb[i] \in CallbackRecord
      /\ CallbackOK(cb[i]) /\ HandleCallback(i, now)
      /\ spent \subseteq Code
  BY DEF InstallInv, TypeOK, CallbackInv, Handle
<1>1. CASE Request(i)
  <2>1. PICK q \in redirects :
          cb' = [cb EXCEPT ![i] = [cb[i] EXCEPT !.at = "binding", !.code = q.code,
                                                !.link = q.link]]
    BY <1>1 DEF Request, InstallInv, TypeOK
  <2>0. PICK r : r = [cb[i] EXCEPT !.at = "binding", !.code = q.code, !.link = q.link]
    OBVIOUS
  <2>2. UNCHANGED <<parameterVars, slackVars>>
    BY <2>0, <1>1 DEF Request
  <2>3. q \in Redirect /\ q.link \in links
    BY <2>0 DEF InstallInv, TypeOK, LinkInv
  <2>4. r \in CallbackRecord
    BY <2>0, <1>0, <2>3 DEF CallbackRecord, CallbackStep, Redirect
  <2>5. CallbackOK(r)'
    BY <2>0, <1>0, <2>2, <2>3 DEF CallbackOK, Verified, Exchanged, slackVars, CallbackRecord
  <2> QED BY <2>0, <1>0, <2>1, <2>2, <2>4, <2>5, QuietCallback DEF slackVars, Change
<1>2. CASE ReadBinding(i)
  <2>0. PICK r : r = [cb[i] EXCEPT !.at = "credentials", !.b = binding]
    OBVIOUS
  <2>1. /\ cb' = [cb EXCEPT ![i] = r] /\ UNCHANGED <<parameterVars, slackVars>>
        /\ cb[i].at = "binding" /\ Readable(binding)
    BY <2>0, <1>2 DEF ReadBinding, InstallInv, TypeOK
  <2>2. r \in CallbackRecord
    BY <2>0, <1>0, <2>1 DEF InstallInv, TypeOK, CallbackRecord, CallbackStep, Readable
  <2>3. CallbackOK(r)'
    BY <2>0, <1>0, <2>1 DEF CallbackOK, Verified, Exchanged, slackVars, parameterVars,
       CallbackRecord, Bound, Readable
  <2> QED BY <2>0, <1>0, <2>1, <2>2, <2>3, QuietCallback DEF slackVars, Change
<1>3. CASE Verify(i, now)
  <2> DEFINE c == [credentials EXCEPT !.legacy = FALSE]
  <2>0. PICK r : r = [cb[i] EXCEPT !.at = "exchange", !.c = c]
    OBVIOUS
  <2>1. /\ cb' = [cb EXCEPT ![i] = r] /\ UNCHANGED <<parameterVars, slackVars>>
        /\ cb[i].at = "credentials" /\ credentials # None /\ credentials.key # None
    BY <2>0, <1>3 DEF Verify, InstallInv, TypeOK
  <2>2. credentials \in Credentials /\ Stored = credentials
    BY <2>0, <2>1 DEF InstallInv, TypeOK, Stored
  <2>3. c \in Credentials /\ c # None /\ c.key = credentials.key /\ c.legacy = FALSE
    <3>1. c \in Credentials /\ c.key = credentials.key /\ c.legacy = FALSE
      BY <2>0, <2>2 DEF Credentials
    <3> QED BY <2>0, <3>1
  <2>4. r \in CallbackRecord
    BY <2>0, <1>0, <2>3 DEF CallbackRecord, CallbackStep
  <2>5. /\ r.at = "exchange" /\ r.link = cb[i].link /\ r.code = cb[i].code
        /\ r.b = cb[i].b /\ r.c = c
    BY <2>0, <1>0 DEF CallbackRecord
  <2> HIDE DEF c
  <2>7. Stored' = Stored /\ UNCHANGED <<binding, links, redirects>>
    BY <1>0, <2>1, SameStored DEF parameterVars, slackVars
  <2>8. /\ r.link \in links /\ (\E q \in redirects : q.code = r.code)
        /\ r.b # None /\ Bound(r.b.app)
        /\ r.c # None /\ r.c.key = Stored.key /\ Stored.key # None /\ r.c.legacy = FALSE
    BY <1>0, <2>1, <2>2, <2>3, <2>5 DEF CallbackOK
  <2>6. CallbackOK(r)'
    BY <2>5, <2>7, <2>8 DEF CallbackOK, Verified, Exchanged, Bound
  <2> QED BY <2>0, <1>0, <2>1, <2>4, <2>6, QuietCallback DEF slackVars, Change
<1>4. CASE ExchangeAndCheck(i)
  <2>1. /\ cb[i].at = "exchange" /\ ExchangeCode(cb[i].code, cb[i].c.client)
        /\ UNCHANGED <<parameterVars, deployed, redirects, refresh>>
    BY <1>4 DEF ExchangeAndCheck
  <2>2. PICK q \in redirects : q.code = cb[i].code
    BY <1>0, <2>1 DEF CallbackOK, Verified
  <2>3. /\ q.code \in Code /\ q.code # None
        /\ q.link.client = CodeApp(q.code) /\ q.named = Named(q.code)
    BY CodeAppOf DEF InstallInv, TypeOK, Redirect
  <2>4. spent' \subseteq Code
    BY <1>0, <2>1, <2>2, <2>3 DEF ExchangeCode
  <2>5. CASE cb' = [cb EXCEPT ![i] = Ended("refused")]
    BY <1>0, <2>1, <2>4, <2>5, EndedOK, QuietCallback DEF Change
  <2>6. CASE /\ Named(cb[i].code) => cb[i].c.client = cb[i].b.app
             /\ cb' = [cb EXCEPT ![i].at = "save", ![i].c.token = cb[i].code]
    <3> DEFINE c == [cb[i].c EXCEPT !.token = cb[i].code]
    <3>0. PICK r : r = [cb[i] EXCEPT !.at = "save", !.c = c]
      OBVIOUS
    <3>1. cb[i].c \in Credentials
      BY <3>0, <1>0, <2>1 DEF CallbackOK, Verified, CallbackRecord
    <3>2. /\ c \in Credentials /\ c.key = cb[i].c.key /\ c.legacy = cb[i].c.legacy
          /\ c.token = cb[i].code /\ c.client = cb[i].c.client
      BY <3>0, <2>2, <2>3, <3>1 DEF Credentials
    <3>3. c # None
      BY <3>0, <3>2
    <3>4. cb' = [cb EXCEPT ![i] = r]
      BY <3>0, <1>0, <2>6, <3>1 DEF InstallInv, TypeOK, CallbackRecord
    <3>5. r \in CallbackRecord
      BY <3>0, <1>0, <3>2 DEF CallbackRecord, CallbackStep
    <3>6. /\ r.at = "save" /\ r.link = cb[i].link /\ r.code = cb[i].code
          /\ r.b = cb[i].b /\ r.c = c
      BY <3>0, <1>0 DEF CallbackRecord
    <3>7. Answered(cb[i].code, cb[i].c.client, cb[i].b.app)
      BY <2>1, <2>2, <2>3, <2>6 DEF ExchangeCode, Exchangeable, Answered
    <3> HIDE DEF c
    <3>9. Stored' = Stored /\ UNCHANGED <<binding, links, redirects>>
      BY <1>0, <2>1, SameStored DEF parameterVars
    <3>10. /\ r.link \in links /\ q.code = r.code
           /\ Answered(r.code, r.c.client, r.b.app)
           /\ r.b # None /\ Bound(r.b.app) /\ r.code # None /\ r.c.token = r.code
           /\ r.c # None /\ r.c.key = Stored.key /\ Stored.key # None
           /\ r.c.legacy = FALSE
      BY <1>0, <2>1, <2>2, <2>3, <3>2, <3>3, <3>6, <3>7 DEF CallbackOK, Verified
    <3>8. CallbackOK(r)'
      BY <3>6, <3>9, <3>10 DEF CallbackOK, Verified, Exchanged, Bound, Answered
    <3> QED BY <3>0, <1>0, <2>1, <2>4, <3>4, <3>5, <3>8, QuietCallback DEF Change
  <2> QED BY <1>4, <2>5, <2>6 DEF ExchangeAndCheck, Answer
<1>5. CASE SaveCredentials(i)
  <2>0. PICK r : r = [cb[i] EXCEPT !.at = "record"]
    OBVIOUS
  <2>1. /\ cb[i].at = "save" /\ PutCredentials(cb[i].c) /\ cb' = [cb EXCEPT ![i] = r]
        /\ UNCHANGED <<deployed, redirects, spent, refresh>>
    BY <2>0, <1>5 DEF SaveCredentials, slackVars, InstallInv, TypeOK
  <2>2. /\ cb[i].c \in Credentials
        /\ cb[i].c.key = Stored.key /\ Stored.key # None /\ cb[i].c.legacy = FALSE
        /\ cb[i].code # None /\ cb[i].c.token = cb[i].code
    BY <2>0, <1>0, <2>1 DEF CallbackOK, Verified, Exchanged, CallbackRecord
  <2>3. Stored' = cb[i].c /\ credentials' = cb[i].c /\ binding' = binding
    BY <2>0, <2>1, <2>2, CredentialsPut
  <2>4. Steady
    BY <2>0, <1>0, <2>1, <2>2, <2>3 DEF Steady
  <2>5. /\ r \in CallbackRecord
        /\ r.at = "record" /\ r.link = cb[i].link /\ r.code = cb[i].code
        /\ r.b = cb[i].b /\ r.c = cb[i].c
    BY <2>0, <1>0 DEF CallbackRecord, CallbackStep
  <2>6. CallbackOK(r)'
    BY <2>0, <1>0, <2>1, <2>2, <2>3, <2>5 DEF CallbackOK, Verified, Exchanged, Bound, Answered
  <2>7. TokenInv'
    BY <2>0, <1>0, <2>3, <2>4, TokenKept
  <2>8. Verified(cb[i].at)
    BY <2>1 DEF Verified
  <2>9. /\ cb[i].code \in Code /\ Readable(binding)
        /\ Answered(cb[i].code, cb[i].c.client, binding.app)
    BY <1>0, <2>1, <2>2 DEF CallbackOK, Verified, Exchanged, Bound, CallbackRecord
  <2>10. Change
    BY <2>2, <2>3, <2>9 DEF Change, TokenStored
  <2> QED BY <2>0, <1>0, <2>1, <2>2, <2>3, <2>4, <2>5, <2>6, <2>7, <2>8, <2>10, OneCallback
          DEF InstallInv, TypeOK
<1>6. CASE SaveBinding(i)
  <2>0. PICK bot \in {cb[i].code, cb[i].b.bot} :
          PutBinding([cb[i].b EXCEPT !.state = "installed", !.bot = bot])
    BY <1>6 DEF SaveBinding
  <2> DEFINE b == [cb[i].b EXCEPT !.state = "installed", !.bot = bot]
  <2>1. /\ cb[i].at = "record" /\ PutBinding(b) /\ cb' = [cb EXCEPT ![i] = Ended("success")]
        /\ UNCHANGED <<deployed, redirects, spent, refresh>>
    BY <1>6, <2>0 DEF SaveBinding, slackVars, Answer
  <2>2. /\ cb[i].b \in Binding /\ Bound(cb[i].b.app) /\ cb[i].code \in Code
        /\ Stored.token # None
    BY <1>0, <2>1 DEF CallbackOK, Verified, Exchanged, CallbackRecord
  <2>3. b \in Binding /\ b.app = cb[i].b.app
    BY <2>2 DEF Binding
  <2>4. binding' = b /\ credentials' = credentials /\ Stored' = Stored /\ Readable(b)
    BY <2>1, <2>3, BindingPut
  <2>5. Steady
    BY <1>0, <2>1, <2>2, <2>3, <2>4 DEF Steady, Bound
  <2>6. TokenInv'
    BY <1>0, <2>2, <2>4, <2>5, TokenKept
  <2>7. Verified(cb[i].at)
    BY <2>1 DEF Verified
  <2>8. Change
    BY <1>0, <2>2, <2>3, <2>4 DEF Change, AppNamed, Bound, Binding
  <2> QED BY <1>0, <2>1, <2>3, <2>4, <2>5, <2>6, <2>7, <2>8, EndedOK, OneCallback
          DEF InstallInv, TypeOK
<1>7. CASE Refuse(i)
  BY <1>0, <1>7, EndedOK, QuietCallback DEF Refuse, Answer, slackVars, Change
<1> QED BY <1>0, <1>1, <1>2, <1>3, <1>4, <1>5, <1>6, <1>7 DEF HandleCallback

-----------------------------------------------------------------------------
(* The other steps, and the invariant *)

LEMMA ApproveStep ==
  ASSUME InstallInv, Approve
  PROVE  InstallInv'
<1>1. PICK link \in links, code \in Code : ApproveLink(link, code)
  BY DEF Approve
<1>2. UNCHANGED <<now, reader, op, links, cb, parameterVars, deployed, spent, refresh>>
  BY DEF Approve
<1>3. PICK named \in BOOLEAN :
        /\ redirects' = redirects \cup {[code |-> code, link |-> link, named |-> named]}
        /\ \A r \in redirects : r.code # code
  BY <1>1 DEF ApproveLink
<1>4. Steady
  BY <1>2, <1>3, SteadyParameters
<1>5. TypeOK'
  BY <1>2, <1>3 DEF InstallInv, TypeOK, Redirect, parameterVars
<1>6. LinkInv'
  BY <1>2, <1>3, SameStored DEF InstallInv, LinkInv, Bound, parameterVars
<1>7. CallbackInv' /\ TokenInv' /\ OpInv'
  BY <1>2, <1>4, CallbacksKept, TokenKept, CommandKept DEF parameterVars
<1> QED BY <1>5, <1>6, <1>7 DEF InstallInv

LEMMA ReaderStep ==
  ASSUME InstallInv, LoadBinding \/ LoadCredentials
  PROVE  InstallInv'
<1>1. UNCHANGED <<now, op, links, cb, parameterVars, slackVars>>
  BY DEF LoadBinding, LoadCredentials
<1>2. reader' # None => Loadable(binding)
  BY DEF LoadBinding, LoadCredentials
<1>3. reader' \in Binding \cup {None}
  BY DEF LoadBinding, LoadCredentials, Loadable, Readable, InstallInv, TypeOK
<1>4. Steady
  BY <1>1, SteadyParameters DEF slackVars
<1>5. TypeOK'
  BY <1>1, <1>3 DEF InstallInv, TypeOK, parameterVars, slackVars
<1>6. TokenInv'
  BY <1>1, <1>2, SameStored DEF InstallInv, TokenInv, parameterVars
<1>7. CallbackInv' /\ LinkInv' /\ OpInv'
  BY <1>1, <1>4, CallbacksKept, LinksKept, CommandKept DEF slackVars
<1> QED BY <1>5, <1>6, <1>7 DEF InstallInv

LEMMA TickStep ==
  ASSUME InstallInv, Tick
  PROVE  InstallInv'
<1>1. UNCHANGED <<reader, op, links, cb, parameterVars, slackVars>> /\ now' = now + 1
  BY DEF Tick
<1>2. Steady
  BY <1>1, SteadyParameters DEF slackVars
<1>3. TypeOK'
  BY <1>1 DEF InstallInv, TypeOK, parameterVars, slackVars
<1>4. CallbackInv' /\ LinkInv' /\ OpInv' /\ TokenInv'
  BY <1>1, <1>2, CallbacksKept, LinksKept, CommandKept, TokenKept DEF slackVars, parameterVars
<1> QED BY <1>3, <1>4 DEF InstallInv

LEMMA InstallStutter ==
  ASSUME InstallInv, UNCHANGED vars
  PROVE  InstallInv'
<1>1. Steady
  BY SteadyParameters DEF vars, slackVars
<1>2. TypeOK'
  BY DEF vars, InstallInv, TypeOK, parameterVars, slackVars
<1>3. CallbackInv' /\ LinkInv' /\ OpInv' /\ TokenInv'
  BY <1>1, CallbacksKept, LinksKept, CommandKept, TokenKept DEF vars, slackVars, parameterVars
<1> QED BY <1>2, <1>3 DEF InstallInv

LEMMA NextInstall ==
  ASSUME InstallInv, [Next]_vars
  PROVE  InstallInv' /\ Change
<1>1. CASE Command
  BY <1>1, CommandStep
<1>2. CASE Approve
  BY <1>2, ApproveStep DEF Approve, Change
<1>3. CASE \E i \in Callback : Handle(i)
  BY <1>3, CallbackHandleStep
<1>4. CASE LoadBinding \/ LoadCredentials
  BY <1>4, ReaderStep DEF LoadBinding, LoadCredentials, Change
<1>5. CASE Tick
  BY <1>5, TickStep DEF Tick, Change
<1>6. CASE UNCHANGED vars
  BY <1>6, InstallStutter DEF vars, Change
<1> QED BY <1>1, <1>2, <1>3, <1>4, <1>5, <1>6 DEF Next

LEMMA InstallInvariant == Spec => []InstallInv
BY InitInstall, NextInstall, PTL DEF Spec

-----------------------------------------------------------------------------
(* The theorems *)

(* Every variable of the installation has its type. *)
THEOREM InstallationTypeCorrect == Spec => []TypeOK
<1>1. InstallInv => TypeOK
  BY DEF InstallInv
<1> QED BY <1>1, InstallInvariant, PTL

(* load_agent never accepts a binding and then finds no bot token, in      *)
(* whatever order commands, callbacks and their failures come.             *)
THEOREM ReaderAlwaysFindsToken == Spec => []ReaderFindsToken
<1>1. InstallInv => ReaderFindsToken
  BY DEF InstallInv, TokenInv, ReaderFindsToken
<1> QED BY <1>1, InstallInvariant, PTL

(* No command and no callback breaks a link that was given out, and none   *)
(* is good for longer than it was signed for.                              *)
THEOREM LinksAlwaysVerify == Spec => []LinksVerifyUntilExpiry
<1>1. InstallInv => LinksVerifyUntilExpiry
  BY DEF InstallInv, TypeOK, LinkInv, LinksVerifyUntilExpiry, Bound, VerifyState, Link, State
<1> QED BY <1>1, InstallInvariant, PTL

(* A token that is stored was given for the client it is stored with, and  *)
(* for the App of the binding, if Slack's answer named its App.            *)
THEOREM NamedTokensAlwaysBound == Spec => NamedTokensAreBound
<1>1. ASSUME InstallInv, [Next]_vars
      PROVE  [\A code \in Code :
                Stored'.token = code /\ Stored.token # code
                => /\ Readable(binding)
                   /\ CodeApp(code) = Stored'.client
                   /\ Named(code) => CodeApp(code) = binding.app]_vars
  <2> SUFFICES ASSUME NEW code \in Code, Stored'.token = code, Stored.token # code
               PROVE  /\ Readable(binding)
                      /\ CodeApp(code) = Stored'.client
                      /\ Named(code) => CodeApp(code) = binding.app
    OBVIOUS
  <2>1. Change
    BY <1>1, NextInstall
  <2>2. Readable(binding) /\ Answered(code, Stored'.client, binding.app)
    BY <2>1, SameStored DEF Change, AppNamed, KeyDrawn, TokenStored
  <2>3. PICK r \in redirects :
          /\ r.code = code /\ r.link.client = Stored'.client
          /\ r.named => Stored'.client = binding.app
    BY <2>2 DEF Answered
  <2> QED BY <1>1, <2>2, <2>3, CodeAppOf
<1> QED BY <1>1, InstallInvariant, PTL DEF Spec, NamedTokensAreBound

(* The two parameters keep the promises of AgentIdentity: one App, one     *)
(* key, and a token that is only ever replaced by another.                 *)
THEOREM InstallationImplementsIdentity == Spec => ImplementsIdentity
<1> USE DEF ImplementsIdentity
<1>1. ASSUME InstallInv
      PROVE  /\ (IF Readable(binding) THEN binding.app ELSE None) \in App \cup {None}
             /\ Stored.key \in Key \cup {None} /\ Stored.token \in Code \cup {None}
  <2>1. Stored \in Credentials
    BY <1>1, StoredType DEF InstallInv
  <2> QED BY <1>1, <2>1 DEF InstallInv, TypeOK, Readable, Binding, Credentials
<1>2. Init => Identity!IdentityInit
  BY <1>1, InitInstall DEF Identity!IdentityInit
<1>3. ASSUME InstallInv, [Next]_vars
      PROVE  [Identity!IdentityNext]_(Identity!identityVars)
  <2>1. Change
    BY <1>3, NextInstall
  <2>2. CASE UNCHANGED parameterVars
    BY <2>2, SameStored DEF parameterVars, Identity!identityVars
  <2>3. CASE AppNamed
    <3>1. CASE Readable(binding)
      BY <2>3, <3>1 DEF AppNamed, Identity!identityVars
    <3>2. CASE ~Readable(binding)
      BY <2>3, <3>2 DEF AppNamed, Identity!IdentityNext, Identity!NameApp
    <3> QED BY <3>1, <3>2
  <2>4. CASE KeyDrawn
    BY <2>4 DEF KeyDrawn, Identity!IdentityNext, Identity!DrawKey
  <2>5. CASE TokenStored
    <3>1. CASE Stored'.token = Stored.token
      BY <2>5, <3>1 DEF TokenStored, Identity!identityVars
    <3>2. CASE Readable(binding) /\ Stored'.token \in Code
      <4>1. binding.app # None
        BY <1>3, <3>2, InstallationAssumption DEF InstallInv, TypeOK, Readable, Binding
      <4> QED BY <2>5, <3>2, <4>1 DEF TokenStored, Identity!IdentityNext, Identity!Install
    <3> QED BY <2>5, <3>1, <3>2 DEF TokenStored
  <2> QED BY <2>1, <2>2, <2>3, <2>4, <2>5 DEF Change
<1> QED BY <1>2, <1>3, InstallInvariant, PTL DEF Spec, Identity!IdentitySpec
=============================================================================
