----------------------------- MODULE OAuthState -----------------------------
(***************************************************************************)
(* slack_oauth_state.py: the signed state of an install link.              *)
(*                                                                         *)
(* A state is its claims and the key it was signed with: an HMAC signature *)
(* verifies under that key and under no other.  There is one agent, one    *)
(* workspace and one redirect URI, so of the claims the App, the issue and *)
(* the expiry time are left.                                               *)
(***************************************************************************)
EXTENDS Integers

CONSTANTS
  App,   \* Slack App IDs
  Key    \* state_signing_key values

State == [app: App, key: Key, iat: Int, exp: Int]

SignState(app, key, ttl, clock) ==
  [app |-> app, key |-> key, iat |-> clock, exp |-> clock + ttl]

VerifyState(state, key, app, clock) ==
  /\ state.key = key
  /\ state.exp > state.iat
  /\ clock < state.exp
  /\ clock >= state.iat
  /\ state.app = app
=============================================================================
