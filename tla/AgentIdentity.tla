---------------------------- MODULE AgentIdentity ----------------------------
(***************************************************************************)
(* What an agent's two parameters promise together: the App that the       *)
(* binding names and the key that install links are signed with are chosen *)
(* once, and a bot token, once there is one, is only ever replaced by      *)
(* another.                                                                *)
(***************************************************************************)
CONSTANTS App, Key, Token, None

VARIABLES app, key, token

identityVars == <<app, key, token>>

IdentityInit ==
  /\ app \in App \cup {None}
  /\ key \in Key \cup {None}
  /\ token \in Token \cup {None}

NameApp ==
  /\ app = None
  /\ app' \in App
  /\ UNCHANGED <<key, token>>

DrawKey ==
  /\ key = None
  /\ key' \in Key
  /\ UNCHANGED <<app, token>>

(* Only an App that was named, by a link that was signed or by an operator *)
(* with its code, is installed.                                            *)
Install ==
  /\ app # None
  /\ token' \in Token
  /\ UNCHANGED <<app, key>>

IdentityNext == NameApp \/ DrawKey \/ Install

IdentitySpec == IdentityInit /\ [][IdentityNext]_identityVars
=============================================================================
