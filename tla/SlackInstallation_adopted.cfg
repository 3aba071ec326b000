\* An agent with a bot token whose binding was lost; an operator adopts its App.
CONSTANTS
  App = {a1}
  Manifest = {m1}
  Key = {k1, k2}
  Code = {past}
  Past = past
  Callback = {i1}
  None = None
  Unreadable = Unreadable
  Ttl = 1
  MaxTime = 0

SPECIFICATION Spec

INVARIANT InstalledAgentHearsMentions

CHECK_DEADLOCK FALSE
