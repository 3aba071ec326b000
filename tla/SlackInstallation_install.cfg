\* Two commands' worth of Apps, manifests and keys, two callbacks and one code that
\* was not used yet, within a clock of two instants; a new agent, or an old one.
CONSTANTS
  App = {a1, a2}
  Manifest = {m1, m2}
  Key = {k1, k2}
  Code = {past, c1}
  Past = past
  Callback = {i1, i2}
  None = None
  Unreadable = Unreadable
  Ttl = 1
  MaxTime = 1

SYMMETRY Symmetry

SPECIFICATION Spec

INVARIANT TypeOK
INVARIANT ReaderFindsToken
INVARIANT LinksVerifyUntilExpiry
PROPERTY NamedTokensAreBound
PROPERTY ImplementsIdentity

CHECK_DEADLOCK FALSE
