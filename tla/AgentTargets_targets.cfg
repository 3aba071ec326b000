\* Two agents, a directory with a bad name and a shared file; up to 5 commits,
\* resolved in any groups.  When the commits are used up, the last diff may be
\* one that is refused for good.
SPECIFICATION Spec
CONSTANTS
  alpha = alpha
  beta = beta
  bad = bad
  composition = composition
  c1 = c1
  c2 = c2
  Name = {alpha, beta, bad}
  BadName = {bad}
  File = {"agent.yaml", "notes.md"}
  Manifest = "agent.yaml"
  Shared <- SharedPaths
  Content = {c1, c2}
  Output = {"retirement.json", "retirement-2.json"}
  MaxEdits = 5
  None = None
SYMMETRY Symmetry
INVARIANT TypeOK
INVARIANT PlannedAsResolved
INVARIANT RemovalsDescribed
CHECK_DEADLOCK FALSE
