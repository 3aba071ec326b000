------------------------- MODULE MCSlackInstallation -------------------------
EXTENDS SlackInstallation, TLC

Symmetry ==
  Permutations(App) \cup Permutations(Manifest) \cup Permutations(Key)
    \cup Permutations(Code \ {Past}) \cup Permutations(Callback)
=============================================================================
