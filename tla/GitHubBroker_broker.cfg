\* Pages of two files, with room for one of the longest ones, as ten files
\* of 32768 bytes do not fit into 262144; the branch moves twice.
CONSTANTS
  Path = {1, 2, 3, 4}
  Blob = {b1, b2}
  Size <- Sizes
  PageSize = 2
  FileLimit = 2
  PageLimit = 2
  MaxMoves = 2
  None = None

SPECIFICATION FairSpec

INVARIANT TypeOK
INVARIANT SnapshotIsWhole
PROPERTY PullEnds

CHECK_DEADLOCK FALSE
