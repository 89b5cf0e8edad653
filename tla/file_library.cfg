SPECIFICATION Spec
CONSTANTS
  f1 = f1
  f2 = f2
  f3 = f3
  Files = {f1, f2, f3}
  Old <- OldFiles
  Chunks <- ChunksOf
  Clients = {c1}
  Names = {n1}
  LIMIT = 1
  RETENTION = 2
  TRIES = 2
  MaxTime = 6
\* The clock is bounded.
CHECK_DEADLOCK FALSE
INVARIANTS
  DownloadIsTheFile
  
  WalkIsBounded
PROPERTY GoneIsGone
