SPECIFICATION Spec
CONSTANTS
  Users = {w1}
  UploadIds = {u1}
  Handlers = {h1, h2}
  MaxChunks = 2
  MaxSends = 2
  Overlap = TRUE
  Failures = FALSE
  Day = 1
  MaxTime = 0
SYMMETRY Symmetry
\* Clients may stop sending: a server without requests is no deadlock.
CHECK_DEADLOCK FALSE
INVARIANTS
  FilesAreWhole
