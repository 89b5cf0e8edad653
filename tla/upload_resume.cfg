SPECIFICATION Spec
CONSTANTS
  Users = {w1}
  UploadIds = {u1}
  Handlers = {h1}
  MaxChunks = 1
  MaxSends = 2
  Overlap = FALSE
  Failures = TRUE
  Day = 1
  MaxTime = 0
SYMMETRY Symmetry
\* Clients may stop sending: a server without requests is no deadlock.
CHECK_DEADLOCK FALSE
INVARIANTS
  AckedIsCounted
