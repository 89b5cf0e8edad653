SPECIFICATION FairSpec
CONSTANTS
  Users = {w1}
  UploadIds = {u1, u2}
  Handlers = {h1, h2}
  MaxChunks = 1
  MaxSends = 2
  Overlap = TRUE
  Failures = TRUE
  Day = 0
  MaxTime = 1
\* Clients may stop sending: a server without requests is no deadlock.
CHECK_DEADLOCK FALSE
INVARIANTS
  AckedIsStored
PROPERTIES
  YoungChunksStay
  OldUploadsGo
