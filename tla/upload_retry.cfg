SPECIFICATION FairSpec
CONSTANTS
  Users = {w1, w2}
  UploadIds = {u1}
  Handlers = {h1, h2, h3}
  MaxChunks = 2
  MaxSends = 2
  Overlap = FALSE
  Failures = TRUE
  Day = 1
  MaxTime = 2
\* Clients may stop sending: a server without requests is no deadlock.
CHECK_DEADLOCK FALSE
INVARIANTS
  TypeOK
  FilesAreWhole
  NotMoreCompleteThanItIs
  OwnerOnly
PROPERTIES
  KeepsPromise
  RequestsAreAnswered
