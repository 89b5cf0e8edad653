SPECIFICATION Spec
CONSTANTS
  s1 = s1
  s2 = s2
  u1 = u1
  u2 = u2
  Servers = {s1, s2}
  Buckets = {b1, b2}
  Active = b1
  Keys = {k1}
  Uploads = {u1, u2}
  Parts = {1, 2}
  Failures = 2
SYMMETRY Symmetry
\* A server that failed to start is started again as long as Failures lasts.
CHECK_DEADLOCK FALSE
INVARIANTS
  StartTogether
  ActiveIsListed
  ObjectsAreWhole
