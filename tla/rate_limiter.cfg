SPECIFICATION Spec
CONSTANTS
  Calls = {c1, c2}
  Tokens = {k1}
  Addresses = {p1}
  Nothing = Nothing
  MAX_REQUESTS = 2
  WINDOW = 2
  MAX_BUCKETS = 2
  MaxTime = 3
  MaxAdmitted = 5
SYMMETRY Symmetry
\* The clock and the admissions are bounded.
CHECK_DEADLOCK FALSE
INVARIANTS
  TypeOK
  WindowLimit
PROPERTIES
  RefusedOnlyWhenBusy
  EvictsTheStalest
