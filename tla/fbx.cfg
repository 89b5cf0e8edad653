SPECIFICATION Spec
CONSTANTS
  Procs = {p1, p2}
  Users = {u1, u2}
  Sources = {a}
  MaxPairs = 7
  MaxAging = 2
  MaxCommands = 4
  MaxRequests = 2
  Failures = 1
\* The users stop once MaxCommands are used up.
CHECK_DEADLOCK FALSE
INVARIANTS
  TypeOK
  SessionIsOfOne
  NeverStranded
PROPERTY CommandsEnd
