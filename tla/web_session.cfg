SPECIFICATION FairSpec
CONSTANTS
  Tabs = {b1, b2}
  Tasks = {k1, k2}
  MaxPairs = 5
  MaxAging = 1
  MaxLogins = 2
  MaxCalls = 2
\* A user may stop making calls; then nothing is left to do.
CHECK_DEADLOCK FALSE
INVARIANTS
  TypeOK
  NoTokenUsedTwice
  OneLiveToken
PROPERTIES
  SessionSurvives
  CallsEnd
