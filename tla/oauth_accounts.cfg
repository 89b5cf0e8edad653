SPECIFICATION Spec
CONSTANTS
  a1 = a1
  a2 = a2
  a3 = a3
  google = google
  github = github
  x = x
  NoEmail = NoEmail
  UserIds = {u1, u2, u3}
  Identities = {a1, a2, a3}
  ProviderOf <- TwoProviders
  EmailOf <- ThreeAddresses
  Padded = {a2}
  States = {s1, s2, s3}
  Handlers = {h1, h2}
SYMMETRY Symmetry
\* Users may stop logging in; then nothing is left to do.
CHECK_DEADLOCK FALSE
INVARIANTS
  TypeOK
  NobodyIsLockedOut
  LoginsAreLinked
PROPERTIES
  IdentitiesStay
  FoundReactivations
