--------------------------- MODULE MCOAuthAccounts ---------------------------
EXTENDS OAuthAccounts, TLC

CONSTANTS a1, a2, a3, google, github, x

\* Three identities at two providers, two of them with the same address.
TwoProviders == a1 :> google @@ a2 :> google @@ a3 :> github
ThreeAddresses == a1 :> x @@ a2 :> x @@ a3 :> NoEmail

\* Users, tokens and request slots are interchangeable.
Symmetry == Permutations(UserIds) \cup Permutations(States) \cup Permutations(Handlers)

=============================================================================
