---------------------------- MODULE MCRateLimiter ----------------------------
EXTENDS RateLimiter, TLC

\* Calls, tokens and addresses are interchangeable.
Symmetry == Permutations(Calls) \cup Permutations(Tokens) \cup Permutations(Addresses)
=============================================================================
