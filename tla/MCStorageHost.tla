---------------------------- MODULE MCStorageHost ----------------------------
EXTENDS StorageHost, TLC

CONSTANTS s1, s2, u1, u2

\* Servers and uploads are alike.
Symmetry == Permutations(Servers) \cup Permutations(Uploads)
=============================================================================
