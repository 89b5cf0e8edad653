-------------------------- MODULE MCChunkedUpload --------------------------
EXTENDS ChunkedUpload, TLC

\* Users, ids and handlers are interchangeable.
Symmetry == Permutations(Users) \cup Permutations(UploadIds) \cup Permutations(Handlers)

=============================================================================
