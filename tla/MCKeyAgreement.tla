--------------------------- MODULE MCKeyAgreement ----------------------------
EXTENDS KeyAgreement, TLC

\* No one-time keys, or two; a second batch repeats the first one's ids.
SmallBatches == {<< >>, <<0, 1>>}

\* Conversations are interchangeable.
Symmetry == Permutations(Talks)
=============================================================================
