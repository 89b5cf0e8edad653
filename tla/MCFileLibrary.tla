---------------------------- MODULE MCFileLibrary ----------------------------
EXTENDS FileLibrary, TLC

CONSTANTS f1, f2, f3

\* Two files from earlier, of one chunk each; the new one has two.
OldFiles == <<f1, f2>>
ChunksOf == f1 :> 1 @@ f2 :> 1 @@ f3 :> 2
=============================================================================
