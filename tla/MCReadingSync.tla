--------------------------- MODULE MCReadingSync ---------------------------
EXTENDS ReadingSync, TLC

OneLibrary == [r \in Rows |-> CHOOSE l \in Libraries : TRUE]

WorkSymmetry == Permutations(Progress)
============================================================================
