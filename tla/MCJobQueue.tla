---------------------------- MODULE MCJobQueue ----------------------------
EXTENDS JobQueue, TLC
Symmetry == Permutations(JobIds) \cup Permutations(Workers)
=============================================================================
