----------------------------- MODULE MCSources -----------------------------
(* Symmetry for model checking Sources: ids and origins are only compared. *)
EXTENDS Sources, TLC

Symmetry == Permutations(SourceIds) \cup Permutations(Requests) \cup Permutations(Origins)

=============================================================================
