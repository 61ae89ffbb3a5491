-------------------------- MODULE MCImportPipeline --------------------------
(* Symmetry for model checking ImportPipeline: ids are only compared. *)
EXTENDS ImportPipeline, TLC

Symmetry ==
    Permutations(Candidates) \cup Permutations(Discoveries) \cup Permutations(Runs)
        \cup Permutations(Reviews) \cup Permutations(NewEditions)

=============================================================================
