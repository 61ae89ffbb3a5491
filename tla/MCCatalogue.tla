----------------------------- MODULE MCCatalogue -----------------------------
(***************************************************************************)
(* Small instances of Catalogue and of WorkGraph in one run.  The two      *)
(* share no state, and neither do the works and the authors of the graphs: *)
(* a behaviour moves one of the three, away from its initial state and     *)
(* back, while the others stand at their own.                              *)
(***************************************************************************)
EXTENDS Catalogue, WorkGraph, TLC

Symmetry == Permutations(Clients) \cup Permutations(AuthorIDs)

MCInit == CatInit /\ GraphInit

OneGraphMoves ==
    \/ authorInto = [a \in AuthorIDs |-> None]
    \/ \A w \in WorkIDs : mergedInto[w] = None /\ contains[w] = {}

MCNext ==
    \/ CatNext /\ GraphInit /\ UNCHANGED gvars
    \/ GraphNext /\ OneGraphMoves' /\ CatInit /\ UNCHANGED cvars

MCSpec == MCInit /\ [][MCNext]_<<cvars, gvars>>
=============================================================================
