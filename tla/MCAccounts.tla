----------------------------- MODULE MCAccounts -----------------------------
(***************************************************************************)
(* A small instance of Accounts.  Ids are only compared, hence the         *)
(* symmetry.  The handlers of libraries and those of tickets write         *)
(* different tables, and all that either reads of the other's is SignedIn, *)
(* which never shrinks: a behaviour has a ticket out, or has more than the *)
(* default library and requests about libraries, but not both.             *)
(***************************************************************************)
EXTENDS Accounts, TLC

Symmetry ==
    Permutations(Users) \cup Permutations(Requests) \cup Permutations(Tokens)
        \cup Permutations(Tickets) \cup Permutations(Secrets)

OnlyDefault ==
    /\ libs = {Default}
    /\ invitation = [i \in Invitations |-> None]
    /\ \A r \in Requests : req[r].at \notin {"creator", "update", "accept", "accepted"}

Apart == OnlyDefault \/ \A k \in Tickets : ticket[k] = None

MCNext ==
    \/ \E r \in Requests : Setup(r) \/ SecondFactor(r) \/ Refuse(r)
    \/ \E r \in Requests : Session(r) /\ Apart'
    \/ \E r \in Requests : Tenancy(r) /\ Apart'
    \/ AtOnce /\ Apart'
    \/ SweepOnce
    \/ Tick

MCSpec == Init /\ [][MCNext]_vars

=============================================================================
