------------------------------ MODULE WorkGraph ------------------------------
(***************************************************************************)
(* The merge and containment graphs over works, and the merge graph over   *)
(* authors, with the domain services that guard them: WorkMergeService,    *)
(* WorkContainmentService, AuthorMergeService and the read-time resolution *)
(* of resolve_work.go.  A merge writes one reference; every read resolves  *)
(* it.  A service reads the graph, decides, and saves one whole work.  The *)
(* services have no concurrent callers yet, so a call is one step; the     *)
(* save inside it is a series of separate statements and may stop half way.*)
(***************************************************************************)
EXTENDS Naturals, FiniteSets

CONSTANTS WorkIDs, AuthorIDs, None

VARIABLES mergedInto,   \* works.merged_into
          contains,     \* work_contains, the containees of each container
          authorInto    \* authors.merged_into

gvars == <<mergedInto, contains, authorInto>>

-----------------------------------------------------------------------------
(* A work as the repository reads it.                                      *)
load(w) == [mergedInto |-> mergedInto[w], contains |-> contains[w]]

(* The walks of resolve_work.go.                                           *)

(* Follows the merge references to the work that has none; None stands for *)
(* the internal error on an existing cycle.                                *)
resolveCanonicalWork(w) ==
    LET RECURSIVE walk(_, _)
        walk(current, seen) ==
            IF current \in seen THEN None
            ELSE IF load(current).mergedInto = None THEN current
            ELSE walk(load(current).mergedInto, seen \cup {current})
    IN  walk(w, {})

FindMergedInto(c) == {w \in WorkIDs : mergedInto[w] = c}

(* Mutant: one hop of FindMergedInto instead of the breadth-first walk.    *)
collectOneHop(c) == {c} \cup FindMergedInto(c)

(* The works merged into c, directly or through others, and c itself.      *)
collectMergeGroup(c) ==
    LET RECURSIVE grow(_)
        grow(w) == {w} \cup UNION {grow(m) : m \in FindMergedInto(w)}
    IN  grow(c)

(* Mutant: the contained references are not resolved before the walk goes  *)
(* on.                                                                     *)
containsClosureRaw(start) ==
    LET RECURSIVE visit(_, _)
        visit(queue, closure) ==
            LET found == UNION {contains[w] : w \in queue}
            IN  IF found \subseteq closure THEN closure
                ELSE visit(found \ closure, closure \cup found)
    IN  visit({resolveCanonicalWork(start)}, {})

(* Everything start's canonical work contains, through the merge groups.   *)
containsClosure(start) ==
    LET RECURSIVE visit(_, _)
        visit(queue, closure) ==
            LET group == UNION {collectMergeGroup(c) : c \in queue}
                found == {resolveCanonicalWork(d) :
                             d \in UNION {load(w).contains : w \in group}}
            IN  IF found \subseteq closure THEN closure
                ELSE visit(found \ closure, closure \cup found)
    IN  visit({resolveCanonicalWork(start)}, {})

(* The union that every read of a merged work returns, for the containment *)
(* references (authors, subjects and external references go the same way). *)
ResolveWork(w) ==
    LET canonical == resolveCanonicalWork(w)
    IN  [CanonicalID |-> canonical,
         Contains |-> UNION {load(m).contains : m \in collectMergeGroup(canonical)}]

-----------------------------------------------------------------------------
(* The services.                                                           *)

(* Does the target's merge chain lead to the source?                       *)
sourceReachableFromTarget(into, source, target) ==
    LET RECURSIVE walk(_, _)
        walk(current, visited) ==
            IF current = source THEN TRUE
            ELSE IF current \in visited \/ into[current] = None THEN FALSE
            ELSE walk(into[current], visited \cup {current})
    IN  walk(target, {})

wouldCreateSelfContainment(source, target) ==
    resolveCanonicalWork(source) \in containsClosure(resolveCanonicalWork(target))

(* Save: the row first, then every child table deleted and written again,  *)
(* each statement on its own.  A save that fails after the row leaves the  *)
(* old references, or some of the new ones.                                *)
Save(w, into, refs) ==
    /\ mergedInto' = [mergedInto EXCEPT ![w] = into]
    /\ \E kept \in SUBSET refs \cup {contains[w]} :
           contains' = [contains EXCEPT ![w] = kept]

RecordMerge(source, target) ==
    /\ ~sourceReachableFromTarget(mergedInto, source, target)
    /\ ~wouldCreateSelfContainment(source, target)
    /\ Save(source, target, load(source).contains)
    /\ UNCHANGED authorInto

UndoMerge(source) ==
    /\ Save(source, None, load(source).contains)
    /\ UNCHANGED authorInto

AddContains(container, containee) ==
    LET c == resolveCanonicalWork(container)
        d == resolveCanonicalWork(containee)
    IN  /\ c # d
        /\ c \notin containsClosure(d)
        /\ Save(container, load(container).mergedInto,
                load(container).contains \cup {containee})
        /\ UNCHANGED authorInto

RemoveContains(container, containee) ==
    /\ Save(container, load(container).mergedInto, load(container).contains \ {containee})
    /\ UNCHANGED authorInto

AuthorRecordMerge(source, target) ==
    /\ ~sourceReachableFromTarget(authorInto, source, target)
    /\ authorInto' = [authorInto EXCEPT ![source] = target]
    /\ UNCHANGED <<mergedInto, contains>>

AuthorUndoMerge(source) ==
    /\ authorInto' = [authorInto EXCEPT ![source] = None]
    /\ UNCHANGED <<mergedInto, contains>>

GraphInit ==
    /\ mergedInto = [w \in WorkIDs |-> None]
    /\ contains = [w \in WorkIDs |-> {}]
    /\ authorInto = [a \in AuthorIDs |-> None]

GraphNext ==
    \/ \E v, w \in WorkIDs : \/ RecordMerge(v, w)
                           \/ AddContains(v, w)
                           \/ RemoveContains(v, w)
    \/ \E w \in WorkIDs : UndoMerge(w)
    \/ \E a, b \in AuthorIDs : AuthorRecordMerge(a, b)
    \/ \E a \in AuthorIDs : AuthorUndoMerge(a)

-----------------------------------------------------------------------------
(* What the graphs promise, stated without any of the walks above.         *)

(* No cycle: every set of nodes has one with no edge into the set.         *)
Acyclic(edges, S) ==
    \A X \in SUBSET S \ {{}} : \E x \in X : \A y \in X : <<x, y>> \notin edges

Into(refs, S) == {p \in S \X S : refs[p[1]] = p[2]}

(* The sets of works that follow the merge references, and among them the  *)
(* work without a reference that is in every one that holds w.             *)
Closed == {X \in SUBSET WorkIDs : \A x \in X : mergedInto[x] \in X \cup {None}}

Top(w, closed) ==
    CHOOSE c \in WorkIDs : mergedInto[c] = None /\ \A X \in closed : w \in X => c \in X

Holds == LET closed == Closed
         IN  UNION {{<<Top(v, closed), Top(w, closed)>> : w \in contains[v]} : v \in WorkIDs}

(* The merge references of works and of authors never form a cycle,        *)
(* whatever sequence of merges, re-merges and undos the services accept:   *)
(* sourceReachableFromTarget rejects the one that would close it.          *)
MergeAcyclic ==
    /\ Acyclic(Into(mergedInto, WorkIDs), WorkIDs)
    /\ Acyclic(Into(authorInto, AuthorIDs), AuthorIDs)

(* The forward walk and the breadth-first walk of resolve_work.go agree:   *)
(* every work is in the group of its canonical work and in no other, so a  *)
(* read of any member of a group returns the same union, with nothing of   *)
(* the group left out.  The canonical work is well defined because the     *)
(* references form no cycle.                                               *)
GroupsPartition ==
    /\ MergeAcyclic
    /\ LET closed == Closed IN \A w \in WorkIDs :
        LET c == resolveCanonicalWork(w)
            whole == {v \in WorkIDs : Top(v, closed) = c}
        IN  /\ c = Top(w, closed)
            /\ ResolveWork(w) = [CanonicalID |-> c,
                                 Contains |-> UNION {contains[v] : v \in whole}]

(* A work does not, transitively and over the merge-resolved graph,        *)
(* contain itself.                                                         *)
NoSelfContainment == Acyclic(Holds, WorkIDs)

(* Only a merge can make a work contain itself: AddContains,               *)
(* RemoveContains and UndoMerge keep a graph in which none does, because   *)
(* the new reference is checked over the merge groups, and splitting a     *)
(* group makes no new path.                                                *)
ContainsStaysAcyclic ==
    [][(/\ gvars' # gvars
        /\ \A w \in WorkIDs : mergedInto'[w] \in {mergedInto[w], None}
        /\ NoSelfContainment) => NoSelfContainment']_gvars
=============================================================================
