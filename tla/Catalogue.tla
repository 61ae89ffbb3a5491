------------------------------ MODULE Catalogue ------------------------------
(***************************************************************************)
(* One library's catalogue: its entries, its collections, and a client     *)
(* that scrolls through GET /api/v1/library page by page while other       *)
(* requests change what is listed.  A collection request is the separate   *)
(* statements its repository method runs, with no transaction around them; *)
(* a page is one query.  Times are ticks of one clock, and two writes may  *)
(* fall in the same tick.                                                  *)
(***************************************************************************)
EXTENDS Naturals, FiniteSets, FiniteSetsExt

CONSTANTS Works,        \* ids, ordered as text: a set of numbers
          Titles,       \* titles, ordered as text: a set of numbers
          Collections,
          Clients,
          PageSize,     \* ?limit=, 1..100
          MaxTime       \* bound: ticks of the clock

ASSUME CatalogueAssumption ==
    /\ Works \subseteq Nat /\ IsFiniteSet(Works)
    /\ Titles \subseteq Nat
    /\ PageSize \in Nat \ {0}
    /\ MaxTime \in Nat \ {0}

VARIABLES title,        \* works.title, which nothing changes
          clock,
          entry,        \* the earliest library_entries.added_at, 0 for none
          coll,         \* is there a collections row
          member,       \* collection_members.added_at, 0 for none
          pending,      \* the collection request each client waits for
          walk,         \* the client's scroll through the library
          steady        \* works listed all along, in one place, since it began

data == <<title, clock, entry, coll, member, pending>>
cvars == <<data, walk, steady>>

Time == 0 .. MaxTime
Sorts == {"added_at", "title"}
Filters == {"owned", "wanted", "all"}
NoRequest == [op |-> "none"]
CollectionRequest ==
    {NoRequest} \cup [op : {"clear", "delete"}, c : Collections]
                \cup [op : {"add"}, c : Collections, w : Works, at : Time]
Position == [key : Nat, id : Works]
Walk == [sort : Sorts \cup {"none"}, filter : Filters \cup {"none"},
         cursor : SUBSET Position, listed : [Works -> Nat]]
NoWalk == [sort |-> "none", filter |-> "none", cursor |-> {}, listed |-> [w \in Works |-> 0]]

-----------------------------------------------------------------------------
(* QueryLibrary.                                                           *)

Owned(w) == entry[w] > 0
Wanted(w) == \E c \in Collections : member[c][w] > 0

(* work_pool: what the filter lists.                                       *)
Pool(filter) ==
    {w \in Works : \/ filter = "owned" /\ Owned(w)
                   \/ filter = "wanted" /\ Wanted(w) /\ ~Owned(w)
                   \/ filter = "all" /\ (Owned(w) \/ Wanted(w))}

(* effective_added_at.                                                     *)
EffectiveAddedAt(w) ==
    IF Owned(w) THEN entry[w] ELSE Max({member[c][w] : c \in Collections})

Key(sort, w) == IF sort = "title" THEN title[w] ELSE EffectiveAddedAt(w)

(* Mutant: the id does not break ties.                                     *)
AfterKeyOnly(sort, pos, key, id) ==
    IF sort = "title" THEN key > pos.key ELSE key < pos.key

(* The cursor predicate, and with it the order of the rows.                *)
After(sort, pos, key, id) ==
    IF sort = "title"
    THEN key > pos.key \/ (key = pos.key /\ id > pos.id)
    ELSE key < pos.key \/ (key = pos.key /\ id < pos.id)

RowsAfter(sort, filter, cursor) ==
    {w \in Pool(filter) : cursor = {} \/ \E pos \in cursor :
                                            After(sort, pos, Key(sort, w), w)}

(* ORDER BY.                                                               *)
Ahead(sort, v, w) ==
    \/ sort = "title" /\ (title[v] < title[w] \/ (title[v] = title[w] /\ v < w))
    \/ /\ sort = "added_at"
       /\ \/ EffectiveAddedAt(v) > EffectiveAddedAt(w)
          \/ EffectiveAddedAt(v) = EffectiveAddedAt(w) /\ v > w

(* How many rows ORDER BY puts before a row.                               *)
Place(sort, rows, w) == Cardinality({v \in rows : Ahead(sort, v, w)})

(* LIMIT limit + 1, of which limit are answered ...                        *)
PageOf(sort, rows) == {w \in rows : Place(sort, rows, w) < PageSize}

(* ... and the last one answered is the cursor, if the look-ahead row came.*)
NextCursor(sort, rows) ==
    IF Cardinality(rows) > PageSize
    THEN {[key |-> Key(sort, w), id |-> w] :
             w \in {v \in PageOf(sort, rows) : Place(sort, rows, v) = PageSize - 1}}
    ELSE {}

QueryLibrary(sort, filter, cursor) ==
    LET rows == RowsAfter(sort, filter, cursor)
    IN  [works |-> PageOf(sort, rows), nextCursor |-> NextCursor(sort, rows)]

-----------------------------------------------------------------------------
(* The scrolling client: the first page without a cursor, then one page    *)
(* per cursor, until an answer has none.                                   *)

Scrolled(sort, filter, cursor, listed) ==
    LET page == QueryLibrary(sort, filter, cursor)
    IN  [sort |-> sort, filter |-> filter, cursor |-> page.nextCursor,
         listed |-> [w \in Works |-> listed[w] + IF w \in page.works THEN 1 ELSE 0]]

FirstPage(sort, filter) ==
    /\ walk = NoWalk
    /\ walk' = Scrolled(sort, filter, {}, [w \in Works |-> 0])
    /\ steady' = Pool(filter)
    /\ UNCHANGED data

NextPage ==
    /\ walk.cursor # {}
    /\ walk' = Scrolled(walk.sort, walk.filter, walk.cursor, walk.listed)
    /\ UNCHANGED <<data, steady>>

(* The client starts over with another filter or sort.                     *)
LeaveList ==
    /\ walk # NoWalk
    /\ walk' = NoWalk
    /\ steady' = {}
    /\ UNCHANGED data

-----------------------------------------------------------------------------
(* What changes the catalogue.                                             *)

Tick ==
    /\ clock < MaxTime
    /\ clock' = clock + 1
    /\ UNCHANGED <<entry, coll, member, pending>>

(* An import ends in AddEntry; a later edition of the same work does not   *)
(* change the earliest entry.                                              *)
AddEntry(w) ==
    /\ ~Owned(w)
    /\ entry' = [entry EXCEPT ![w] = clock]
    /\ UNCHANGED <<clock, coll, member, pending>>

Begin(r, request) ==
    /\ pending[r] = NoRequest
    /\ pending' = [pending EXCEPT ![r] = request]

End(r) == pending' = [pending EXCEPT ![r] = NoRequest]

(* CreateCollectionHandler: the row, then Save's deletion of its members.  *)
CreateCollection(r, c) ==
    /\ ~coll[c]
    /\ coll' = [coll EXCEPT ![c] = TRUE]
    /\ Begin(r, [op |-> "clear", c |-> c])
    /\ UNCHANGED <<clock, entry, member>>

CreateClears(r) ==
    /\ pending[r].op = "clear"
    /\ member' = [member EXCEPT ![pending[r].c] = [w \in Works |-> 0]]
    /\ End(r)
    /\ UNCHANGED <<clock, entry, coll>>

(* AddMember, after the checks that the collection and the work exist.     *)
AddWork(r, c, w) ==
    /\ coll[c]
    /\ Begin(r, [op |-> "add", c |-> c, w |-> w, at |-> clock])
    /\ UNCHANGED <<clock, entry, coll, member>>

(* INSERT ... ON CONFLICT DO NOTHING; the foreign key refuses a member of  *)
(* a collection deleted meanwhile.                                         *)
AddMember(r) ==
    /\ pending[r].op = "add"
    /\ LET c == pending[r].c
           w == pending[r].w
       IN  member' = IF coll[c] /\ member[c][w] = 0
                     THEN [member EXCEPT ![c][w] = pending[r].at] ELSE member
    /\ End(r)
    /\ UNCHANGED <<clock, entry, coll>>

(* RemoveWorkFromCollectionHandler, after the check of the collection.     *)
RemoveMember(c, w) ==
    /\ coll[c]
    /\ member[c][w] > 0
    /\ member' = [member EXCEPT ![c][w] = 0]
    /\ UNCHANGED <<clock, entry, coll, pending>>

(* Delete: the members of the collection, if it exists ...                 *)
DeleteMembers(r, c) ==
    /\ member' = IF coll[c] THEN [member EXCEPT ![c] = [w \in Works |-> 0]]
                            ELSE member
    /\ Begin(r, [op |-> "delete", c |-> c])
    /\ UNCHANGED <<clock, entry, coll>>

(* ... then its row, unless a member was added in between: the foreign key *)
(* refuses that, and the collection stays, emptied.                        *)
DeleteCollection(r) ==
    /\ pending[r].op = "delete"
    /\ LET c == pending[r].c
       IN  coll' = IF \E w \in Works : member[c][w] > 0
                   THEN coll ELSE [coll EXCEPT ![c] = FALSE]
    /\ End(r)
    /\ UNCHANGED <<clock, entry, member>>

Change ==
    \/ Tick
    \/ \E w \in Works : AddEntry(w)
    \/ \E r \in Clients : \/ CreateClears(r)
                           \/ AddMember(r)
                           \/ DeleteCollection(r)
    \/ \E r \in Clients, c \in Collections :
           \/ CreateCollection(r, c)
           \/ DeleteMembers(r, c)
           \/ \E w \in Works : AddWork(r, c, w)
    \/ \E c \in Collections, w \in Works : RemoveMember(c, w)

(* A work is steady as long as it stays listed under the same key.         *)
Observe ==
    /\ UNCHANGED <<title, walk>>
    /\ steady' = IF walk = NoWalk THEN steady
                 ELSE {w \in steady : /\ w \in Pool(walk.filter)'
                                      /\ Key(walk.sort, w)' = Key(walk.sort, w)}

CatInit ==
    /\ title \in [Works -> Titles]
    /\ clock = 1
    /\ entry = [w \in Works |-> 0]
    /\ coll = [c \in Collections |-> FALSE]
    /\ member = [c \in Collections |-> [w \in Works |-> 0]]
    /\ pending = [r \in Clients |-> NoRequest]
    /\ walk = NoWalk
    /\ steady = {}

CatNext ==
    \/ Change /\ Observe
    \/ \E sort \in Sorts, filter \in Filters : FirstPage(sort, filter)
    \/ NextPage
    \/ LeaveList

CatSpec == CatInit /\ [][CatNext]_cvars

-----------------------------------------------------------------------------
(* The typed state. A page has one cursor at the most, and without a       *)
(* scroll no work is watched.                                              *)
CatTypeOK ==
    /\ title \in [Works -> Titles]
    /\ clock \in Time
    /\ entry \in [Works -> Time]
    /\ coll \in [Collections -> BOOLEAN]
    /\ member \in [Collections -> [Works -> Time]]
    /\ pending \in [Clients -> CollectionRequest]
    /\ steady \subseteq Works
    /\ walk \in Walk
    /\ walk = NoWalk => steady = {}
    /\ walk # NoWalk => walk.sort \in Sorts /\ walk.filter \in Filters
    /\ \A p, q \in walk.cursor : p = q

(* Cursor stability: works imported, added to collections, or taken out    *)
(* between two pages never make the scroll repeat or skip a work that      *)
(* stayed where it was.  Each is listed at most once while the scroll goes *)
(* on, and exactly once when it has ended.                                 *)
ListedExactlyOnce ==
    walk # NoWalk =>
        \A w \in steady : /\ walk.listed[w] <= 1
                          /\ walk.cursor = {} => walk.listed[w] = 1

(* Why: a work that stayed where it was has been listed once exactly when  *)
(* the cursor has passed it (the cursor predicate of QueryLibrary).        *)
ListedOncePassed ==
    \A w \in steady :
        /\ w \in Pool(walk.filter)
        /\ walk.listed[w] = IF \E pos \in walk.cursor : After(walk.sort, pos, Key(walk.sort, w), w)
                            THEN 0 ELSE 1

(* A membership belongs to a collection that exists: a delete that races   *)
(* with an add leaves the collection and the new member, or neither, so    *)
(* the pool of wanted works never lists a work for a collection that is    *)
(* gone.                                                                   *)
MembersHaveCollections ==
    \A c \in Collections : ~coll[c] => \A w \in Works : member[c][w] = 0

(* What every state of the catalogue keeps, between any two pages of a     *)
(* scroll and any two statements of overlapping requests                   *)
(* (work_repository.go, collection_repository.go).                         *)
CatalogueInvariant ==
    CatTypeOK /\ MembersHaveCollections /\ ListedOncePassed /\ ListedExactlyOnce

=============================================================================
