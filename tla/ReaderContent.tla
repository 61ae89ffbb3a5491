--------------------------- MODULE ReaderContent ---------------------------
(* The archives behind the reader: a request for an entry of a book borrows   *)
(* the book's open archive from a cache, reads the entry and gives it back.   *)
(* A miss spools the book to a temporary file; requests for the same book     *)
(* wait for that load.  The cache closes archives that are idle or the least  *)
(* recently used, and closing removes the temporary file.  The cache is one   *)
(* critical section per step; everything between the steps interleaves.       *)
(* Entry names, contents, headers and the outcome of reading an entry, which  *)
(* touch no shared state, are left out.                                       *)
EXTENDS Naturals, FiniteSets

CONSTANTS
    Editions,
    Requests,   \* GET .../reader/content/... requests in flight at once
    Archives,   \* temporary files, with the archive opened over each
    None,
    MaxOpen,    \* maxOpen: 5
    IdleTTL     \* idleTTL: 10 minutes, in ticks of the clock

ASSUME ReaderAssumption ==
    /\ IsFiniteSet(Editions) /\ IsFiniteSet(Requests) /\ IsFiniteSet(Archives)
    /\ None \notin Editions \cup Requests \cup Archives
    /\ MaxOpen \in Nat \ {0}
    /\ IdleTTL \in Nat \ {0}

VARIABLES
    request,    \* the requests: where each is, its book and the archive it has
    disk,       \* the temporary files that exist
    entries,    \* Cache.entries: the archive of each book
    refs,       \* cacheEntry.refs
    evict,      \* cacheEntry.evict
    idle        \* the time since cacheEntry.lastUsed, which stops at IdleTTL

vars == <<request, disk, entries, refs, evict, idle>>
cache == <<entries, refs, evict, idle>>

\* "wait" is a wait on another request's load, "hit" and "failed" what its end
\* told the waiter; "load" is the owner of a load that has no file yet, "spooled"
\* one that has, "hold" a request between Acquire and Release.
Phase == {"idle", "acquire", "wait", "hit", "failed", "load", "spooled", "hold"}

NoRequest == [at |-> "idle", edition |-> None, archive |-> None]

\* Cache.inflight: a load is registered exactly while a request owns it.
Loading(e) == {r \in Requests : request[r].edition = e /\ request[r].at \in {"load", "spooled"}}

Holders(a) == {r \in Requests : request[r].at = "hold" /\ request[r].archive = a}

Cached == {e \in Editions : entries[e] # None}

\* Where each request is, which book it is about and which archive it has.
TypeOK ==
    /\ request \in [Requests -> [at : Phase, edition : Editions \cup {None},
                                 archive : Archives \cup {None}]]
    /\ disk \subseteq Archives
    /\ entries \in [Editions -> Archives \cup {None}]
    /\ refs \in [Archives -> Nat]
    /\ evict \in [Archives -> BOOLEAN]
    /\ idle \in [Archives -> 0..IdleTTL]

Init ==
    /\ request = [r \in Requests |-> NoRequest]
    /\ disk = {}
    /\ entries = [e \in Editions |-> None]
    /\ refs = [a \in Archives |-> 0]
    /\ evict = [a \in Archives |-> FALSE]
    /\ idle = [a \in Archives |-> 0]

Tick ==
    /\ idle' = [a \in Archives |-> IF idle[a] < IdleTTL /\ \E e \in Editions : entries[e] = a
                                  THEN idle[a] + 1 ELSE idle[a]]
    /\ UNCHANGED <<request, disk, entries, refs, evict>>
-----------------------------------------------------------------------------
(* Acquire takes the lock, sweeps and finds an entry, a load or nothing.      *)

\* The handler's checks passed: a path in canonical form, a user, an edition of
\* the user's library.  A request that fails one is answered and changes nothing.
Begin(r, e) ==
    /\ request[r].at = "idle"
    /\ request' = [request EXCEPT ![r] = [at |-> "acquire", edition |-> e, archive |-> None]]
    /\ UNCHANGED <<disk, cache>>

\* What sweepLocked closes.
Stale == {e \in Cached : refs[entries[e]] = 0 /\ idle[entries[e]] >= IdleTTL}

Swept == [e \in Editions |-> IF e \in Stale THEN None ELSE entries[e]]

SweptDisk == disk \ {entries[e] : e \in Stale}

AcquireHit(r) ==
    LET e == request[r].edition IN
    /\ request[r].at = "acquire"
    /\ Swept[e] # None
    /\ request' = [request EXCEPT ![r].at = "hold", ![r].archive = Swept[e]]
    /\ entries' = Swept
    /\ disk' = SweptDisk
    /\ refs' = [refs EXCEPT ![Swept[e]] = @ + 1]
    /\ idle' = [idle EXCEPT ![Swept[e]] = 0]
    /\ UNCHANGED evict

AcquireWait(r) ==
    LET e == request[r].edition IN
    /\ request[r].at = "acquire"
    /\ Swept[e] = None
    /\ Loading(e) # {}
    /\ request' = [request EXCEPT ![r].at = "wait"]
    /\ entries' = Swept
    /\ disk' = SweptDisk
    /\ UNCHANGED <<refs, evict, idle>>

AcquireMiss(r) ==
    LET e == request[r].edition IN
    /\ request[r].at = "acquire"
    /\ Swept[e] = None
    /\ Loading(e) = {}
    /\ request' = [request EXCEPT ![r].at = "load"]
    /\ entries' = Swept
    /\ disk' = SweptDisk
    /\ UNCHANGED <<refs, evict, idle>>

\* The load this request waited for has ended: Acquire starts again after a
\* success, since the entry may have gone in the meantime.
WaitSucceeds(r) ==
    /\ request[r].at = "hit"
    /\ request' = [request EXCEPT ![r].at = "acquire"]
    /\ UNCHANGED <<disk, cache>>

\* Mutant: a waiter looks at the load only and never at its own deadline.
WaitEndsOnResult(r) ==
    /\ request[r].at = "failed"
    /\ request' = [request EXCEPT ![r] = NoRequest]
    /\ UNCHANGED <<disk, cache>>

\* The load failed, or the request's own 30 seconds ran out or its client left,
\* which select may prefer to a result that is there.
WaitEnds(r) ==
    /\ request[r].at \in {"wait", "hit", "failed"}
    /\ request' = [request EXCEPT ![r] = NoRequest]
    /\ UNCHANGED <<disk, cache>>
-----------------------------------------------------------------------------
(* The load, outside the lock and under the cache's own deadline.             *)

\* Closing call.done: every waiter learns the result of this load.
Tell(e, result) ==
    [s \in Requests |-> IF request[s].at = "wait" /\ request[s].edition = e
                        THEN [request[s] EXCEPT !.at = result] ELSE request[s]]

\* Resolver.Load up to the end of Materialize: the book is owned, an offering
\* resolves, the stream is within bounds and in the file.
Spool(r) ==
    /\ request[r].at = "load"
    /\ \E a \in Archives \ disk :
          /\ \A s \in Requests : request[s].archive # a
          /\ disk' = disk \cup {a}
          /\ request' = [request EXCEPT ![r] = [at |-> "spooled", edition |-> request[r].edition,
                                                archive |-> a]]
    /\ UNCHANGED cache

\* Mutant: the file stays when the archive does not open.
LoadFailsAndLeaves(r) ==
    /\ request[r].at \in {"load", "spooled"}
    /\ request' = [Tell(request[r].edition, "failed") EXCEPT ![r] = NoRequest]
    /\ UNCHANGED <<disk, cache>>

\* Load fails: not owned, no offering, no stream, too large, too late, not a zip or
\* too many entries.  A file made so far is removed.
LoadFails(r) ==
    /\ request[r].at \in {"load", "spooled"}
    /\ disk' = disk \ {request[r].archive}
    /\ request' = [Tell(request[r].edition, "failed") EXCEPT ![r] = NoRequest]
    /\ UNCHANGED cache

\* The entries of a cache c that evictLRULocked may close, and those it may mark.
Free(c) == {e \in Editions : c.entries[e] # None /\ ~c.evict[c.entries[e]] /\ c.refs[c.entries[e]] = 0}
Unmarked(c) == {e \in Editions : c.entries[e] # None /\ ~c.evict[c.entries[e]]}

Older(c, e, f) == c.idle[c.entries[e]] >= c.idle[c.entries[f]]
Oldest(c, S) == {e \in S : \A f \in S : Older(c, e, f)}

Open(c) == {e \in Editions : c.entries[e] # None}

\* Mutant: room is made only by closing a free entry.
EvictLRUFreeOnly(c, gone, mark) ==
    /\ mark = {}
    /\ IF Cardinality(Open(c)) <= MaxOpen \/ Free(c) = {} THEN gone = {}
       ELSE \E v \in Oldest(c, Free(c)) : gone = {v}

\* evictLRULocked closes gone, the oldest free entries, as long as the cache is over
\* its bound.  When nothing more is free it marks the oldest of the unmarked entries
\* that are left, if there is one, and stops.
EvictLRU(c, gone, mark) ==
    LET left == Open(c) \ gone IN
    /\ gone \subseteq Free(c)
    /\ \A v \in gone, f \in Free(c) \ gone : Older(c, v, f)
    /\ gone # {} => Cardinality(left) >= MaxOpen
    /\ IF Cardinality(left) <= MaxOpen THEN mark = {}
       ELSE /\ gone = Free(c)
            /\ IF Unmarked(c) \ gone = {} THEN mark = {}
               ELSE \E v \in Oldest(c, Unmarked(c) \ gone) : mark = {v}

\* The cache with archive a as the entry of e, which has one reference.
Insert(e, a) ==
    [entries |-> [entries EXCEPT ![e] = a], refs |-> [refs EXCEPT ![a] = 1],
     evict |-> [evict EXCEPT ![a] = FALSE], idle |-> [idle EXCEPT ![a] = 0]]

LoadSucceeds(r) ==
    LET e == request[r].edition
        a == request[r].archive
        c == Insert(e, a)
    IN  /\ request[r].at = "spooled"
        /\ request' = [Tell(e, "hit") EXCEPT ![r] = [at |-> "hold", edition |-> e, archive |-> a]]
        /\ \E gone, mark \in SUBSET Editions :
              /\ EvictLRU(c, gone, mark)
              /\ entries' = [f \in Editions |-> IF f \in gone THEN None ELSE c.entries[f]]
              /\ disk' = disk \ {c.entries[f] : f \in gone}
              /\ evict' = [b \in Archives |-> c.evict[b] \/ \E f \in mark : b = c.entries[f]]
        /\ refs' = c.refs
        /\ idle' = c.idle
-----------------------------------------------------------------------------
(* Release, once the entry was read and the answer written or refused.        *)

Release(r) ==
    LET a == request[r].archive
        last == refs[a] = 1 /\ evict[a]
    IN  /\ request[r].at = "hold"
        /\ request' = [request EXCEPT ![r] = NoRequest]
        /\ refs' = [refs EXCEPT ![a] = @ - 1]
        /\ idle' = [idle EXCEPT ![a] = 0]
        /\ entries' = IF last THEN [entries EXCEPT ![request[r].edition] = None] ELSE entries
        /\ disk' = IF last THEN disk \ {a} ELSE disk
        /\ UNCHANGED evict
-----------------------------------------------------------------------------
Acquire(r) == AcquireHit(r) \/ AcquireWait(r) \/ AcquireMiss(r)
Load(r) == Spool(r) \/ LoadFails(r) \/ LoadSucceeds(r)
Step(r) == Acquire(r) \/ WaitSucceeds(r) \/ WaitEnds(r) \/ Load(r) \/ Release(r)

Next == Tick \/ \E r \in Requests : Step(r) \/ \E e \in Editions : Begin(r, e)

Spec == Init /\ [][Next]_vars

\* A load is bounded by the cache's deadline and net/http runs a handler to its end,
\* so each request goes on from wherever it is.  Its own 30 seconds run out once and
\* for all, so a request that keeps coming back to wait gives up.
FairSpec == Spec /\ \A r \in Requests : WF_vars(Step(r)) /\ SF_vars(WaitEnds(r))
-----------------------------------------------------------------------------
(* Properties.                                                                *)

\* An archive that a request holds is the entry of its book and its file is there,
\* and refs counts exactly its holders: no sweep, no eviction and no release of
\* another request closes it under a reader (cache.go, handleFor).
HeldArchiveIsOpen ==
    /\ \A r \in Requests : request[r].at = "hold" =>
          /\ request[r].archive \in disk
          /\ entries[request[r].edition] = request[r].archive
    /\ \A e \in Cached : refs[entries[e]] = Cardinality(Holders(entries[e]))

\* Entries that are not on their way out are within maxOpen, and one that is on its
\* way out is being read, so that its last Release closes it: the cache exceeds its
\* bound only by archives in use (cache.go, evictLRULocked).
OpenWithinBound ==
    /\ Cardinality({e \in Cached : ~evict[entries[e]]}) <= MaxOpen
    /\ \A e \in Cached : evict[entries[e]] => Holders(entries[e]) # {}

\* Every temporary file belongs to one entry of the cache or to one load under way,
\* whatever failed before: nothing is left on disk that nobody will remove
\* (resolver.go, Load).
EveryFileHasAnOwner ==
    /\ \A a \in Archives : a \in disk <=>
          \/ \E e \in Editions : entries[e] = a
          \/ \E r \in Requests : request[r].at = "spooled" /\ request[r].archive = a
    /\ \A e, f \in Cached : entries[e] = entries[f] => e = f

\* A book is loaded by one request at a time and not while it is open: a burst of
\* requests for one book spools it once (cache.go, Acquire).
OneLoadPerBook ==
    \A e \in Editions :
        /\ \A r, s \in Loading(e) : r = s
        /\ entries[e] # None => Loading(e) = {}

\* A request has an archive exactly while it has spooled or holds one, and a
\* spooled one is nobody else's.
HasItsArchive(r) ==
    /\ request[r].at # "idle" => request[r].edition \in Editions
    /\ request[r].at \in {"spooled", "hold"} => request[r].archive \in disk
    /\ request[r].at \notin {"spooled", "hold"} => request[r].archive = None
    /\ request[r].at = "spooled" =>
          /\ \A e \in Editions : entries[e] # request[r].archive
          /\ \A s \in Requests \ {r} : request[s].archive # request[r].archive

\* The invariant that every critical section of the cache keeps (cache.go,
\* resolver.go).
CacheInvariant ==
    /\ TypeOK
    /\ \A r \in Requests : HasItsArchive(r)
    /\ HeldArchiveIsOpen
    /\ EveryFileHasAnOwner
    /\ OneLoadPerBook

\* Every request is answered: a waiter does not wait on a load whose end it missed
\* (cache.go, Acquire).
EveryRequestEnds == \A r \in Requests : request[r].at # "idle" ~> request[r].at = "idle"
=============================================================================
