------------------------------ MODULE Discover ------------------------------
(***************************************************************************)
(* The discover endpoints (transport/http/discover.go) over Open Library:  *)
(* the client with its rate limiter (adapters/openlibrary), the cache of   *)
(* works (persistence/postgres/metadata_cache_repository.go) and the cache *)
(* of cover images, rows in metadata_covers and files on disk              *)
(* (cover_cache_repository.go).                                            *)
(*                                                                         *)
(* A step is one statement, one file operation or one atomic operation on  *)
(* the limiter's counter.  Any statement or call may fail, also because    *)
(* the client hung up and cancelled the context; what the handler does     *)
(* then is modelled.  A cover's image counts one towards the limit on      *)
(* disk: the limit is fifty times the largest image the client accepts.    *)
(* accessed_at only orders the eviction; which covers go is left open.     *)
(***************************************************************************)
EXTENDS Naturals, FiniteSets

CONSTANTS
    Covers,     \* ids of cover images
    Works,      \* Open Library keys of works
    Requests,   \* concurrent HTTP requests
    None,
    MaxCovers,  \* images within maxBytes
    WaiterCap,  \* waiterCap of the limiter
    Authors     \* authors of a work, at most 20 of which are fetched

ASSUME DiscoverAssumption ==
    /\ MaxCovers \in Nat \ {0} /\ WaiterCap \in Nat \ {0} /\ Authors \in 0..20
    /\ IsFiniteSet(Covers) /\ IsFiniteSet(Requests)
    /\ Covers \cap Works = {} /\ None \notin Covers \cup Works \cup Requests

VARIABLES
    row,      \* rows of metadata_covers
    file,     \* the image under a cover's final name
    temp,     \* and under temporary names
    work,     \* rows of metadata_works
    active,   \* activeWaiters of the limiter
    mu,       \* the request that holds the cache's mutex
    skipped,  \* history: an eviction pass was cut short since one last went through
    req       \* requests in progress

store == <<row, file, temp, work>>

vars == <<store, active, mu, skipped, req>>

Places ==
    {"idle", "stat", "limit", "wait", "full", "call", "answered", "mark", "write", "writing",
     "rename", "insert", "evict", "total", "choose", "remove", "delete", "unlock"}

Request == [at : Places,
            key : Covers \cup Works \cup {None},
            call : Nat,             \* how many calls the client has made for it
            over : Nat,             \* by how much its eviction pass found the limit exceeded
            victims : SUBSET Covers]  \* and the candidates it has still to remove

Idle == [at |-> "idle", key |-> None, call |-> 0, over |-> 0, victims |-> {}]

Goto(r, at) == req' = [req EXCEPT ![r].at = at]

(* The answer is written: the file, the bytes at hand, or an error. *)
End(r) == req' = [req EXCEPT ![r] = Idle]

(* Mutant: the temporary name is the cover's alone. *)
tmpPathOfCover(r) == req[r].key

(* Random bytes make the temporary name the request's own. *)
tmpPath(r) == r

Cached == {c \in Covers : row[c] = "image"}

Waiting == {r \in Requests : req[r].at \in {"wait", "full"}}

-----------------------------------------------------------------------------
(* Read-through caches. *)

(* DiscoverCoverHandler, GetCover: a row without an image is an answer, no *)
(* row (or a failed query) means to ask Open Library.                      *)
GetCover(r, c) ==
    /\ req[r].at = "idle"
    /\ \/ row[c] = "missing" /\ UNCHANGED req
       \/ \E at \in {"limit"} \cup (IF row[c] = "image" THEN {"stat"} ELSE {}) :
             req' = [req EXCEPT ![r] = [Idle EXCEPT !.at = at, !.key = c]]
    /\ UNCHANGED <<store, active, mu, skipped>>

(* The row is only trusted when the file is there. *)
Stat(r) ==
    /\ req[r].at = "stat"
    /\ IF file[req[r].key] = "none" THEN Goto(r, "limit") ELSE End(r)
    /\ UNCHANGED <<store, active, mu, skipped>>

(* GetWork of the cache: a row no older than 30 days is a hit. *)
Hit(w) == work[w] = "fresh"

(* DiscoverWorkDetailHandler: a hit is the answer; without one, or when    *)
(* the query fails, Open Library is asked.                                 *)
GetWork(r, w) ==
    /\ req[r].at = "idle"
    /\ \/ Hit(w) /\ UNCHANGED req
       \/ req' = [req EXCEPT ![r] = [Idle EXCEPT !.at = "limit", !.key = w]]
    /\ UNCHANGED <<store, active, mu, skipped>>

(* DiscoverSearchHandler: searches are not cached. *)
Search(r) ==
    /\ req[r].at = "idle"
    /\ req' = [req EXCEPT ![r] = [Idle EXCEPT !.at = "limit"]]
    /\ UNCHANGED <<store, active, mu, skipped>>

(* 30 days pass. *)
Age(w) ==
    /\ work[w] = "fresh"
    /\ work' = [work EXCEPT ![w] = "stale"]
    /\ UNCHANGED <<row, file, temp, active, mu, skipped, req>>

-----------------------------------------------------------------------------
(* The client. *)

(* RateLimiter.Wait: the counter first, then the comparison. *)
Enter(r) ==
    /\ req[r].at = "limit"
    /\ active' = active + 1
    /\ Goto(r, IF active + 1 > WaiterCap THEN "full" ELSE "wait")
    /\ UNCHANGED <<store, mu, skipped>>

(* Where a failed call leaves the request.  Of a work only the first call  *)
(* has to succeed: editions and authors that cannot be had are left out.   *)
Fail(r) == IF req[r].call = 0 THEN End(r) ELSE Goto(r, "answered")

(* Mutant: the queue is full, and the counter keeps the request. *)
TurnAwayCounted(r) ==
    /\ req[r].at = "full"
    /\ Fail(r)
    /\ UNCHANGED <<store, active, mu, skipped>>

(* The queue is full. *)
TurnAway(r) ==
    /\ req[r].at = "full"
    /\ active' = active - 1
    /\ Fail(r)
    /\ UNCHANGED <<store, mu, skipped>>

(* A token, or the end of the wait budget. *)
Leave(r) ==
    /\ req[r].at = "wait"
    /\ active' = active - 1
    /\ Goto(r, "call") \/ Fail(r)
    /\ UNCHANGED <<store, mu, skipped>>

(* doRequest: an answer within the size limit, a 404, or a failure.  The   *)
(* answer to a search is passed on, and ends the request like a failure.   *)
Answer(r) ==
    /\ req[r].at = "call"
    /\ \/ req[r].key \in Covers /\ (Goto(r, "write") \/ Goto(r, "mark"))
       \/ req[r].key \in Works /\ Goto(r, "answered")
       \/ Fail(r)
    /\ UNCHANGED <<store, active, mu, skipped>>

(* GetWork of the client: the work, its editions, its authors. *)
NextCall(r) ==
    /\ req[r].at = "answered" /\ req[r].call <= Authors
    /\ req' = [req EXCEPT ![r].at = "limit", ![r].call = @ + 1]
    /\ UNCHANGED <<store, active, mu, skipped>>

(* SaveWork: one transaction, whose error is dropped. *)
SaveWork(r) ==
    /\ req[r].at = "answered" /\ req[r].call > Authors
    /\ work' \in {work, [work EXCEPT ![req[r].key] = "fresh"]}
    /\ End(r)
    /\ UNCHANGED <<row, file, temp, active, mu, skipped>>

(* MarkMissing: an upsert, whose error is dropped. *)
MarkMissing(r) ==
    /\ req[r].at = "mark"
    /\ row' \in {row, [row EXCEPT ![req[r].key] = "missing"]}
    /\ End(r)
    /\ UNCHANGED <<file, temp, work, active, mu, skipped>>

-----------------------------------------------------------------------------
(* SaveCover. *)

(* The format check, and the beginning of the write of a temporary file.   *)
(* Bytes that fail the check are answered as they are.                     *)
WriteTemp(r) ==
    /\ req[r].at = "write"
    /\ \/ temp' = [temp EXCEPT ![tmpPath(r)] = "torn"] /\ Goto(r, "writing")
       \/ UNCHANGED temp /\ End(r)
    /\ UNCHANGED <<row, file, work, active, mu, skipped>>

(* The end of the write.  A failed one leaves the file behind, under a     *)
(* name that is never drawn again: it is no longer a temporary of anyone.  *)
Written(r) ==
    /\ req[r].at = "writing"
    /\ \/ temp' = [temp EXCEPT ![tmpPath(r)] = "whole"] /\ Goto(r, "rename")
       \/ temp' = [temp EXCEPT ![tmpPath(r)] = "none"] /\ End(r)
    /\ UNCHANGED <<row, file, work, active, mu, skipped>>

(* Rename, which replaces what another request may have put there; after a *)
(* failure the temporary file is removed.                                  *)
Rename(r) ==
    /\ req[r].at = "rename"
    /\ \/ /\ temp[tmpPath(r)] # "none"
          /\ file' = [file EXCEPT ![req[r].key] = temp[tmpPath(r)]]
          /\ Goto(r, "insert")
       \/ UNCHANGED file /\ End(r)
    /\ temp' = [temp EXCEPT ![tmpPath(r)] = "none"]
    /\ UNCHANGED <<row, work, active, mu, skipped>>

(* The upsert of the row; its error is only logged. *)
Insert(r) ==
    /\ req[r].at = "insert"
    /\ row' \in {row, [row EXCEPT ![req[r].key] = "image"]}
    /\ Goto(r, "evict")
    /\ UNCHANGED <<file, temp, work, active, mu, skipped>>

(* evictIfNeeded, from the lock to the deferred unlock. *)
Lock(r) ==
    /\ req[r].at = "evict" /\ mu = None
    /\ mu' = r
    /\ Goto(r, "total")
    /\ UNCHANGED <<store, active, skipped>>

(* The sum of the sizes: within the limit, over it, or not to be had. *)
Total(r) ==
    /\ req[r].at = "total"
    /\ \/ /\ Cardinality(Cached) <= MaxCovers
          /\ Goto(r, "unlock") /\ skipped' = FALSE
       \/ /\ Cardinality(Cached) > MaxCovers
          /\ req' = [req EXCEPT ![r].at = "choose", ![r].over = Cardinality(Cached) - MaxCovers]
          /\ UNCHANGED skipped
       \/ Goto(r, "unlock") /\ skipped' = TRUE
    /\ UNCHANGED <<store, active, mu>>

(* Mutant: the pass is content with one cover too many. *)
ChooseOneLess(r) ==
    /\ req[r].at = "choose"
    /\ \E S \in SUBSET Cached :
          /\ Cardinality(S) < req[r].over
          /\ req' = [req EXCEPT ![r].at = "remove", ![r].victims = S]
          /\ skipped' = (S # Cached /\ Cardinality(S) + 1 < req[r].over)
    /\ UNCHANGED <<store, active, mu>>

(* The candidates, from a second statement: as many of the rows there are  *)
(* now as bring the sum back to the limit, or fewer when it fails.         *)
Choose(r) ==
    /\ req[r].at = "choose"
    /\ \E S \in SUBSET Cached :
          /\ Cardinality(S) <= req[r].over
          /\ req' = [req EXCEPT ![r].at = "remove", ![r].victims = S]
          /\ skipped' = (S # Cached /\ Cardinality(S) < req[r].over)
    /\ UNCHANGED <<store, active, mu>>

(* A candidate's file goes first, or stays because its removal fails, then *)
(* its row; the request's own key is not needed any more.                  *)
RemoveFile(r, c) ==
    /\ req[r].at = "remove" /\ c \in req[r].victims
    /\ file' \in {file, [file EXCEPT ![c] = "none"]}
    /\ req' = [req EXCEPT ![r].at = "delete", ![r].key = c]
    /\ UNCHANGED <<row, temp, work, active, mu, skipped>>

DeleteRow(r) ==
    /\ req[r].at = "delete"
    /\ \/ row' = [row EXCEPT ![req[r].key] = "none"] /\ UNCHANGED skipped
       \/ UNCHANGED row /\ skipped' = TRUE
    /\ req' = [req EXCEPT ![r].at = "remove", ![r].victims = @ \ {req[r].key}]
    /\ UNCHANGED <<file, temp, work, active, mu>>

EndOfPass(r) ==
    /\ req[r].at = "remove" /\ req[r].victims = {}
    /\ Goto(r, "unlock")
    /\ UNCHANGED <<store, active, mu, skipped>>

(* Mutant: an early return without the deferred unlock. *)
UnlockForgotten(r) ==
    /\ req[r].at = "unlock"
    /\ mu' \in {None, mu}
    /\ End(r)
    /\ UNCHANGED <<store, active, skipped>>

Unlock(r) ==
    /\ req[r].at = "unlock"
    /\ mu' = None
    /\ End(r)
    /\ UNCHANGED <<store, active, skipped>>

-----------------------------------------------------------------------------
(* The process dies and starts again.  Rows and files stay; nothing looks  *)
(* at the temporary files any more.                                        *)
Crash ==
    /\ temp' = [n \in DOMAIN temp |-> "none"]
    /\ req' = [r \in Requests |-> Idle]
    /\ active' = 0
    /\ mu' = None
    /\ skipped' = TRUE
    /\ UNCHANGED <<row, file, work>>

Init ==
    /\ row = [c \in Covers |-> "none"]
    /\ file = [c \in Covers |-> "none"]
    /\ temp = [n \in Requests \cup Covers |-> "none"]
    /\ work = [w \in Works |-> "none"]
    /\ active = 0
    /\ mu = None
    /\ skipped = FALSE
    /\ req = [r \in Requests |-> Idle]

(* The steps of a request once it has begun. *)
Go(r) ==
    \/ Stat(r)
    \/ Enter(r) \/ TurnAway(r) \/ Leave(r) \/ Answer(r) \/ NextCall(r)
    \/ SaveWork(r) \/ MarkMissing(r)
    \/ WriteTemp(r) \/ Written(r) \/ Rename(r) \/ Insert(r)
    \/ Total(r) \/ Choose(r) \/ (\E c \in Covers : RemoveFile(r, c)) \/ DeleteRow(r) \/ EndOfPass(r)
    \/ Unlock(r)

Next ==
    \/ \E r \in Requests :
          \/ \E c \in Covers : GetCover(r, c)
          \/ \E w \in Works : GetWork(r, w)
          \/ Search(r)
          \/ Go(r)
          \/ Lock(r)
    \/ \E w \in Works : Age(w)
    \/ Crash

Spec == Init /\ [][Next]_vars

(* A request that can go on does.  Calls and waits have timeouts; the      *)
(* statements run under the context of the request, which has no deadline, *)
(* so that they end is an assumption on PostgreSQL: it answers, or the     *)
(* connection is lost.  A Go mutex hands itself over to a waiter that      *)
(* starves.                                                                *)
FairSpec == Spec /\ \A r \in Requests : WF_vars(Go(r)) /\ SF_vars(Lock(r))

-----------------------------------------------------------------------------
(* Shapes of rows, files and requests; the pass is made under the mutex.   *)
TypeOK ==
    /\ row \in [Covers -> {"none", "missing", "image"}]
    /\ file \in [Covers -> {"none", "whole", "torn"}]
    /\ temp \in [Requests \cup Covers -> {"none", "whole", "torn"}]
    /\ work \in [Works -> {"none", "fresh", "stale"}]
    /\ active \in Nat /\ skipped \in BOOLEAN
    /\ req \in [Requests -> Request]
    /\ \A r \in Requests :
          mu = r <=> req[r].at \in {"total", "choose", "remove", "delete", "unlock"}

(* The limiter's counter is the number of requests inside Wait, and no     *)
(* more of them wait for a token than waiterCap: a request that was turned *)
(* away or gave up is not counted for ever (ratelimit.go:37-68).           *)
WaitersAreCounted ==
    /\ active = Cardinality(Waiting)
    /\ Cardinality({r \in Requests : req[r].at = "wait"}) <= WaiterCap

(* A file under a cover's name is a whole image, whatever requests save    *)
(* the same cover at once and wherever the process dies                    *)
(* (cover_cache_repository.go:147-165).                                    *)
CoverFilesAreWhole == \A c \in Covers : file[c] # "torn"

(* The requests in their eviction pass, or about to make one. *)
Evicting == {r \in Requests : req[r].at \in {"evict", "total", "choose", "remove", "delete"}}

(* More images are recorded than fit only while a request that saved one   *)
(* has its eviction pass before it, unless a statement of a pass failed or *)
(* the process died since: evictIfNeeded leaves nothing over to wait for   *)
(* the next save (cover_cache_repository.go:221-273).                      *)
OverLimitIsNoticed == Cardinality(Cached) > MaxCovers => skipped \/ Evicting # {}

(* Another pass comes after the one under way. *)
SavedSince == \E p \in Requests : req[p].at = "evict"

(* What holds of a request on its way through SaveCover: it renames a      *)
(* whole temporary file, its pass found the limit exceeded by no less than *)
(* it is now, and its candidates, once gone, bring the sum back under it.  *)
Saves(r) ==
    /\ req[r].at = "rename" => temp[tmpPath(r)] # "torn"
    /\ req[r].at = "choose" => SavedSince \/ Cardinality(Cached) <= MaxCovers + req[r].over
    /\ req[r].at \in {"remove", "delete"} =>
          skipped \/ SavedSince \/ Cardinality(Cached \ req[r].victims) <= MaxCovers
    /\ req[r].at = "delete" => req[r].key \in req[r].victims

(* The inductive invariant: the limiter's counter is exact, files are      *)
(* whole, and an eviction pass does what it set out to do while others     *)
(* save, mark and wait (ratelimit.go:37-68,                                *)
(* cover_cache_repository.go:124-273).                                     *)
DiscoverInvariant ==
    /\ TypeOK
    /\ WaitersAreCounted
    /\ CoverFilesAreWhole
    /\ OverLimitIsNoticed
    /\ \A r \in Requests : Saves(r)

(* Every request is answered, whoever else holds the cache's mutex or      *)
(* stands in the limiter's queue.                                          *)
EveryRequestIsAnswered == \A r \in Requests : req[r].at # "idle" ~> req[r].at = "idle"

=============================================================================
