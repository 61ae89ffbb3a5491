------------------------------ MODULE Sources ------------------------------
(***************************************************************************)
(* Source management (transport/http/sources.go, persistence/postgres/     *)
(* sources.go) over its providers (adapters/sources/opds, local).  A       *)
(* handler reads the source's row once, works from that copy while it      *)
(* talks to the remote catalogue, and writes single columns back with      *)
(* plain UPDATEs; other handlers run in between.  Outbound calls share one *)
(* counting semaphore.                                                     *)
(*                                                                         *)
(* A base URL, a search link and a continuation link are abstracted to     *)
(* their origins.  A stored credential is the number of the key it was     *)
(* encrypted with, 0 when there is none.                                   *)
(***************************************************************************)
EXTENDS Naturals, FiniteSets

CONSTANTS
    SourceIds,  \* ids the generator hands out
    Requests,   \* concurrent HTTP requests
    Origins,    \* origins of remote catalogues
    None,
    Cap,        \* slots of the semaphore
    MaxKeys     \* key files generated over the history

ASSUME SourcesAssumption ==
    /\ Cap \in Nat \ {0} /\ MaxKeys \in Nat \ {0}
    /\ IsFiniteSet(Requests)
    /\ None \notin SourceIds \cup Origins

VARIABLES
    row,      \* rows of sources
    removed,  \* ids of the sources that were deleted
    req,      \* requests in progress
    slots,    \* slots taken in the semaphore
    cursors,  \* the continuation token a client has kept, if any
    key       \* the credential key in use

vars == <<row, removed, req, slots, cursors, key>>

Kinds == {"local-folder", "opds"}

Keys == 0..MaxKeys

Row == [kind : Kinds, base : Origins, link : Origins \cup {None}, cred : Keys]

Ops == {"create", "patch", "check", "browse", "search"}

ASSUME NoneAssumption == None \notin Row /\ None \notin Ops

Request == [op : Ops \cup {None},
            at : {"idle", "patch", "credential", "probe", "list", "root", "description",
                  "describe", "record"},
            id : SourceIds \cup {None}, copy : Row \cup {None},
            url : Origins \cup {None}, link : Origins \cup {None}]

Idle == [op |-> None, at |-> "idle", id |-> None, copy |-> None, url |-> None, link |-> None]

(* A request that has begun to work on a copy of a source. *)
Begun(op, at, id, copy) ==
    [op |-> op, at |-> at, id |-> id, copy |-> copy, url |-> None, link |-> None]

Reading == {"browse", "search"}

(* The requests inside httpClient.get. *)
Calling == {r \in Requests : req[r].at \in {"root", "describe"}}

(* Scheme, host and port are one value here. *)
SameOrigin(configured, candidate) == configured = candidate

(* A link of a feed, unless it leaves the catalogue's origin. *)
resolveSameOrigin(base, href) == IF SameOrigin(base, href) THEN href ELSE None

Goto(r, at) == [req EXCEPT ![r].at = at]

Answer(r) == [req EXCEPT ![r] = Idle]

-----------------------------------------------------------------------------
(* Handlers up to the first outbound call. *)

(* POST /sources: nothing is stored until the probe has answered. *)
Create(r, id, k, o, c) ==
    /\ req[r].at = "idle"
    /\ row[id] = None /\ id \notin removed
    /\ \A q \in Requests : req[q].id # id
    /\ k = "local-folder" => c = 0
    /\ c \in {0, key}
    /\ req' = [req EXCEPT ![r] = Begun("create", "probe", id,
                                       [kind |-> k, base |-> o, link |-> None, cred |-> c])]
    /\ UNCHANGED <<row, removed, slots, cursors, key>>

(* Get: the copy the handler works from. *)
Read(r, op, id, at) ==
    /\ req[r].at = "idle"
    /\ row[id] # None
    /\ req' = [req EXCEPT ![r] = Begun(op, at, id, row[id])]
    /\ UNCHANGED <<row, removed, slots, cursors, key>>

(* What a PATCH, a health check, a browse and a search do first. *)
Patch(r, id) == Read(r, "patch", id, "patch")
CheckHealth(r, id) == Read(r, "check", id, "probe")
Browse(r, id) == Read(r, "browse", id, "list")
Search(r, id) == Read(r, "search", id, "list")

(* PATCH writes the configuration first. *)
UpdateConfig(r, o) ==
    LET id == req[r].id IN
    /\ req[r].at = "patch"
    /\ row[id] # None
    /\ row' = [row EXCEPT ![id].base = o]
    /\ req' = [req EXCEPT ![r].at = "credential", ![r].copy.base = o]
    /\ UNCHANGED <<removed, slots, cursors, key>>

(* Then, when the request has one, the credential. *)
SetCredential(r) ==
    LET id == req[r].id IN
    /\ req[r].at = "credential"
    /\ req[r].copy.kind = "opds"
    /\ row[id] # None
    /\ row' = [row EXCEPT ![id].cred = key]
    /\ req' = [req EXCEPT ![r].at = "probe", ![r].copy.cred = key]
    /\ UNCHANGED <<removed, slots, cursors, key>>

KeepCredential(r) ==
    /\ req[r].at = "credential"
    /\ req' = Goto(r, "probe")
    /\ UNCHANGED <<row, removed, slots, cursors, key>>

(* Mutant: a credential that does not decrypt is passed over. *)
ReadableOrIgnored(copy) == copy.cred \in Keys

(* A stored credential decrypts under the key it was encrypted with. *)
Readable(copy) == copy.cred \in {0, key}

(* The request ends without a call: NotFound, a refused body, an           *)
(* unreadable credential, a cursor that is not this source's, or no slot.  *)
(* What a PATCH has written by then stays.                                 *)
Refuse(r) ==
    /\ req[r].at \in {"patch", "credential", "probe", "list"}
    /\ req' = Answer(r)
    /\ UNCHANGED <<row, removed, slots, cursors, key>>

-----------------------------------------------------------------------------
(* Outbound calls. *)

(* Semaphore.TryAcquire, and the slot it takes for the call. *)
TryAcquire(r, url) ==
    /\ slots < Cap
    /\ slots' = slots + 1
    /\ req' = [req EXCEPT ![r].at = "root", ![r].url = url]

(* Mutant: an early return keeps the slot. *)
ReleaseForgotten == slots' \in {slots, slots - 1}

Release == slots' = slots - 1

(* Probe of a catalogue fetches its root feed.  Only a health check minds  *)
(* a credential it cannot read; a PATCH probes without it.                 *)
ProbeCall(r) ==
    /\ req[r].at = "probe" /\ req[r].copy.kind = "opds"
    /\ req[r].op = "check" => Readable(req[r].copy)
    /\ TryAcquire(r, req[r].copy.base)
    /\ UNCHANGED <<row, removed, cursors, key>>

(* Probe without a call: a folder, which has no search; no slot left; a    *)
(* health check whose credential is unreadable, reported as auth-rejected. *)
ProbeLocally(r) ==
    /\ req[r].at = "probe"
    /\ \/ req[r].copy.kind = "local-folder"
       \/ slots = Cap
       \/ req[r].op = "check" /\ ~Readable(req[r].copy)
    /\ req' = Goto(r, "record")
    /\ UNCHANGED <<row, removed, slots, cursors, key>>

(* detectSearch: the feed's search link is used when it is of the base's   *)
(* origin; with OPDS 1.2 it is a document to fetch first, in a slot of its *)
(* own.  A feed that cannot be had or read leaves no capabilities.         *)
ProbeAnswer(r) ==
    /\ req[r].at = "root" /\ req[r].op \notin Reading
    /\ Release
    /\ \E href \in Origins \cup {None} :
          LET link == resolveSameOrigin(req[r].copy.base, href) IN
          \/ req' = [req EXCEPT ![r].at = "record", ![r].link = link]
          \/ link # None /\ req' = Goto(r, "description")
    /\ UNCHANGED <<row, removed, cursors, key>>

DescribeCall(r) ==
    /\ req[r].at = "description"
    /\ IF slots < Cap
       THEN slots' = slots + 1 /\ req' = Goto(r, "describe")
       ELSE UNCHANGED slots /\ req' = Goto(r, "record")
    /\ UNCHANGED <<row, removed, cursors, key>>

DescribeAnswer(r) ==
    /\ req[r].at = "describe"
    /\ Release
    /\ \E template \in Origins \cup {None} :
          req' = [req EXCEPT ![r].at = "record",
                             ![r].link = resolveSameOrigin(req[r].copy.base, template)]
    /\ UNCHANGED <<row, removed, cursors, key>>

(* POST ends with the insertion of the row, probed or not. *)
InsertSource(r) ==
    /\ req[r].at = "record" /\ req[r].op = "create"
    /\ row' = [row EXCEPT ![req[r].id] = [req[r].copy EXCEPT !.link = req[r].link]]
    /\ req' = Answer(r)
    /\ UNCHANGED <<removed, slots, cursors, key>>

(* UpdateHealth: health, capabilities and search link of the row it still  *)
(* finds.                                                                  *)
UpdateHealth(r) ==
    LET id == req[r].id IN
    /\ req[r].at = "record" /\ req[r].op # "create"
    /\ row[id] # None
    /\ row' = [row EXCEPT ![id].link = req[r].link]
    /\ req' = Answer(r)
    /\ UNCHANGED <<removed, slots, cursors, key>>

(* A statement fails or finds no row: the probe is not recorded. *)
RecordFails(r) ==
    /\ req[r].at = "record"
    /\ req' = Answer(r)
    /\ UNCHANGED <<row, removed, slots, cursors, key>>

(* CursorCodec.Decode and ForOPDSPosition: the signature, the source and   *)
(* the origin of a continuation link.                                      *)
Decodes(c, r) == c.key = key /\ c.id = req[r].id /\ SameOrigin(req[r].copy.base, c.origin)

(* List: the base URL, or a continuation link. *)
ListCall(r) ==
    LET copy == req[r].copy IN
    /\ req[r].at = "list" /\ req[r].op = "browse"
    /\ copy.kind = "opds" /\ Readable(copy)
    /\ \E url \in {copy.base} \cup {c.origin : c \in {d \in cursors : Decodes(d, r)}} :
          TryAcquire(r, url)
    /\ UNCHANGED <<row, removed, cursors, key>>

(* Mutant: the link was validated when it was stored, so it is used as is. *)
SearchCallUnchecked(r) ==
    LET copy == req[r].copy IN
    /\ req[r].at = "list" /\ req[r].op = "search"
    /\ copy.kind = "opds" /\ Readable(copy)
    /\ copy.link # None
    /\ \E url \in {copy.link} \cup {c.origin : c \in {d \in cursors : Decodes(d, r)}} :
          TryAcquire(r, url)
    /\ UNCHANGED <<row, removed, cursors, key>>

(* Search: the stored search link, or a continuation link, and only of the *)
(* base's origin: the link may have been recorded for an earlier base.     *)
SearchCall(r) ==
    LET copy == req[r].copy IN
    /\ req[r].at = "list" /\ req[r].op = "search"
    /\ copy.kind = "opds" /\ Readable(copy)
    /\ copy.link # None
    /\ \E url \in {copy.link} \cup {c.origin : c \in {d \in cursors : Decodes(d, r)}} :
          SameOrigin(copy.base, url) /\ TryAcquire(r, url)
    /\ UNCHANGED <<row, removed, cursors, key>>

(* normalise: the page has a token when the feed has a continuation link   *)
(* of the base's origin.                                                   *)
normalise(r, next) ==
    IF resolveSameOrigin(req[r].copy.base, next) = None THEN cursors
    ELSE {[id |-> req[r].id, origin |-> next, key |-> key]}

(* The page; or an error, which has no link either. *)
ListAnswer(r) ==
    /\ req[r].at = "root" /\ req[r].op \in Reading
    /\ Release
    /\ \E next \in Origins \cup {None} : cursors' = normalise(r, next)
    /\ req' = Answer(r)
    /\ UNCHANGED <<row, removed, key>>

(* The listing of a folder, whose tokens hold a file name and no link. *)
ListLocally(r) ==
    /\ req[r].at = "list" /\ req[r].copy.kind = "local-folder"
    /\ req' = Answer(r)
    /\ UNCHANGED <<row, removed, slots, cursors, key>>

-----------------------------------------------------------------------------
(* DELETE: Get, then the removal transaction. *)
Delete(id) ==
    /\ row[id] # None
    /\ row' = [row EXCEPT ![id] = None]
    /\ removed' = removed \cup {id}
    /\ UNCHANGED <<req, slots, cursors, key>>

(* The server restarts; LoadOrCreateKey reads the key file, or makes a new *)
(* one when it is gone.                                                    *)
Restart ==
    /\ key' \in {k \in {key, key + 1} : k <= MaxKeys}
    /\ req' = [r \in Requests |-> Idle]
    /\ slots' = 0
    /\ UNCHANGED <<row, removed, cursors>>

Init ==
    /\ row = [id \in SourceIds |-> None]
    /\ removed = {}
    /\ req = [r \in Requests |-> Idle]
    /\ slots = 0
    /\ cursors = {}
    /\ key = 1

Handle(r) ==
    \/ \E id \in SourceIds, k \in Kinds, o \in Origins, c \in Keys : Create(r, id, k, o, c)
    \/ \E id \in SourceIds : Patch(r, id) \/ CheckHealth(r, id) \/ Browse(r, id) \/ Search(r, id)
    \/ \E o \in Origins : UpdateConfig(r, o)
    \/ SetCredential(r)
    \/ KeepCredential(r)
    \/ Refuse(r)
    \/ ProbeCall(r)
    \/ ProbeLocally(r)
    \/ ProbeAnswer(r)
    \/ DescribeCall(r)
    \/ DescribeAnswer(r)
    \/ InsertSource(r)
    \/ UpdateHealth(r)
    \/ RecordFails(r)
    \/ ListCall(r)
    \/ SearchCall(r)
    \/ ListAnswer(r)
    \/ ListLocally(r)

Next ==
    \/ \E r \in Requests : Handle(r)
    \/ \E id \in SourceIds : Delete(id)
    \/ Restart

Spec == Init /\ [][Next]_vars

-----------------------------------------------------------------------------
(* Rows, requests and tokens have their shapes, and the semaphore never    *)
(* holds more than its capacity.                                           *)
TypeOK ==
    /\ row \in [SourceIds -> Row \cup {None}]
    /\ removed \subseteq SourceIds
    /\ req \in [Requests -> Request]
    /\ slots \in 0..Cap
    /\ cursors \subseteq [id : SourceIds, origin : Origins, key : Keys]
    /\ key \in 1..MaxKeys

(* The slots taken are those of the calls in progress: none leaks on an    *)
(* error path and none is given back twice.                                *)
SlotsAreOfCalls == slots = Cardinality(Calling)

(* Every call goes to the origin of the base URL the request works with,   *)
(* however old the search link or the continuation link it follows.        *)
CallsStayOnOrigin == \A r \in Calling : req[r].url = req[r].copy.base

(* A health check, a browse or a search of a source with a credential      *)
(* calls it with that credential or not at all.                            *)
CredentialIsSent ==
    \A r \in Calling : req[r].op \in {"check"} \cup Reading => req[r].copy.cred \in {0, key}

(* A deleted source stays deleted: no probe or PATCH in flight brings its  *)
(* row back.                                                               *)
RemovedStaysRemoved == \A id \in removed : row[id] = None

(* What a request knows at each step: a call keeps its origin and its      *)
(* credential until it is answered, and the source that is being created   *)
(* has no row yet.                                                         *)
KnowsItsSource(q) ==
    /\ q.at = "idle" => q = Idle
    /\ q.at # "idle" => q.op \in Ops /\ q.id \in SourceIds /\ q.copy \in Row
    /\ q.at \in {"patch", "credential", "probe"} => q.op \notin Reading
    /\ q.at \in {"root", "description", "describe"} =>
          /\ q.url = q.copy.base
          /\ q.op \in {"check"} \cup Reading => q.copy.cred \in {0, key}
    /\ q.op = "create" => q.id \notin removed /\ row[q.id] = None

(* The invariant every statement keeps: the properties above, and that the *)
(* id of a source that is being created is nobody else's (sources.go,      *)
(* CreateSourceHandler).                                                   *)
SourcesInvariant ==
    /\ TypeOK
    /\ \A r \in Requests : KnowsItsSource(req[r])
    /\ \A r, s \in Requests : r # s /\ req[r].op = "create" => req[s].id # req[r].id
    /\ SlotsAreOfCalls
    /\ RemovedStaysRemoved

=============================================================================
