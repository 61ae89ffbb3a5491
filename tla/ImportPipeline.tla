--------------------------- MODULE ImportPipeline ---------------------------
(***************************************************************************)
(* From a source's files to the library: discovery                         *)
(* (importer/discovery.go), the handler of an import job (job.go,          *)
(* matching.go), the review of a candidate over HTTP (service.go,          *)
(* transport/http/import.go) and the removal of a source                   *)
(* (domain/source_removal_service.go), each a process of its own, meeting  *)
(* in the tables of the database.                                          *)
(*                                                                         *)
(* A step is one statement or one transaction.  A transaction is one step  *)
(* because the rows it writes, and through their foreign keys the source   *)
(* and the edition they point at, stay locked from the first write to the  *)
(* commit: another transaction sees all of it or nothing.  What a handler  *)
(* read in an earlier statement may have changed by the time it writes.    *)
(* All files have one format, so an offering is keyed by source and        *)
(* edition.  Jobs follow JobQueue: a job is run again while it is ready,   *)
(* two runs of one job may overlap after a lost lease, and only the result *)
(* of the newest run counts for the job.                                   *)
(***************************************************************************)
EXTENDS Naturals, FiniteSets

CONSTANTS
    Sources,      \* registered sources
    Files,        \* the files each source lists
    Candidates,   \* ids of import candidates
    Discoveries,  \* concurrent POST /import/discover requests
    Runs,         \* concurrent executions of import jobs
    Reviews,      \* concurrent confirm and reject requests
    OwnedEdition, \* an edition in the library at the start
    NewEditions,  \* ids of the editions that confirmations create
    None,
    MaxTries      \* maxAttempts of kind "import"

ASSUME ImportAssumption == None \notin Sources /\ MaxTries \in Nat

VARIABLES
    sources,      \* rows of sources
    cand,         \* rows of import_candidates
    offerings,    \* rows of source_offerings
    madeFor,      \* the candidate a new edition was created for
    entries,      \* editions with a row in library_entries
    job,          \* the import job of each candidate
    discovery, run, review,
    raced         \* two discoveries of one source have overlapped

db == <<sources, cand, offerings, madeFor, entries>>

vars == <<db, job, discovery, run, review, raced>>

Editions == {OwnedEdition} \cup NewEditions

Status == {"queued", "pending", "auto_imported", "confirmed", "rejected", "failed"}

Imported == {"auto_imported", "confirmed"}

Row == [source : Sources, file : Files, status : Status, meta : BOOLEAN]

Offering == [source : Sources, edition : Editions, file : Files]

JobRow == [state : {"none", "ready", "done"}, tries : 0..MaxTries, run : Runs \cup {None},
           source : Sources \cup {None}, file : Files \cup {None}]

DiscoveryRequest == [at : {"idle", "check", "enqueue", "create"}, source : Sources \cup {None},
                     todo : SUBSET Files, file : Files \cup {None}, cand : Candidates \cup {None}]

Execution == [at : {"idle", "resolve", "match", "persist"}, cand : Candidates \cup {None},
              hit : Editions \cup {None}]

ReviewRequest == [at : {"idle", "decide"}, cand : Candidates \cup {None}, read : Row \cup {None}]

IdleDiscovery == [at |-> "idle", source |-> None, todo |-> {}, file |-> None, cand |-> None]

IdleRun == [at |-> "idle", cand |-> None, hit |-> None]

IdleReview == [at |-> "idle", cand |-> None, read |-> None]

Exists(c) == cand[c] # None

Known == {OwnedEdition} \cup {e \in NewEditions : madeFor[e] # None}

-----------------------------------------------------------------------------
(* The statements on the candidates, and what they refuse. *)

(* A provider is built from the row of its source. *)
ProviderFor(s) == s \in sources

(* Create: the foreign key refuses a source that is gone. *)
Create(c, s, f) ==
    /\ s \in sources
    /\ cand' = [cand EXCEPT ![c] = [source |-> s, file |-> f, status |-> "queued", meta |-> FALSE]]

UpdateStatus(c, status) ==
    /\ Exists(c)
    /\ cand' = [cand EXCEPT ![c].status = status]

UpdateExtractedAndMatches(c) ==
    /\ Exists(c)
    /\ cand' = [cand EXCEPT ![c] = [@ EXCEPT !.status = "pending", !.meta = TRUE]]

(* The editions a book's ISBN may find: those with a library entry. *)
FindOwnedByISBN == entries

-----------------------------------------------------------------------------
(* Discovery. *)

DiscoverBegin(d, s) ==
    /\ discovery[d].at = "idle"
    /\ s \in sources
    /\ discovery' = [discovery EXCEPT ![d] =
                        [IdleDiscovery EXCEPT !.at = "check", !.source = s, !.todo = Files]]
    /\ raced' = (raced \/ \E o \in Discoveries : discovery[o].source = s)
    /\ UNCHANGED <<db, job, run, review>>

(* ExistsBySourceAndFileRefID: a candidate in any status hides the file. *)
Seen(s, f) == \E c \in Candidates : Exists(c) /\ cand[c].source = s /\ cand[c].file = f

DiscoverCheck(d, f) ==
    /\ discovery[d].at = "check"
    /\ f \in discovery[d].todo
    /\ discovery' = [discovery EXCEPT ![d].todo = @ \ {f},
                                      ![d].at = IF Seen(discovery[d].source, f)
                                                THEN "check" ELSE "enqueue",
                                      ![d].file = f]
    /\ UNCHANGED <<db, job, run, review, raced>>

(* The job is enqueued first, and visible to the workers at once. *)
DiscoverEnqueue(d, c) ==
    /\ discovery[d].at = "enqueue"
    /\ job[c].state = "none"
    /\ job' = [job EXCEPT ![c] = [@ EXCEPT !.state = "ready",
                                           !.source = discovery[d].source,
                                           !.file = discovery[d].file]]
    /\ discovery' = [discovery EXCEPT ![d].at = "create", ![d].cand = c]
    /\ UNCHANGED <<db, run, review, raced>>

(* Mutant: the row is inserted whatever became of the source. *)
DiscoverCreateUnreferenced(d) ==
    /\ discovery[d].at = "create"
    /\ cand' = [cand EXCEPT ![discovery[d].cand] =
                   [source |-> discovery[d].source, file |-> discovery[d].file,
                    status |-> "queued", meta |-> FALSE]]
    /\ discovery' = [discovery EXCEPT ![d].at = "check"]
    /\ UNCHANGED <<sources, offerings, madeFor, entries, job, run, review, raced>>

(* The row follows; its foreign key refuses a source removed meanwhile. *)
DiscoverCreate(d) ==
    /\ discovery[d].at = "create"
    /\ Create(discovery[d].cand, discovery[d].source, discovery[d].file)
    /\ discovery' = [discovery EXCEPT ![d].at = "check"]
    /\ UNCHANGED <<sources, offerings, madeFor, entries, job, run, review, raced>>

(* No page is left; or, at any point, a listing or a statement fails, the  *)
(* client goes away or the server dies: what was done stays.               *)
DiscoverEnd(d) ==
    /\ discovery[d].at # "idle"
    /\ discovery' = [discovery EXCEPT ![d] = IdleDiscovery]
    /\ UNCHANGED <<db, job, run, review, raced>>

Discover(d) ==
    \/ \E s \in Sources : DiscoverBegin(d, s)
    \/ \E f \in Files : DiscoverCheck(d, f)
    \/ \E c \in Candidates : DiscoverEnqueue(d, c)
    \/ DiscoverCreate(d)
    \/ DiscoverEnd(d)

-----------------------------------------------------------------------------
(* The import job. *)

RunBegin(x, c) ==
    /\ run[x].at = "idle"
    /\ job[c].state = "ready" /\ job[c].tries < MaxTries
    /\ job' = [job EXCEPT ![c] = [@ EXCEPT !.tries = job[c].tries + 1, !.run = x]]
    /\ run' = [run EXCEPT ![x] = [at |-> "resolve", cand |-> c, hit |-> None]]
    /\ UNCHANGED <<db, discovery, review, raced>>

(* What the queue makes of the end of run x: a retry keeps the job ready. *)
Settle(x, retry) ==
    LET c == run[x].cand IN
    /\ run' = [run EXCEPT ![x] = IdleRun]
    /\ job' = IF job[c].run # x THEN job
              ELSE [job EXCEPT ![c] = [@ EXCEPT !.run = None,
                                                !.state = IF retry THEN "ready" ELSE "done"]]

(* Resolve, Materialize, DetectFormat and Extract: the source is read from *)
(* its row, then its file.                                                 *)
Extract(x) ==
    /\ run[x].at = "resolve"
    /\ ProviderFor(job[run[x].cand].source)
    /\ run' = [run EXCEPT ![x].at = "match"]
    /\ UNCHANGED <<db, job, discovery, review, raced>>

(* Match: one owned edition with the ISBN and no Open Library result is    *)
(* the automatic case; errors of either lookup count as no result.         *)
Match(x, hit) ==
    /\ run[x].at = "match"
    /\ hit \in FindOwnedByISBN \cup {None}
    /\ run' = [run EXCEPT ![x].at = "persist", ![x].hit = hit]
    /\ UNCHANGED <<db, job, discovery, review, raced>>

(* UpdateFailed, whose own error is ignored: a missing row, a cancelled    *)
(* context or a lost connection leaves the row as it is.                   *)
UpdateFailed(c) ==
    \/ UNCHANGED cand
    \/ Exists(c) /\ cand' = [cand EXCEPT ![c].status = "failed"]

(* Every error path of the handler before the last write; whether it is    *)
(* jobs.Permanent depends on the error.                                    *)
RunFails(x) ==
    /\ run[x].at # "idle"
    /\ UpdateFailed(run[x].cand)
    /\ \E retry \in BOOLEAN : Settle(x, retry)
    /\ UNCHANGED <<sources, offerings, madeFor, entries, discovery, review, raced>>

(* The process dies, or the last statement fails: nothing is written and   *)
(* the job is run again.                                                   *)
RunDies(x) ==
    /\ run[x].at # "idle"
    /\ Settle(x, TRUE)
    /\ UNCHANGED <<db, discovery, review, raced>>

(* SourceOffering.Save replaces the file of an offering it meets. *)
Offered(s, e, f) ==
    {o \in offerings : o.source # s \/ o.edition # e} \cup {[source |-> s, edition |-> e, file |-> f]}

(* LibraryService.AddEntry: an edition that has an entry keeps it. *)
AddEntry(e) == entries' = entries \cup {e}

(* Mutant: the entry is added after the transaction, and may be lost. *)
ImportIntoThenAdd(c, s, f, e, status) ==
    /\ s \in sources
    /\ offerings' = Offered(s, e, f)
    /\ entries' \in {entries, entries \cup {e}}
    /\ UpdateStatus(c, status)

(* The transaction that ends every import: the offering, the entry, the    *)
(* status.  A source, edition or candidate that is gone rolls it back.     *)
ImportInto(c, s, f, e, status) ==
    /\ s \in sources
    /\ offerings' = Offered(s, e, f)
    /\ AddEntry(e)
    /\ UpdateStatus(c, status)

AutoImport(x) ==
    LET c == run[x].cand IN
    /\ run[x].at = "persist" /\ run[x].hit # None
    /\ ImportInto(c, job[c].source, job[c].file, run[x].hit, "auto_imported")
    /\ Settle(x, FALSE)
    /\ UNCHANGED <<sources, madeFor, discovery, review, raced>>

(* UpdateExtractedAndMatches; without a row it is an error, and a retry. *)
Propose(x) ==
    LET c == run[x].cand IN
    /\ run[x].at = "persist" /\ run[x].hit = None
    /\ UpdateExtractedAndMatches(c)
    /\ Settle(x, FALSE)
    /\ UNCHANGED <<sources, offerings, madeFor, entries, discovery, review, raced>>

Import(x) ==
    \/ \E c \in Candidates : RunBegin(x, c)
    \/ Extract(x)
    \/ \E hit \in Editions \cup {None} : Match(x, hit)
    \/ AutoImport(x)
    \/ Propose(x)
    \/ RunFails(x)
    \/ RunDies(x)

-----------------------------------------------------------------------------
(* Review. *)

(* Confirm* and Reject read the candidate and refuse one that is not       *)
(* pending.  The handler's own reads before that decide nothing more: the  *)
(* metadata of a new work may also come with the request.                  *)
ReviewRead(v, c) ==
    /\ review[v].at = "idle"
    /\ Exists(c) /\ cand[c].status = "pending"
    /\ review' = [review EXCEPT ![v] = [at |-> "decide", cand |-> c, read |-> cand[c]]]
    /\ UNCHANGED <<db, job, discovery, run, raced>>

ReviewDone(v) ==
    /\ review[v].at = "decide"
    /\ review' = [review EXCEPT ![v] = IdleReview]
    /\ UNCHANGED <<sources, job, discovery, run, raced>>

ConfirmAttachExisting(v, e) ==
    LET c == review[v].cand  r == review[v].read IN
    /\ ReviewDone(v)
    /\ e \in Known
    /\ ImportInto(c, r.source, r.file, e, "confirmed")
    /\ UNCHANGED madeFor

(* Mutant: the work and the edition are saved before the transaction. *)
ConfirmCreateNewInTwo(v, e) ==
    LET c == review[v].cand  r == review[v].read IN
    /\ ReviewDone(v)
    /\ madeFor[e] = None
    /\ madeFor' = [madeFor EXCEPT ![e] = c]
    /\ \/ ImportInto(c, r.source, r.file, e, "confirmed")
       \/ UNCHANGED <<cand, offerings, entries>>

(* A work and an edition of fresh ids, made in the same transaction.       *)
ConfirmCreateNew(v, e) ==
    LET c == review[v].cand  r == review[v].read IN
    /\ ReviewDone(v)
    /\ madeFor[e] = None
    /\ madeFor' = [madeFor EXCEPT ![e] = c]
    /\ ImportInto(c, r.source, r.file, e, "confirmed")

(* The same transaction with title, authors and language from an Open      *)
(* Library record the handler looked up before.                            *)
ConfirmOpenLibraryMatch(v, e) == ConfirmCreateNew(v, e)

Reject(v) ==
    /\ ReviewDone(v)
    /\ UpdateStatus(review[v].cand, "rejected")
    /\ UNCHANGED <<offerings, madeFor, entries>>

(* A row is gone, or the transaction fails: rolled back. *)
ReviewFails(v) ==
    /\ ReviewDone(v)
    /\ UNCHANGED <<cand, offerings, madeFor, entries>>

Review(v) ==
    \/ \E c \in Candidates : ReviewRead(v, c)
    \/ \E e \in Editions : ConfirmAttachExisting(v, e)
    \/ \E e \in NewEditions : ConfirmCreateNew(v, e) \/ ConfirmOpenLibraryMatch(v, e)
    \/ Reject(v)
    \/ ReviewFails(v)

-----------------------------------------------------------------------------
(* SourceRemovalService.Remove, one transaction: the offerings, the source *)
(* and, by ON DELETE CASCADE, its candidates; no library entry.            *)
RemoveSource(s) ==
    /\ s \in sources
    /\ sources' = sources \ {s}
    /\ offerings' = {o \in offerings : o.source # s}
    /\ cand' = [c \in Candidates |-> IF Exists(c) /\ cand[c].source = s THEN None ELSE cand[c]]
    /\ UNCHANGED <<madeFor, entries, job, discovery, run, review, raced>>

Init ==
    /\ sources = Sources
    /\ cand = [c \in Candidates |-> None]
    /\ offerings = {}
    /\ madeFor = [e \in NewEditions |-> None]
    /\ entries = {OwnedEdition}
    /\ job = [c \in Candidates |-> [state |-> "none", tries |-> 0, run |-> None,
                                    source |-> None, file |-> None]]
    /\ discovery = [d \in Discoveries |-> IdleDiscovery]
    /\ run = [x \in Runs |-> IdleRun]
    /\ review = [v \in Reviews |-> IdleReview]
    /\ raced = FALSE

Next ==
    \/ \E d \in Discoveries : Discover(d)
    \/ \E x \in Runs : Import(x)
    \/ \E v \in Reviews : Review(v)
    \/ \E s \in Sources : RemoveSource(s)

Spec == Init /\ [][Next]_vars

-----------------------------------------------------------------------------
(* Rows, jobs and requests have their shapes, and a file is offered for an *)
(* edition that exists.                                                    *)
TypeOK ==
    /\ sources \subseteq Sources
    /\ cand \in [Candidates -> Row \cup {None}]
    /\ offerings \subseteq Offering
    /\ madeFor \in [NewEditions -> Candidates \cup {None}]
    /\ entries \subseteq Editions
    /\ job \in [Candidates -> JobRow]
    /\ discovery \in [Discoveries -> DiscoveryRequest]
    /\ run \in [Runs -> Execution]
    /\ review \in [Reviews -> ReviewRequest]
    /\ raced \in BOOLEAN

(* A candidate that says it was imported has its book: an edition of the   *)
(* library that its source offers, whatever jobs, reviews and removals     *)
(* happened since.                                                         *)
ImportedIsOwned ==
    \A c \in Candidates :
        Exists(c) /\ cand[c].status \in Imported =>
            \E o \in offerings : o.source = cand[c].source /\ o.edition \in entries

(* An edition made for a candidate is whole: it is in the library, and     *)
(* while its source is registered the source offers it.                    *)
NoHalfImport ==
    \A e \in NewEditions :
        madeFor[e] # None =>
            /\ e \in entries
            /\ job[madeFor[e]].source \in sources =>
                 \E o \in offerings : o.edition = e /\ o.source = job[madeFor[e]].source

(* Nothing refers to a removed source: no discovery, job or review in      *)
(* flight brings back a candidate or an offering of it.                    *)
NothingOfARemovedSource ==
    /\ \A c \in Candidates : Exists(c) => cand[c].source \in sources
    /\ \A o \in offerings : o.source \in sources

(* What was put before a person has the metadata they judge it by.         *)
ReviewedHasMetadata ==
    \A c \in Candidates :
        Exists(c) /\ cand[c].status \in {"pending", "confirmed", "rejected"} => cand[c].meta

(* Discovering a source again, after a rejection, a failure or a crash,    *)
(* never proposes a file twice, unless two discoveries of it overlapped.   *)
OneCandidatePerFile ==
    raced \/ \A c1, c2 \in Candidates :
        Exists(c1) /\ Exists(c2) /\ c1 # c2 =>
            cand[c1].source # cand[c2].source \/ cand[c1].file # cand[c2].file

(* Of the discoveries in flight (discovery.go): each has its source and,   *)
(* past the check, its file; the id it enqueued a job for has no row yet,  *)
(* and is its own.                                                         *)
DiscoveriesOwnTheirIds ==
    \A d \in Discoveries :
        /\ discovery[d].at = "idle" <=> discovery[d].source = None
        /\ discovery[d].at \in {"enqueue", "create"} => discovery[d].file \in Files
        /\ discovery[d].at = "create" =>
              /\ discovery[d].cand \in Candidates
              /\ ~Exists(discovery[d].cand)
              /\ job[discovery[d].cand].state # "none"
              /\ job[discovery[d].cand].source = discovery[d].source
              /\ job[discovery[d].cand].file = discovery[d].file
              /\ \A o \in Discoveries :
                    discovery[o].at = "create" /\ discovery[o].cand = discovery[d].cand => o = d

(* A job names the source and file of its candidate, and every candidate,  *)
(* every run and every new edition has a job behind it.                    *)
JobsDescribeCandidates ==
    /\ \A c \in Candidates :
          /\ job[c].state # "none" => job[c].source \in Sources /\ job[c].file \in Files
          /\ Exists(c) => /\ job[c].state # "none"
                          /\ job[c].source = cand[c].source
                          /\ job[c].file = cand[c].file
    /\ \A x \in Runs : run[x].at # "idle" => run[x].cand \in Candidates /\ job[run[x].cand].state # "none"
    /\ \A e \in NewEditions : madeFor[e] # None => job[madeFor[e]].state # "none"

(* What a review read still names its candidate when it decides, and the   *)
(* row, where it is still there, has kept the metadata that was judged.    *)
ReviewsAreOfCandidates ==
    \A v \in Reviews : review[v].at = "decide" =>
        /\ review[v].cand \in Candidates
        /\ review[v].read \in Row
        /\ job[review[v].cand].state # "none"
        /\ job[review[v].cand].source = review[v].read.source
        /\ job[review[v].cand].file = review[v].read.file
        /\ Exists(review[v].cand) => cand[review[v].cand].meta
        /\ \A d \in Discoveries : discovery[d].at = "create" => discovery[d].cand # review[v].cand

(* Unless discoveries of one source overlapped, a source has one in        *)
(* flight, and the file it found new is still without a candidate.         *)
LoneDiscovery ==
    raced \/ \A d \in Discoveries : discovery[d].at # "idle" =>
        /\ \A o \in Discoveries : discovery[o].source = discovery[d].source => o = d
        /\ discovery[d].at \in {"enqueue", "create"} => ~Seen(discovery[d].source, discovery[d].file)

(* What every state of an import keeps, whatever discoveries, jobs,        *)
(* reviews and removals overlap (discovery.go, job.go, service.go): no     *)
(* half import, nothing before a person without its metadata, no file      *)
(* proposed twice, and what those rest on.                                 *)
ImportInvariant ==
    /\ TypeOK
    /\ DiscoveriesOwnTheirIds
    /\ JobsDescribeCandidates
    /\ ReviewsAreOfCandidates
    /\ LoneDiscovery
    /\ ImportedIsOwned
    /\ NoHalfImport
    /\ NothingOfARemovedSource
    /\ ReviewedHasMetadata
    /\ OneCandidatePerFile

=============================================================================
