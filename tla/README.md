# Alexandryn in TLA+

Alexandryn is a self-hosted library and reader: a Go server over PostgreSQL, a
React client, and an Electron desktop application that runs the server as a
child process. This directory models the parts of it in which several actors
meet (workers, requests, devices, processes, timers, failures), checks them with
TLC on small instances, and proves with TLAPS, for every value of the constants,
almost every safety property that TLC checks.

| module | models | proofs |
|---|---|---|
| `JobLifecycle` | what the job queue promises its callers (abstract) | `JobQueueProofs` |
| `JobQueue` | `internal/jobs`: table, workers, leases, reaper, restarts | `JobQueueProofs` |
| `ServerProcess` | `cmd/server`: start-up, wiring, serving, both shutdowns | `ServerProofs` |
| `ServerLifecycle` | `electron/src/main`: start, watch, respawn, quit | `ServerProofs` |
| `Accounts` | accounts, sessions, second factor and its tickets, libraries, invitations | `ServerProofs` |
| `Sources` | source management, outbound calls, credentials | `LibraryProofs` |
| `Catalogue` | the paginated library query, collections | `LibraryProofs` |
| `WorkGraph` | merges and containment of works and authors | |
| `ImportPipeline` | discovery, import jobs, review, removal of a source | `ImportPipelineProofs` |
| `Discover` | Open Library client, work cache, cover cache | `DiscoverProofs` |
| `ReaderContent` | the cache of open archives behind the reader | `ReaderContentProofs` |
| `ReadingSync` | reading progress, bookmarks, device sync | `ReadingSyncProofs` |
| `Pairing` | pairing codes, enrolment grants, the network sweep | `PairingProofs` |

The `MC` modules add what TLC needs: symmetry sets, the library of each row, and,
in `MCCatalogue`, two independent modules side by side in one run (works, authors
and library list move one at a time). `MCAccounts` keeps tickets and libraries
apart: their handlers write different tables and share only who is signed in. `PROJECT.json`
maps each definition to its source lines, lists the parts of the system that are
not modelled with the reason, and the hazards of the code with the property that
covers each.

Run a model with `tlc -config <run>.cfg <module>` (`PROJECT.json` names the module
of each run), the proofs with `tlapm <module>.tla`. The longest run takes about
four minutes, the longest proof module about a quarter of an hour.

## The system

The desktop host starts the server and watches its `/readyz`. The server opens
its listener first, then waits for PostgreSQL, runs migrations, and sets the
references its handlers use one by one. Requests run concurrently, each in one or
several database statements: a few in a transaction with a row lock, most of them
read, decide and write in separate statements. Background work is of three
kinds: the job queue (its only registered handler is the import of a file), the
sweep of expired pairing data and used tickets, and the reaper of old events.
Sources are browsed and searched over HTTP, and their files become candidates that a job imports or
a person reviews. Covers and works of Open Library are cached on disk and in
tables. Devices are enrolled by pairing and then exchange reading data with a
cursor.

What the modules have in common: a step is one statement, one transaction, one
critical section or one turn of an event loop, whichever the code makes atomic;
what a request read in an earlier step is a copy that may be out of date. Names,
titles, texts, formats and cryptography are model values. Errors of the database
and of the network are alternatives of a step wherever the code goes on after
them.

## Runs

| run | instance | distinct states |
|---|---|---|
| `JobQueue` | a job and a dead letter to retry, two workers, two attempts, two restarts | 138,434 |
| `JobQueue_lease` (violated) | the same without restarts | |
| `ServerLifecycle` | two respawns, one retry | 92,114 |
| `ServerProcess` | two requests, two attempts to reach PostgreSQL | 138,726 |
| `Accounts` | one user, two requests, three tokens, a ticket of two ticks, claims of three, two secrets | 371,072 |
| `Sources` | one source, two requests, two origins, one slot, two keys | 350,787 |
| `ImportPipeline` | one file, two candidates, discoveries, runs and reviews | 482,444 |
| `Catalogue` | two works, a collection, two clients, page size one; three works and three authors in the graph | 386,844 |
| `Discover` | two covers, a work, two requests, one place in each limit | 360,738 |
| `ReaderContent` | two books, three requests, one open archive, two files | 72,023 |
| `ReadingSync` | a device and a browser, two works, a bookmark, page limit one | 453,792 |
| `Pairing` | one session, two devices, two logins, two ticks | 55,578 |

Deadlock is not checked where the system may really stop or where a bound of the
model ends a behaviour: the desktop host and the server exit; tokens, numbers,
transaction ids and ids of `Accounts`, `ReadingSync` and `ImportPipeline` run out.

The invariant of each run is the inductive invariant of the proofs, so TLC and
TLAPS look at the same formula: TLC finds a wrong conjunct in seconds, the proof
removes the bound. What an instance is too small for (a second job, two users,
highlights, several libraries) is covered by the proofs.

## Job queue

`jobs` is the table, `worker` the goroutine of each poller with what it read,
`live` the registry of cancel functions, `cancelling` the `CancelJob` calls
between their commit and the call of the cancel function. Each transaction is
one action: `ClaimNext` (`FOR UPDATE SKIP LOCKED`) commits the claim, and
`StartHandler` is the separate read of the row that follows it. `Heartbeat`,
`ReportProgress`, `FinishSuccess` and `FinishFailure` are fenced by status and
lease token; `FinishWriteFails` is the write that the database refuses.
`ReclaimOne` is the reaper, `Shutdown`/`Exit`/`Start` the process, with `Exit`
possible at any point (crash). Times are relative to the clock (`dueIn`,
`leaseLeft`), so that no clock grows; random tokens are growing numbers, of which
only equality is used by the code.

`JobQueue` checks `QueueInvariant` (attempts within the budget, a lease exactly
while running, a fenced write belongs to the current attempt, a cancel function
cancels its own job), `LateWriteDiscarded`, the refinement of `JobLifecycle`, and
under fairness `EveryJobSettles` and `StaleHandlerStops`. Two attempts let a write
be late by one claim, two restarts let a crash follow a recovery. The table
starts with a dead letter an earlier process left (`DeadLetters`), so that the job
that runs is either enqueued or the copy `RetryJob` makes. With two jobs that run,
and no restart, `QueueInvariant` holds in all 2,752,670 states up to symmetry.

`JobQueue_lease` is violated: the claim is committed before the row is read
again, so a slow worker can pick up the token of a later claim of the same job,
and two handlers run under one token, against the comment at `store.go:194`.

Fairness: goroutines are scheduled, tickers fire, the grace period of a shutdown
is bounded, and a stopped process is started again. A handler is only obliged to
return once its context is cancelled; `EveryJobSettles` assumes in addition, in
its own statement, that handlers return (the import handler waits for nothing
without a limit) and that the queue is not left paused.

## Server process

`pc` is where `run` is, `wired` how many references of `PoolRef` are set, in the
order of `Wiring`; `call`, `worker`, `reaper` and `loop` are what runs beside it:
requests that need one of the references (`/healthz`, `/api/bootstrap` and the
static files need none and are answered earlier), a job worker, the retention reaper and the read loop of the mDNS
responder. A signal, a failing step of start-up and a failing listener are
possible at every point; `expired` records the grace periods that ran out.
The run checks that no such request is served before its reference is wired, that the pool closes
after everything that was waited for (`DrainedBeforeClose`), the invariant with
"PostgreSQL is spawned once, every exit releases the pool, exit code 0 answers a
signal", and `SignalEndsProcess`. Fairness: `run`, queries (their contexts are
cancelled on the way down) and goroutines that wait for nothing go on; a handler
or a job may run for ever. The network sweep's goroutine (`run.go:701`) is not
waited for at shutdown and is left out.

## Desktop host

One action of `ServerLifecycle` is one turn of Node's event loop up to the next
`await`. `phase` says where `runServerLifecycle` is suspended; `child` keeps apart
what the operating system knows and what Node shows (`exitCode` stays null after
a signal, `killed` means that a signal was sent); `monitor` is the health monitor
with a probe in flight; `quit` the `before-quit` sequence. The run checks one
server at a time outside quitting, no state shown from a stopped monitor, that
attempts end and crashes are noticed, and that quitting ends. The two liveness
properties assume `OnlyExitCodes`: nobody else's signal ends the server. Two
respawns cover a middle one and the exhausted budget. Fairness: the event loop
runs what is ready, timers fire, a server announces its port or ends, and one
told to stop stops. `portPromise` itself has no timeout (`serverLifecycle.ts:134`):
a server that neither announces a port nor ends keeps the host in Starting.

## Accounts

No handler opens a transaction, so a step is one statement, and a request that
reads a row and later saves it may overwrite what happened in between; a save
whose error the handler drops may fail. The run checks that a revoked session
stays revoked, that a ticket yields one session however many requests present
it, and the invariant: an enabled second factor was confirmed and has the
recovery codes of its own secret, nothing outlives a deleted library, credentials
and sessions belong to accounts in the order the setup wizard writes them.

What makes an MFA ticket single-use is its row in `mfa_ticket_jtis`, and the last
statement of the network sweep deletes that row an hour after `spent_at`
(`network_sweep.go:90-97`). `VerifyTicket` reads the clock and checks the ticket,
`VerifyClaim` inserts the row later, with the time that was read, and `SweepOnce`
may come in between. All times of a ticket are counted from its signing, in `age`,
which stops where nothing depends on it any more. `Tick` lets a verification take
`Stall` from its clock to its claim, and `TicketTTL + Stall <= ClaimTTL` is the
"wide safety margin" of the sweep's comment: 5 minutes and an hour leave 55 minutes
for `Stall`. With a life of two, a stall of one and claims kept for three, the
margin is exactly used up: a claim may go one tick after the last moment at which
another request can still be about to claim. Without the margin TLC finds the
second session. The clock is taken not to jump.

The password reset is left out: `auth_handlers.go:519` throws the raw token away,
so no client can confirm one.

## Sources

A handler reads the row of the source once, works from that copy while it talks
to the remote catalogue, and writes single columns back. URLs are abstracted to
origins, a credential to the number of the key it is encrypted with; `Restart`
may find the key file gone. The run checks that the semaphore counts exactly the
calls in progress and a deleted source stays deleted (`SourcesInvariant`), that
every call stays on the origin of its base URL although search links and
continuation tokens outlive a change of the base, and that health check, browse
and search send the stored credential or do not call.

## Import

`ImportPipeline` has a process for each discovery, each execution of a job, each
review and the removal of the source, meeting in the tables. Jobs follow
`JobQueue`: a ready job may run again, two runs may overlap after a lost lease,
and only the newest settles the job. The run checks that what counts as imported
is owned and offered, that nothing refers to a removed source, and the invariant:
no half import, nothing is shown for review without its metadata, and scans that
follow each other propose a file once.

## Catalogue and work graph

`Catalogue` is a client that scrolls through the library page by page while
entries and collection members come and go; `steady` is the set of works that
stayed in the list, with the same key, since the scroll began. The invariant says
that such a work is listed at most once, and exactly once when the scroll ends,
whatever the order, the filter and the ties; and that a member has its
collection although delete and add are several statements. `WorkGraph` has the
walks of `resolve_work.go` as recursive operators, checked against a reference
definition by closures (`GroupsPartition`), and shows that containments and the
undoing of merges keep the graph free of works that contain themselves.
`cmd/server` does not construct the merge and containment services yet, so a call
is one step.

## Discover

A step is one statement, one file operation or one atomic operation of the
limiter. Any of them may fail, and the process may die anywhere. The run checks
that a file under a cover's name is whole, that more images than fit are recorded
only while an eviction pass is under way or due (or one was cut short), the exact
count of the limiter's queue, and that every request is answered. Fairness:
calls and waits have timeouts; the statements run under the context of their
request, without a deadline, so that PostgreSQL answers or the connection breaks is
assumed; a Go mutex goes to a waiter in the end.

## Reader content

The cache of open archives, one critical section per step, with single-flight
loads, deferred closing of referenced entries, idle and least-recently-used
eviction. The run checks that no archive closes under a reader and no temporary
file is orphaned (`CacheInvariant`), that the bound is exceeded only by archives in
use, and that every request ends. Fairness: a load has a deadline, a handler runs
to its end, and a request that keeps coming back to wait gives up after its 30
seconds.

## Reading sync

`row` holds the committed versions, `tx` the write transaction of a request,
`pull` a `GET /sync/reading`, `cursor` the stored cursor and `since` what the
device has been answered. A trigger numbers every write from `sync_seq` within
the transaction; transaction ids are taken at the first lock or write.
`FindByWorkForUpdate` waits for the row lock and decides on the version it finds
(`ReconcileProgress`: epoch first, then percentage). The run checks that progress
and cursors never move back, answered reports count, overrides stick, and that
the page limit skips nothing; a limit of one with rows in two tables is the
smallest case in which a page ends between rows of different tables.

`CeilingQueryWorks`: `GetSyncSequenceCeiling` reads `reading_bookmarks` and
`reading_highlights`, while the migrations create `bookmarks` and `highlights`. On
that schema every pull answers 500 and the properties of pulls would hold for
want of pulls, so the run sets the constant to TRUE and checks the pull as it is
meant to work. There is no fairness and nothing is claimed to happen.

## Pairing

`session`, `device` and `spent` are the tables; `verify`, `login` and `delete` are
requests between their statements; `sweep` is the sweep between the first four of
its statements (the fifth concerns `Accounts`). `now`
is a clock that does not run back. A request in flight lasts at most `Stall`, and
the assumption `Stall <= Margin` is what the hour's margin of
`sweepDeleteSpentGrantJTIsSQL` is for. The run checks that a code enrols one
device, a live grant finds its row, a grant is claimed once even after the sweep
forgot it, and everything provisional is swept in the end. With all periods
equal, each cutoff of the sweep falls exactly on the end of a grant. Fairness:
requests are answered and time passes; the sweep's ticker returns for ever, and
each statement succeeds again and again (strong fairness: a failed round is not
the last).

## What is proved

Each theorem holds for every value of the constants that satisfies the ASSUME of
the component's module: null values are not real ones, budgets, limits and page
sizes are positive, sets whose size the code counts are finite, and, in
`Pairing` and `Accounts`, a request does not stall longer than the sweep's margin;
in `Pairing`, a grant does not outlive the rows it needs. Nothing else is assumed.

| module | theorem | states |
|---|---|---|
| `JobQueueProofs` | `QueueInvariantHolds` | `QueueInvariant`; from it `TypeCorrect`, `BudgetIsKept`, `LeaseExactlyWhileRunning`, `FenceImpliesCurrentAttempt`, `CancelIsPrecise` |
| | `LateWritesAreDiscarded`, `ProgressIsMonotone` | the action properties `LateWriteDiscarded`, `ProgressNeverRegresses` |
| | `QueueImplementsLifecycle` | every behaviour of `JobQueue` is one of `JobLifecycle` |
| `ServerProofs` | `ProcessInvariantHolds` | `ProcessInvariant`; from it `ServedOnlyWhenWiredHolds`, `DrainedBeforeCloseHolds`, `EveryExitIsClean` |
| | `LifecycleInvariantHolds`, `HealthIsCurrent` | `LifecycleInvariant`, `HealthIsOfCurrentServer` |
| | `OneServerAtATime` | the action property `OneServerUnlessQuitting` |
| | `AccountsInvariantHolds` | `AccountsInvariant`; from it `OneSessionPerTicketHolds`, `EnabledSecretIsConfirmed`, `NothingOutlivesItsLibrary` |
| | `RevokedNeverReturns` | the action property `RevokedStaysRevoked` |
| `LibraryProofs` | `SourcesInvariantHolds` | `SourcesInvariant`; from it `CallsNeverLeaveTheirOrigin`, `CredentialIsAlwaysSent`, `SlotsAndRemovalsHold` |
| | `CatalogueInvariantHolds` | `CatalogueInvariant` |
| `ImportPipelineProofs` | `ImportInvariantHolds` | `ImportInvariant`; from it `ImportedHasItsBook`, `RemovedSourceIsGone` |
| `DiscoverProofs` | `DiscoverInvariantHolds` | `DiscoverInvariant`; from it `LimiterCountsExactly`, `FilesAreAlwaysWhole`, `NothingOverIsForgotten` |
| `ReaderContentProofs` | `CacheInvariantHolds` | `CacheInvariant`; from it `HeldArchiveStaysOpen`, `FilesAndLoadsAreAccounted` |
| | `BoundIsKept` | `OpenWithinBound` |
| `ReadingSyncProofs` | `SyncInvariantHolds` | `SyncInvariant` |
| | `NothingIsTakenBack`, `AnsweredReportIsFoldedIn`, `OverrideIsKept` | the action properties of the run |
| `PairingProofs` | `PairingInvariantHolds` | `PairingInvariant`; from it `CodeEnrolsOneDevice`, `GrantIsClaimedOnce`, `GrantFindsItsDevice` |
| | `RevocationIsFinal` | the action property `RevokedStaysOut` |

No safety property is inductive alone. What each inductive invariant adds, and why:

* Job queue. That a fenced write belongs to the current attempt needs that a
  worker's token is never ahead of the row's and that equal tokens mean equal
  attempts (`WorkerConsistent`); that a reclaim keeps the budget needs that a
  waiting row has an attempt left (`RowConsistent`). The argument goes by row and
  by worker: the row lemmas say what each operation does to one row (its token and
  attempts never fall, and move together), `WorkerKeepsUp` carries this over to the
  workers that refer to it. The refinement maps each action to one step of the
  lifecycle or to a stutter (`StepRefines`).
* Server process. What start-up has done by each place in `run`, and that on the
  way down each stage finds the one before it finished or expired.
* Desktop host. `ChildGoneOrTold`: whenever the host may spawn, its child was
  reaped or told to stop; a `kill()` that is not the quit's is followed by the wait
  for the exit.
* Accounts. `HoldsWhatItRead`: the rows a request carries from one statement to the
  next may be stale, but were rows of the table (so the secret it will save is
  confirmed and the codes are that secret's), and a ticket it has claimed is in no
  other request's hands and behind no session. `Burned`: such a ticket, and that of a
  session, has its claim or is older than any request that could claim it; the sweep
  takes a claim only from tickets of the second kind, and `NoneOnItsWay` is where the
  margin is used.
* Sources. `KnowsItsSource`: a request's URL is that of its copy, the copy's
  credential was readable, and the id of a source being created is nobody else's.
  The semaphore needs a count of calls: `SlotsFollowCalls` says how one request's
  step changes it.
* Catalogue. `ListedOncePassed`: a steady work has been listed once exactly if the
  cursor has passed it. The heart is `PageEndsAtCursor`: the page is the rows
  before the next cursor, for any order with ties, because places are counted
  (`PlacesAreNumbers`) and the order is total (`RowsAreOrdered`).
* Import. An id is in one discovery's hands until its row is there
  (`DiscoveriesOwnTheirIds`); jobs and reviews describe the candidate they name; and
  without overlapping scans, a file about to be proposed is not there yet
  (`LoneDiscovery`).
* Discover. `Saves`: what a pass found out before its next statement still bounds
  what is there, unless another save has its own pass to come.
* Reader content. A request owns its archive while it loads it, and `refs` counts
  the holders exactly; `Bounded` restates the bound over `refs`.
* Reading sync. `SyncCore`: the row found under the lock is still the row
  (`LocksHold`), a decision is at least what was found and what was reported
  (`DecisionsAreSound`), a number is drawn once (`NumbersAreUnique`). That the limit
  skips nothing follows from unique numbers alone: `LimitCutsAbove` shows that the
  rows a table's page leaves out lie above the last one it delivers, and
  `CursorAtBoundaries` that the common cursor stops at the lowest such boundary.
* Pairing. Clocks of requests are not ahead of the sweep's, a claim leaves its
  record for as long as a login could still present the grant
  (`ClaimsAreRecorded`), and a row outlives its grant (`RowOutlivesGrant`).

A proof that a step preserves an invariant has a lemma for each action or group
of actions; a small set of lemmas on "one request moved, the others did not"
(`RequestStep`, `TxStep`, `SessionMoves`, ...) is used throughout.

### Only model-checked

* Liveness, because the prover does not reach fairness: `EveryJobSettles`,
  `StaleHandlerStops`, `AttemptsEnd`, `QuitEnds`, `SignalEndsProcess`,
  `EveryRequestEnds`, `EveryRequestIsAnswered`, `SweptInTheEnd`.
* `GroupsPartition` and `ContainsStaysAcyclic` of `WorkGraph`: the walks are
  recursive and what they compute needs induction over the graph.
* `OneHolderPerLease`, which is false.

## Where the code and its documentation disagree

`JobQueue_lease` is kept as a run. The following were met in the same way; the
definition named is in the module, is false of the model, and is refuted within
seconds by a configuration that checks it alone (constants as in the run unless
given):

* `CrashBeforeReadyFails` (`ServerLifecycle`, under `FairLifecycle`): when a signal
  ended the child before it was ready, `exitCode` stays null and `killed` is false, so
  the catch block (`serverLifecycle.ts:139`) awaits an exit event already delivered
  and the host stays in Starting; the comment at line 9 says Failed.
* `SigkillAfterGrace` (`ServerLifecycle`): SIGKILL is guarded by `!child.killed`
  (`shutdown.ts:38`), which SIGTERM has set; line 12 says it is sent.
* `QuitWaitsForServer` (`ServerLifecycle`): a second quit is let through while the
  first waits (`index.ts:167`), against the comment at line 162.
* `GateSkipsNothing` (`ReadingSync`, one work and one bookmark): the gate
  (`reading_sync_repository.go:126`) compares transaction ids, while numbers are drawn
  independently of them; a cursor can pass a number in flight, which the comment at
  line 121 excludes.
* `ConsumedUpToCursor` (`ReadingSync`, `Lossy = TRUE`): the cursor is stored before
  the answer is delivered, so the rows of a lost answer are never sent again; the
  comment at `device_sync.go:261` says that the device has consumed them.
* `NoSelfContainment` (`WorkGraph`, added to `Catalogue.cfg`): a merge whose source
  contains its target is accepted (`work_merge_service.go:83`) and the merged work
  contains itself, against `docs/specs/domain-bibliographic.md:198`.

Noted while reading, each an interleaving or a path the model has:

* Jobs: `CancelJob` makes moves that `CanTransitionTo` (`job.go:55`) does not list; a
  cancel between claim and registration reaches no handler (`queue.go:105`), which
  `StaleHandlerStops` covers.
* Accounts: two refreshes of one token at once both succeed, while
  `backend-authentication.md:78` calls the rotation atomic; two users at once can
  accept one invitation, which ADR 0026 calls single-use; a used recovery code can
  come back when two saves of the row cross (`auth_handlers.go:839`);
  `UpdateLibraryHandler`'s upsert can bring back a library deleted meanwhile.
* Sources: an import passes no semaphore and goes on without a credential it cannot
  decrypt (`import_ref.go:194`), and PATCH saves the configuration before it
  validates the credential.
* Import: two confirmations of one candidate both persist a work and an edition
  (`service.go:198`), while `backend-import-pipeline.md` promises "No
  double-persistence"; each of the two is whole.
* Discover: bytes that fail the image check are served by the direct-write fallback
  (`backend-metadata-caching.md`, FR-6, calls that a fetch failure); an eviction that
  races a new save of the same cover, or whose removal of the file fails, can leave a
  file without a row, outside the
  500 MiB of FR-7; a cover evicted between its lookup and `http.ServeFile` gives an
  error; a partial fetch of authors is cached for 30 days and a cached absence never
  expires; a failed write or a crash leaves temporary files.
* Pairing: a DELETE that read the session as pending can overwrite `consumed` by
  `expired` (`network.go:680`) and then leaves the enrolled device in place;
  `OneEnrolmentPerCode` shows that the code is not open again.
* Sync: the cursor belongs to the device and the delta to the active library, so
  after a pull for one library lower-numbered rows of another are not sent
  (`device_sync.go:278`); a deleted bookmark leaves no trace in any delta.

## Not modelled

Content extraction, sanitising and the parsing of feeds (functions over bytes);
cryptography and the steps of writing the key file; reading preferences, export,
the leaderboard, network settings and the detail views (single statements);
middleware, size limits and static files (local to a request); diagnostics, parent
watch, configuration, logging and identifiers; the window and IPC of the desktop
host, whose display follows the events of `ServerLifecycle`; the supervisor process
of the bundled PostgreSQL, of which the server's side is in `ServerProcess`; the web
client, against any order of whose requests the server is modelled.

Within the modelled parts: deletion of a user, roles inside a library (every user
the setup wizard creates is an administrator), full-text search, renaming, the
certificate of the listener and mDNS packets.
