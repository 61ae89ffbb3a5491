--------------------------- MODULE ServerProcess ---------------------------
(***************************************************************************)
(* The server process of cmd/server/run.go from its first line to its exit *)
(* code: the startup steps in their order, the HTTP server that already    *)
(* answers while they run, the references of transport/http's PoolRef that *)
(* are filled one after the other, the mDNS responder, the job workers and *)
(* the retention reaper, and the two ways down (a signal, a listener that  *)
(* failed).  The pool lends connections to requests, to the worker and to  *)
(* the reaper, and closing it waits for them.                              *)
(***************************************************************************)
EXTENDS Integers, Sequences

CONSTANTS
    Calls,     \* HTTP requests that can be in flight together
    MaxAttempts   \* postgresMaxAttempts of waitForPostgres

ASSUME ServerProcessAssumption == MaxAttempts \in Nat \ {0}

VARIABLES
    pc,         \* where run is
    arm,        \* why it is going down: "none", "graceful", "failed", "startup"
    code,       \* the exit code run has settled on
    sig,        \* the context of signal.NotifyContext is cancelled
    serve,      \* srv.Serve: "off", "serving", "failed", "closed"
    bundled,    \* DATABASE_URL is absent: run spawns its own PostgreSQL
    attempt,    \* of waitForPostgres
    spawned,    \* PostgreSQL processes started by this run
    migrated,
    wired,      \* how many references of PoolRef are set
    pool,       \* "none", "open", "closing", "closed"
    call,       \* per request: probe or API call, and what its handler is doing
    worker,     \* the job worker: "off", "idle", "running", "querying", "gone"
    reaper,     \* the retention reaper: "off", "waiting", "sweeping", "gone"
    mdns,       \* "off", "open", "goodbye", "waiting", "closed"
    loop,       \* serveLoop: "off", "reading", "answering", "gone"
    expired     \* the grace periods that ran out: subset of {"http", "jobs"}

startup == <<bundled, attempt, spawned, migrated, wired>>
service == <<call, worker, reaper, mdns, loop>>
pvars == <<pc, arm, code, sig, serve, startup, pool, service, expired>>

\* The setters of PoolRef in the order run calls them; the credential key is
\* read after the first KeyAt of them, the job system comes last.
Wiring == <<"pool", "catalogue", "reader", "crypto", "network", "auth", "importer", "sync",
            "events", "jobs">>
KeyAt == 3
Refs == {Wiring[i] : i \in 1 .. wired}

\* What the lazy handlers and repositories in front of a route take from
\* PoolRef before they serve: authentication for all but the public paths,
\* and what the handler itself works with.
LazyAuth == {"auth"}
LazyRepositories == {"catalogue"}
LazyNetwork == {"network"}
LazySync == {"sync"}
LazyImporterService == {"importer"}
LazyDiscoveryRunner == {"jobs"}
LazyActivity(events) == IF events THEN {"events"} ELSE {"jobs"}

\* The references a request has to find set.  /healthz, /api/bootstrap and
\* the static files need none and are not among the requests.
Need == [readyz |-> {"pool"}, login |-> LazyAuth, verify |-> LazyNetwork,
         library |-> LazyAuth \cup LazyRepositories, sync |-> LazyAuth \cup LazySync,
         import |-> LazyAuth \cup LazyImporterService,
         discovery |-> LazyAuth \cup LazyDiscoveryRunner,
         events |-> LazyAuth \cup LazyActivity(TRUE), jobs |-> LazyAuth \cup LazyActivity(FALSE)]
Routes == DOMAIN Need

NoCall == [kind |-> "probe", phase |-> "idle"]
Kind(route) == IF route = "readyz" THEN "probe" ELSE "api"
InFlight == {r \in Calls : call[r].phase # "idle"}

\* Who holds a connection of the pool.
Acquired == {r \in Calls : call[r].phase = "querying"}
              \cup {w \in {"worker"} : worker = "querying"}
              \cup {s \in {"reaper"} : reaper = "sweeping"}

Going == {"mdnsClose", "drain", "stopJobs", "stopReaper", "closePool", "poolClosing", "exited"}

\* The typed state of the process.
ProcessTypeOK ==
    /\ pc \in {"listen", "postgres", "obtain", "migrate", "newPool", "wire", "key", "jobs",
               "ready"} \cup Going
    /\ arm \in {"none", "graceful", "failed", "startup"}
    /\ code \in {0, 1}
    /\ sig \in BOOLEAN
    /\ serve \in {"off", "serving", "failed", "closed"}
    /\ bundled \in BOOLEAN
    /\ attempt \in 1 .. MaxAttempts
    /\ spawned \in Nat
    /\ migrated \in BOOLEAN
    /\ wired \in 0 .. Len(Wiring)
    /\ pool \in {"none", "open", "closing", "closed"}
    /\ call \in [Calls -> [kind : {"probe", "api"}, phase : {"idle", "handling", "querying"}]]
    /\ worker \in {"off", "idle", "running", "querying", "gone"}
    /\ reaper \in {"off", "waiting", "sweeping", "gone"}
    /\ mdns \in {"off", "open", "goodbye", "waiting", "closed"}
    /\ loop \in {"off", "reading", "answering", "gone"}
    /\ expired \subseteq {"http", "jobs"}

ProcessInit ==
    /\ pc = "listen" /\ arm = "none" /\ code = 0
    /\ sig = FALSE
    /\ serve = "off"
    /\ bundled \in BOOLEAN
    /\ attempt = 1 /\ spawned = 0 /\ migrated = FALSE /\ wired = 0
    /\ pool = "none"
    /\ call = [r \in Calls |-> NoCall]
    /\ worker = "off" /\ reaper = "off" /\ mdns = "off" /\ loop = "off"
    /\ expired = {}

---------------------------------------------------------------------------
(* Ways out of run *)

\* SIGINT or SIGTERM.
Signal ==
    /\ pc # "exited" /\ ~sig
    /\ sig' = TRUE
    /\ UNCHANGED <<pc, arm, code, serve, startup, pool, service, expired>>

GracefulShutdown ==
    pc' = "mdnsClose" /\ arm' = "graceful" /\ code' = 0

\* return 1, before there is a pool and with the pool to be closed first.
ReturnOne ==
    pc' = "exited" /\ arm' = "startup" /\ code' = 1
CloseAndReturnOne ==
    pc' = "closePool" /\ arm' = "startup" /\ code' = 1

\* A step that failed because of the signal leads to a shutdown, any other
\* failure to exit code 1.
StepFails == IF sig THEN GracefulShutdown ELSE ReturnOne

---------------------------------------------------------------------------
(* Startup *)

ListenFails ==
    /\ pc = "listen"
    /\ ReturnOne
    /\ UNCHANGED <<sig, serve, startup, pool, service, expired>>

\* The listener, the Serve goroutine and, off loopback, the mDNS responder,
\* whose failure to start is only logged.
Listen ==
    /\ pc = "listen"
    /\ pc' = "postgres"
    /\ serve' = "serving"
    /\ \/ mdns' = "open" /\ loop' = "reading"
       \/ UNCHANGED <<mdns, loop>>
    /\ UNCHANGED <<arm, code, sig, startup, pool, call, worker, reaper, expired>>

\* The head of waitForPostgres's loop.
WaitForPostgres ==
    /\ pc = "postgres"
    /\ IF sig THEN GracefulShutdown ELSE pc' = "obtain" /\ UNCHANGED <<arm, code>>
    /\ UNCHANGED <<sig, serve, startup, pool, service, expired>>

\* spawnPostgresOnce: a process is started by the first attempt that gets so
\* far and never again, whether or not it accepted a connection in time.
SpawnPostgresOnce(reached) ==
    \/ /\ bundled /\ spawned = 0
       /\ spawned' = 1
    \/ /\ reached => ~bundled \/ spawned = 1
       /\ UNCHANGED spawned

Obtained ==
    /\ pc = "obtain"
    /\ SpawnPostgresOnce(TRUE)
    /\ pc' = "migrate"
    /\ UNCHANGED <<arm, code, sig, serve, bundled, attempt, migrated, wired, pool, service, expired>>

ObtainFails ==
    /\ pc = "obtain"
    /\ SpawnPostgresOnce(FALSE)
    /\ IF ~sig /\ attempt < MaxAttempts
       THEN attempt' = attempt + 1 /\ pc' = "postgres" /\ UNCHANGED <<arm, code>>
       ELSE StepFails /\ UNCHANGED attempt
    /\ UNCHANGED <<sig, serve, bundled, migrated, wired, pool, service, expired>>

RunMigrations ==
    /\ pc = "migrate"
    /\ \/ pc' = "newPool" /\ migrated' = TRUE /\ UNCHANGED <<arm, code>>
       \/ StepFails /\ UNCHANGED migrated
    /\ UNCHANGED <<sig, serve, bundled, attempt, spawned, wired, pool, service, expired>>

NewPool ==
    /\ pc = "newPool"
    /\ \/ pc' = "wire" /\ pool' = "open" /\ UNCHANGED <<arm, code>>
       \/ StepFails /\ UNCHANGED pool
    /\ UNCHANGED <<sig, serve, startup, service, expired>>

\* One setter of PoolRef.  The event store's is followed by the start of the
\* retention reaper.
SetRef ==
    /\ pc = "wire"
    /\ wired' = wired + 1
    /\ pc' = CASE wired' = KeyAt -> "key"
               [] wired' = Len(Wiring) - 1 -> "jobs"
               [] OTHER -> "wire"
    /\ reaper' = IF pc' = "jobs" THEN "waiting" ELSE reaper
    /\ UNCHANGED <<arm, code, sig, serve, bundled, attempt, spawned, migrated, pool,
                   call, worker, mdns, loop, expired>>

\* The repository of pairing sessions refuses its keys, just before the
\* reference to the network API.
NetworkFails ==
    /\ pc = "wire"
    /\ Wiring[wired + 1] = "network"
    /\ CloseAndReturnOne
    /\ UNCHANGED <<sig, serve, startup, pool, service, expired>>

\* Mutant: the pool is left open.
LoadKeyLeavesPool ==
    /\ pc = "key"
    /\ \/ pc' = "wire" /\ UNCHANGED <<arm, code>>
       \/ ReturnOne
    /\ UNCHANGED <<sig, serve, startup, pool, service, expired>>

\* LoadOrCreateKey, which on a first run asks the database under the signal's
\* context, and the subkeys: no failure is told apart from a shutdown.
LoadKey ==
    /\ pc = "key"
    /\ \/ pc' = "wire" /\ UNCHANGED <<arm, code>>
       \/ CloseAndReturnOne
    /\ UNCHANGED <<sig, serve, startup, pool, service, expired>>

StartJobs ==
    /\ pc = "jobs"
    /\ \/ pc' = "ready" /\ wired' = wired + 1 /\ worker' = "idle" /\ UNCHANGED <<arm, code>>
       \/ CloseAndReturnOne /\ UNCHANGED <<wired, worker>>
    /\ UNCHANGED <<sig, serve, bundled, attempt, spawned, migrated, pool, call, reaper, mdns,
                   loop, expired>>

\* run's final select; with both channels ready it may take either.
Await ==
    /\ pc = "ready"
    /\ \/ sig /\ GracefulShutdown
       \/ serve = "failed" /\ pc' = "mdnsClose" /\ arm' = "failed" /\ code' = 1
    /\ UNCHANGED <<sig, serve, startup, pool, service, expired>>

---------------------------------------------------------------------------
(* Going down *)

\* mdnsServer.Close has returned.  A shutdown then closes the listener, the
\* other way down leaves the requests alone.
MDNSClosed ==
    /\ pc = "mdnsClose"
    /\ mdns \in {"off", "closed"}
    /\ IF arm = "graceful"
       THEN pc' = "drain" /\ serve' = "closed"
       ELSE pc' = "stopJobs" /\ UNCHANGED serve
    /\ UNCHANGED <<arm, code, sig, startup, pool, service, expired>>

Drained ==
    /\ pc = "drain"
    /\ InFlight = {}
    /\ pc' = "stopJobs"
    /\ UNCHANGED <<arm, code, sig, serve, startup, pool, service, expired>>

\* Mutant: Shutdown is called with a context that has no deadline.
DrainExpiresNever == FALSE /\ UNCHANGED pvars

\* The deadline: srv.Close drops the connections, the handlers run on.
DrainExpires ==
    /\ pc = "drain"
    /\ InFlight # {}
    /\ expired' = expired \cup {"http"}
    /\ pc' = "stopJobs"
    /\ UNCHANGED <<arm, code, sig, serve, startup, pool, service>>

AfterJobs == IF arm = "graceful" THEN "stopReaper" ELSE "closePool"

\* Mutant: the workers' context is cancelled and that is all.
JobsCancelled ==
    /\ pc = "stopJobs"
    /\ pc' = AfterJobs
    /\ UNCHANGED <<arm, code, sig, serve, startup, pool, service, expired>>

\* Engine.Shutdown returns: the pollers are gone, or the deadline passed.
JobsStopped ==
    /\ pc = "stopJobs"
    /\ worker \in {"off", "gone"}
    /\ pc' = AfterJobs
    /\ UNCHANGED <<arm, code, sig, serve, startup, pool, service, expired>>

JobsExpire ==
    /\ pc = "stopJobs"
    /\ worker \in {"running", "querying"}
    /\ expired' = expired \cup {"jobs"}
    /\ pc' = AfterJobs
    /\ UNCHANGED <<arm, code, sig, serve, startup, pool, service>>

ReaperStopped ==
    /\ pc = "stopReaper"
    /\ reaper \in {"off", "gone"}
    /\ pc' = "closePool"
    /\ UNCHANGED <<arm, code, sig, serve, startup, pool, service, expired>>

\* pool.Close refuses further Acquires and waits for the connections lent.
ClosePool ==
    /\ pc = "closePool"
    /\ IF pool = "open" THEN pool' = "closing" /\ pc' = "poolClosing"
                        ELSE pc' = "exited" /\ UNCHANGED pool
    /\ UNCHANGED <<arm, code, sig, serve, startup, service, expired>>

PoolClosed ==
    /\ pc = "poolClosing"
    /\ Acquired = {}
    /\ pool' = "closed"
    /\ pc' = "exited"
    /\ UNCHANGED <<arm, code, sig, serve, startup, service, expired>>

Run ==
    \/ ListenFails \/ Listen \/ WaitForPostgres \/ Obtained \/ ObtainFails
    \/ RunMigrations \/ NewPool \/ SetRef \/ NetworkFails \/ LoadKey \/ StartJobs \/ Await
    \/ MDNSClosed \/ Drained \/ DrainExpires \/ JobsStopped \/ JobsExpire
    \/ ReaperStopped \/ ClosePool \/ PoolClosed

---------------------------------------------------------------------------
(* Requests *)

Alive == pc # "exited"

\* Serve returns with an error of its own.
ServeFails ==
    /\ Alive
    /\ serve = "serving"
    /\ serve' = "failed"
    /\ UNCHANGED <<pc, arm, code, sig, startup, pool, service, expired>>

\* Mutant: every handler waits for the pool only.
AcceptOncePooled(r, route) ==
    /\ Alive
    /\ serve = "serving"
    /\ call[r].phase = "idle"
    /\ "pool" \in Refs
    /\ call' = [call EXCEPT ![r] = [kind |-> Kind(route), phase |-> "handling"]]
    /\ UNCHANGED <<pc, arm, code, sig, serve, startup, pool, worker, reaper, mdns, loop, expired>>

\* A request whose references are set; any other is answered 503 at once.
Accept(r, route) ==
    /\ Alive
    /\ serve = "serving"
    /\ call[r].phase = "idle"
    /\ Need[route] \subseteq Refs
    /\ call' = [call EXCEPT ![r] = [kind |-> Kind(route), phase |-> "handling"]]
    /\ UNCHANGED <<pc, arm, code, sig, serve, startup, pool, worker, reaper, mdns, loop, expired>>

Query(r) ==
    /\ Alive
    /\ call[r].phase = "handling"
    /\ pool = "open"
    /\ call' = [call EXCEPT ![r].phase = "querying"]
    /\ UNCHANGED <<pc, arm, code, sig, serve, startup, pool, worker, reaper, mdns, loop, expired>>

QueryEnds(r) ==
    /\ Alive
    /\ call[r].phase = "querying"
    /\ call' = [call EXCEPT ![r].phase = "handling"]
    /\ UNCHANGED <<pc, arm, code, sig, serve, startup, pool, worker, reaper, mdns, loop, expired>>

Respond(r) ==
    /\ Alive
    /\ call[r].phase = "handling"
    /\ call' = [call EXCEPT ![r] = NoCall]
    /\ UNCHANGED <<pc, arm, code, sig, serve, startup, pool, worker, reaper, mdns, loop, expired>>

---------------------------------------------------------------------------
(* The worker and the reaper *)

\* The pool's context is a child of the signal's, cancelled by Shutdown too.
WorkersCancelled ==
    sig \/ pc \in {"stopJobs", "stopReaper", "closePool", "poolClosing", "exited"}

Work ==
    /\ Alive
    /\ \/ worker = "idle" /\ ~WorkersCancelled /\ pool = "open" /\ worker' = "running"
       \/ worker = "running" /\ pool = "open" /\ worker' = "querying"
       \/ worker = "running" /\ worker' = "idle"
    /\ UNCHANGED <<pc, arm, code, sig, serve, startup, pool, call, reaper, mdns, loop, expired>>

WorkQueryEnds ==
    /\ Alive
    /\ worker = "querying"
    /\ worker' = "running"
    /\ UNCHANGED <<pc, arm, code, sig, serve, startup, pool, call, reaper, mdns, loop, expired>>

WorkerExits ==
    /\ Alive
    /\ worker = "idle" /\ WorkersCancelled
    /\ worker' = "gone"
    /\ UNCHANGED <<pc, arm, code, sig, serve, startup, pool, call, reaper, mdns, loop, expired>>

Sweep ==
    /\ Alive
    /\ reaper = "waiting" /\ pool = "open"
    /\ reaper' = "sweeping"
    /\ UNCHANGED <<pc, arm, code, sig, serve, startup, pool, call, worker, mdns, loop, expired>>

SweepEnds ==
    /\ Alive
    /\ reaper = "sweeping"
    /\ reaper' = "waiting"
    /\ UNCHANGED <<pc, arm, code, sig, serve, startup, pool, call, worker, mdns, loop, expired>>

\* The reaper's select: the signal's context or Stop's channel.
ReaperExits ==
    /\ Alive
    /\ reaper = "waiting"
    /\ sig \/ pc = "stopReaper"
    /\ reaper' = "gone"
    /\ UNCHANGED <<pc, arm, code, sig, serve, startup, pool, call, worker, mdns, loop, expired>>

---------------------------------------------------------------------------
(* The mDNS responder *)

\* Close's once: by the goroutine that watches the context, or by run.  It
\* closes done and broadcasts the goodbye.
CloseResponder ==
    /\ Alive
    /\ mdns = "open"
    /\ sig \/ pc = "mdnsClose"
    /\ mdns' = "goodbye"
    /\ UNCHANGED <<pc, arm, code, sig, serve, startup, pool, call, worker, reaper, loop, expired>>

CloseConn ==
    /\ Alive
    /\ mdns = "goodbye"
    /\ mdns' = "waiting"
    /\ UNCHANGED <<pc, arm, code, sig, serve, startup, pool, call, worker, reaper, loop, expired>>

CloseReturns ==
    /\ Alive
    /\ mdns = "waiting"
    /\ loop = "gone"
    /\ mdns' = "closed"
    /\ UNCHANGED <<pc, arm, code, sig, serve, startup, pool, call, worker, reaper, loop, expired>>

\* serveLoop: a query arrives, handleQuery writes its answer.
ReadQuery ==
    /\ Alive
    /\ loop = "reading"
    /\ mdns \in {"open", "goodbye"}
    /\ loop' = "answering"
    /\ UNCHANGED <<pc, arm, code, sig, serve, startup, pool, call, worker, reaper, mdns, expired>>

HandleQuery ==
    /\ Alive
    /\ loop = "answering"
    /\ loop' = "reading"
    /\ UNCHANGED <<pc, arm, code, sig, serve, startup, pool, call, worker, reaper, mdns, expired>>

\* A read fails and done is closed.
LoopEnds ==
    /\ Alive
    /\ loop = "reading"
    /\ mdns \in {"goodbye", "waiting"}
    /\ loop' = "gone"
    /\ UNCHANGED <<pc, arm, code, sig, serve, startup, pool, call, worker, reaper, mdns, expired>>

---------------------------------------------------------------------------
Background ==
    \/ ServeFails
    \/ \E r \in Calls : \E route \in Routes : Accept(r, route)
    \/ \E r \in Calls : Query(r) \/ QueryEnds(r) \/ Respond(r)
    \/ Work \/ WorkQueryEnds \/ WorkerExits
    \/ Sweep \/ SweepEnds \/ ReaperExits
    \/ CloseResponder \/ CloseConn \/ CloseReturns
    \/ ReadQuery \/ HandleQuery \/ LoopEnds

ProcessNext == Signal \/ Run \/ Background

ProcessSpec == ProcessInit /\ [][ProcessNext]_pvars

\* run, the goroutines with nothing to wait for and the queries, which carry
\* a context that the way down cancels, make progress.  A handler or a job
\* may run for ever.
Fairness ==
    /\ WF_pvars(Run)
    /\ \A r \in Calls : WF_pvars(QueryEnds(r))
    /\ WF_pvars(WorkQueryEnds) /\ WF_pvars(WorkerExits)
    /\ WF_pvars(SweepEnds) /\ SF_pvars(ReaperExits)
    /\ WF_pvars(CloseResponder) /\ WF_pvars(CloseConn) /\ WF_pvars(CloseReturns)
    /\ WF_pvars(HandleQuery) /\ WF_pvars(LoopEnds)

FairProcess == ProcessSpec /\ Fairness

---------------------------------------------------------------------------
(* Properties *)

\* While startup still runs, the HTTP server answers: a request that needs a
\* reference is served only when the schema is migrated, and, unless it is
\* the readiness probe, when the keys its tokens are signed with are derived
\* (run.go's order, PoolRef).
ServedOnlyWhenWired ==
    \A r \in InFlight :
        /\ migrated /\ pool # "none"
        /\ call[r].kind = "api" => wired > KeyAt

\* Retries of waitForPostgres never start a second PostgreSQL on the data
\* directory (spawn.go's started flag).
SpawnedOnce == spawned <= 1

\* gracefulShutdown's order: when the pool begins to close, no request, no
\* job and no retention sweep is under way, except those whose grace period
\* ran out.
DrainedBeforeClose ==
    arm = "graceful" /\ pool \in {"closing", "closed"} =>
        /\ InFlight # {} => "http" \in expired
        /\ worker \notin {"off", "gone"} => "jobs" \in expired
        /\ reaper \in {"off", "gone"}

\* However run ends, the pool it opened is closed and no connection is out.
ExitReleasesPool == pc = "exited" => pool \in {"none", "closed"} /\ Acquired = {}

\* Exit code 0 answers a signal, and by then the responder has said goodbye
\* and answers no more queries.
CleanExit ==
    pc = "exited" /\ code = 0 =>
        /\ sig
        /\ mdns \in {"off", "closed"}
        /\ loop \in {"off", "gone"}

\* The invariant every step of run and of the goroutines keeps: the five
\* properties above and how far each place in run has got (run.go's order).
ProcessInvariant ==
    /\ ProcessTypeOK
    /\ \* what startup has done by each step
       /\ pc \in {"listen", "postgres", "obtain", "migrate", "newPool"} => pool = "none" /\ wired = 0
       /\ pc \in {"newPool", "wire", "key", "jobs", "ready"} => migrated
       /\ pc \in {"wire", "key", "jobs", "ready"} => pool = "open"
       /\ pc = "wire" => wired < Len(Wiring) - 1
       /\ pc = "key" => wired = KeyAt
       /\ pc = "jobs" => wired = Len(Wiring) - 1
       /\ wired > 0 => migrated /\ pool # "none"
       /\ pc \notin Going => arm = "none" /\ serve # "closed"
       /\ pc = "listen" => serve = "off" /\ mdns = "off"
    /\ \* what uses the pool, and when it is there
       /\ worker # "off" \/ reaper # "off" => pool # "none"
       /\ pool = "closing" => pc = "poolClosing"
       /\ pool = "closed" => pc = "exited"
       /\ pool = "open" => pc # "exited" /\ pc # "poolClosing"
       /\ pc = "poolClosing" => pool = "closing"
       /\ pool \in {"none", "closed"} => Acquired = {}
    /\ \* the order of the two ways down
       /\ arm = "graceful" => sig /\ code = 0
       /\ arm \in {"failed", "startup"} => code = 1
       /\ pc \in {"mdnsClose", "drain", "stopJobs", "stopReaper"} => arm \in {"graceful", "failed"}
       /\ pc \in {"drain", "stopReaper"} => arm = "graceful"
       /\ pc \in Going => arm # "none"
       /\ arm = "graceful" /\ pc # "mdnsClose" =>
             serve = "closed" /\ mdns \in {"off", "closed"}
       /\ arm = "graceful" /\ pc \in Going \ {"mdnsClose", "drain"} =>
             InFlight = {} \/ "http" \in expired
       /\ arm = "graceful" /\ pc \in {"stopReaper", "closePool", "poolClosing", "exited"} =>
             worker \in {"off", "gone"} \/ "jobs" \in expired
       /\ arm = "graceful" /\ pc \in {"closePool", "poolClosing", "exited"} =>
             reaper \in {"off", "gone"}
    /\ mdns = "off" => loop = "off"
    /\ mdns = "closed" => loop = "gone"
    /\ ServedOnlyWhenWired
    /\ SpawnedOnce
    /\ DrainedBeforeClose
    /\ ExitReleasesPool
    /\ CleanExit

\* A signal, whenever it comes, ends the process, whatever the handlers do.
SignalEndsProcess == sig ~> pc = "exited"
============================================================================
