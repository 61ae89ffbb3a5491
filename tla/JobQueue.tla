----------------------------- MODULE JobQueue -----------------------------
(***************************************************************************)
(* The background job queue of internal/jobs: the jobs table (store.go),   *)
(* the worker pool with its heartbeats and its reaper (engine.go), the     *)
(* registry of running handlers (live_jobs.go) and the administrator's API *)
(* (queue.go).  A database statement or transaction is one step; a worker  *)
(* that needs several round trips takes several.                           *)
(*                                                                         *)
(* Times are kept relative to the clock: dueIn is available_at - now and   *)
(* leaseLeft is locked_until - now, in ticks, so that Tick is the only     *)
(* action that mentions the passing of time and no clock grows.            *)
(***************************************************************************)
EXTENDS Integers, FiniteSets

CONSTANTS
    JobIds,       \* the identifiers a job can be inserted under
    DeadLetters,  \* the rows an earlier process has left, cancelled before they ran
    Workers,      \* the poller goroutines of one process (Config.Concurrency)
    MaxAttempts,  \* the registration's attempt budget, copied into each row
    Lease,        \* Config.LeaseDuration, in ticks
    BackoffBase,  \* Backoff.Base, in ticks
    BackoffMax,   \* Backoff.Max, in ticks
    MaxAge,       \* bound: a due row's age is only told apart up to MaxAge
    MaxRestarts,  \* bound: how often the process stops and comes back
    NoLease,      \* SQL NULL in locked_until
    NoWorker      \* no entry in the registry of running handlers

ASSUME TableAssumption == DeadLetters \subseteq JobIds
ASSUME BudgetAssumption == MaxAttempts \in Nat \ {0}
ASSUME TimeAssumption ==
    /\ Lease \in Nat \ {0}
    /\ BackoffBase \in Nat \ {0}
    /\ BackoffMax \in Nat \ {0}
    /\ MaxAge \in Nat
    /\ MaxRestarts \in Nat
ASSUME NullAssumption == NoLease \notin Int /\ NoWorker \notin Workers

VARIABLES
    jobs,        \* the jobs table
    worker,      \* per worker: what its goroutine is doing, and what it read
    live,        \* liveJobs.cancels: whose cancel function a job id maps to
    cancelling,  \* CancelJob calls between their commit and live.cancel
    engine,      \* the process: "up", "stopping" (context cancelled), "down"
    paused,      \* Engine.paused
    restarts     \* how often the process has stopped

vars == <<jobs, worker, live, cancelling, engine, paused, restarts>>

---------------------------------------------------------------------------
(* Rows and workers *)

\* "absent" rows have not been inserted, "deleted" ones were cleared.
States == {"queued", "running", "retrying", "completed", "dead_letter"}

Row == [status : States \cup {"absent", "deleted"},
        attempts : Nat,
        dueIn : Int,
        leaseLeft : (-1 .. Lease) \cup {NoLease},
        token : Nat,        \* lease_token: 0 is NULL, a later token is larger
        progress : Nat]     \* the attempt that last reported progress, 0: none

NoRow == [status |-> "absent", attempts |-> 0, dueIn |-> 0,
          leaseLeft |-> NoLease, token |-> 0, progress |-> 0]

IsTerminal(s) == s \in {"completed", "dead_letter"}

\* What a freshly enqueued job looks like.
NewRow == [NoRow EXCEPT !.status = "queued"]

\* A worker is "claimed" once ClaimNext's transaction has committed and the
\* row has not been re-read yet; "running" while the handler executes;
\* "writing" when the handler returned and its result is to be stored;
\* "leaving" when only execute's deferred calls remain.
Phases == {"idle", "claimed", "running", "writing", "leaving"}
Outcomes == {"none", "ok", "fail", "permanent"}

WorkerState == [pc : Phases,
                job : JobIds \cup {NoWorker},
                token : Nat,
                attempts : Nat,
                cancelled : BOOLEAN,   \* the per-job context is cancelled
                leaseLost : BOOLEAN,
                outcome : Outcomes]

Idle == [pc |-> "idle", job |-> NoWorker, token |-> 0, attempts |-> 0,
         cancelled |-> FALSE, leaseLost |-> FALSE, outcome |-> "none"]

\* The worker starts on the row r it has just read; it learns that its lease
\* is gone; its handler has returned o.
Loaded(s, r) == [s EXCEPT !.pc = "running", !.token = r.token, !.attempts = r.attempts]
LeaseLost(s) == [s EXCEPT !.leaseLost = TRUE, !.cancelled = TRUE]
Returned(s, o) == [s EXCEPT !.pc = "writing", !.outcome = o]

---------------------------------------------------------------------------
(* Backoff *)

\* The exponential curve without its jitter: Base * 2^(attempts - 1), capped.
RawDelay(n) ==
    LET raw == BackoffBase * 2^((IF n < 1 THEN 1 ELSE n) - 1)
    IN  IF raw > BackoffMax THEN BackoffMax ELSE raw

\* Every delay, in whole ticks, that a jitter factor in [0.8, 1.2) can give.
BackoffFor(n) ==
    {d \in 0 .. 2 * BackoffMax : 8 * RawDelay(n) <= 10 * d /\ 10 * d < 12 * RawDelay(n)}

---------------------------------------------------------------------------
(* The statements of store.go, as functions of the row they change *)

Claimable(r) == r.status \in {"queued", "retrying"} /\ r.dueIn <= 0

\* ORDER BY available_at LIMIT 1
OldestClaimable ==
    {j \in JobIds : /\ Claimable(jobs[j])
                    /\ \A k \in JobIds : Claimable(jobs[k]) => jobs[j].dueIn <= jobs[k].dueIn}

\* Mutants of Claim: a token that an earlier claim already had, and a claim
\* that forgets locked_until.
ClaimReusingToken(r) == [r EXCEPT !.status = "running", !.leaseLeft = Lease, !.token = 1,
                                  !.attempts = r.attempts + 1, !.dueIn = 0]
ClaimWithoutLease(r) == [r EXCEPT !.status = "running", !.token = r.token + 1,
                                  !.attempts = r.attempts + 1, !.dueIn = 0]

\* available_at is not read again before the next statement that sets it.
Claim(r) == [r EXCEPT !.status = "running", !.leaseLeft = Lease, !.token = r.token + 1,
                      !.attempts = r.attempts + 1, !.dueIn = 0]

\* Mutants of Fenced: half of the WHERE clause.
FencedByStatusOnly(w) == jobs[worker[w].job].status = "running"
FencedByTokenOnly(w) == jobs[worker[w].job].token = worker[w].token

\* WHERE id = $1 AND lease_token = $2 AND status = 'running'
Fenced(w) ==
    LET r == jobs[worker[w].job]
    IN  r.token = worker[w].token /\ r.status = "running"

Extend(r) == [r EXCEPT !.leaseLeft = Lease]

Complete(r) == [r EXCEPT !.status = "completed", !.leaseLeft = NoLease]

Fail(r, deadLetter, delay) ==
    [r EXCEPT !.status = IF deadLetter THEN "dead_letter" ELSE "retrying",
              !.dueIn = delay, !.leaseLeft = NoLease]

Stale(r) == r.status = "running" /\ r.leaseLeft # NoLease /\ r.leaseLeft < 0

\* The reaper's new token makes the original worker's token stale.
Reclaimed(r, delay) ==
    [r EXCEPT !.status = IF r.attempts >= MaxAttempts THEN "dead_letter" ELSE "retrying",
              !.dueIn = IF r.attempts >= MaxAttempts THEN 0 ELSE delay,
              !.leaseLeft = NoLease, !.token = r.token + 1]

Cancelled(r) == [r EXCEPT !.status = "dead_letter", !.leaseLeft = NoLease]

---------------------------------------------------------------------------
Init ==
    /\ jobs = [j \in JobIds |-> IF j \in DeadLetters THEN Cancelled(NewRow) ELSE NoRow]
    /\ worker = [w \in Workers |-> Idle]
    /\ live = [j \in JobIds |-> NoWorker]
    /\ cancelling = {}
    /\ engine = "up"
    /\ paused = FALSE
    /\ restarts = 0

(* Queue and administration *)

Enqueue(j) ==
    /\ engine # "down"
    /\ jobs[j].status = "absent"
    /\ jobs' = [jobs EXCEPT ![j] = NewRow]
    /\ UNCHANGED <<worker, live, cancelling, engine, paused, restarts>>

\* Queue.CancelJob, first half: the transaction of Store.CancelJob.  The
\* lease token stays in the row.
CancelJob(j) ==
    /\ engine # "down"
    /\ jobs[j].status \in States
    /\ ~IsTerminal(jobs[j].status)
    /\ jobs' = [jobs EXCEPT ![j] = Cancelled(@)]
    /\ cancelling' = cancelling \cup {j}
    /\ UNCHANGED <<worker, live, engine, paused, restarts>>

\* Queue.CancelJob, second half: live.cancel(id) aborts the handler if there
\* is an entry for the job.
CancelLive(j) ==
    /\ j \in cancelling
    /\ cancelling' = cancelling \ {j}
    /\ worker' = IF live[j] = NoWorker THEN worker
                 ELSE [worker EXCEPT ![live[j]].cancelled = TRUE]
    /\ UNCHANGED <<jobs, live, engine, paused, restarts>>

\* RetryJob copies a dead-letter row under a new identifier.
RetryJob(j, new) ==
    /\ engine # "down"
    /\ jobs[j].status = "dead_letter"
    /\ jobs[new].status = "absent"
    /\ jobs' = [jobs EXCEPT ![new] = NewRow]
    /\ UNCHANGED <<worker, live, cancelling, engine, paused, restarts>>

\* Which completed rows lie before the cutoff is left open.
ClearCompleted(old) ==
    /\ engine # "down"
    /\ old # {}
    /\ \A j \in old : jobs[j].status = "completed"
    /\ jobs' = [j \in JobIds |-> IF j \in old THEN [jobs[j] EXCEPT !.status = "deleted"]
                                 ELSE jobs[j]]
    /\ UNCHANGED <<worker, live, cancelling, engine, paused, restarts>>

Pause ==
    /\ engine # "down"
    /\ ~paused
    /\ paused' = TRUE
    /\ UNCHANGED <<jobs, worker, live, cancelling, engine, restarts>>

Resume ==
    /\ engine # "down"
    /\ paused
    /\ paused' = FALSE
    /\ UNCHANGED <<jobs, worker, live, cancelling, engine, restarts>>

---------------------------------------------------------------------------
(* The worker pool *)

\* pollOnce and the transaction of ClaimNext.
ClaimNext(w) ==
    /\ engine = "up"
    /\ ~paused
    /\ worker[w].pc = "idle"
    /\ \E j \in OldestClaimable :
          /\ jobs' = [jobs EXCEPT ![j] = Claim(@)]
          /\ worker' = [worker EXCEPT ![w] = [Idle EXCEPT !.pc = "claimed", !.job = j]]
    /\ UNCHANGED <<live, cancelling, engine, paused, restarts>>

\* The re-read of the row that ends ClaimNext, outside its transaction, and
\* the start of execute: whatever token the row holds by now is the one the
\* worker will use.
StartHandler(w) ==
    LET j == worker[w].job
    IN  /\ engine = "up"
        /\ worker[w].pc = "claimed"
        /\ jobs[j].status # "deleted"
        /\ worker' = [worker EXCEPT ![w] = Loaded(@, jobs[j])]
        /\ live' = [live EXCEPT ![j] = w]
        /\ UNCHANGED <<jobs, cancelling, engine, paused, restarts>>

\* The re-read fails: database error, cancelled context or a deleted row.
\* pollOnce drops the job and leaves its row running.
LoseClaim(w) ==
    /\ engine # "down"
    /\ worker[w].pc = "claimed"
    /\ worker' = [worker EXCEPT ![w] = Idle]
    /\ UNCHANGED <<jobs, live, cancelling, engine, paused, restarts>>

\* Mutant of Heartbeat: a lost lease is noted but the handler runs on.
HeartbeatWithoutCancel(w) ==
    /\ engine = "up"
    /\ worker[w].pc = "running"
    /\ ~worker[w].cancelled
    /\ IF Fenced(w)
       THEN /\ jobs' = [jobs EXCEPT ![worker[w].job] = Extend(@)]
            /\ UNCHANGED worker
       ELSE /\ worker' = [worker EXCEPT ![w].leaseLost = TRUE]
            /\ UNCHANGED jobs
    /\ UNCHANGED <<live, cancelling, engine, paused, restarts>>

\* One tick of the heartbeat goroutine whose statement reaches the database.
Heartbeat(w) ==
    /\ engine = "up"
    /\ worker[w].pc = "running"
    /\ ~worker[w].cancelled
    /\ IF Fenced(w)
       THEN /\ jobs' = [jobs EXCEPT ![worker[w].job] = Extend(@)]
            /\ UNCHANGED worker
       ELSE /\ worker' = [worker EXCEPT ![w] = LeaseLost(@)]
            /\ UNCHANGED jobs
    /\ UNCHANGED <<live, cancelling, engine, paused, restarts>>

\* The handler calls report: a fenced write of its own.
ReportProgress(w) ==
    /\ engine = "up"
    /\ worker[w].pc = "running"
    /\ ~worker[w].leaseLost
    /\ Fenced(w)
    /\ jobs' = [jobs EXCEPT ![worker[w].job].progress = worker[w].attempts]
    /\ UNCHANGED <<worker, live, cancelling, engine, paused, restarts>>

\* The handler returns (a panic is a failure) and execute decides whether its
\* result is to be written at all.
HandlerReturns(w) ==
    /\ engine # "down"
    /\ worker[w].pc = "running"
    /\ IF worker[w].leaseLost \/ engine = "stopping" \/ worker[w].cancelled
       THEN worker' = [worker EXCEPT ![w].pc = "leaving"]
       ELSE \E o \in Outcomes \ {"none"} :
               worker' = [worker EXCEPT ![w] = Returned(@, o)]
    /\ UNCHANGED <<jobs, live, cancelling, engine, paused, restarts>>

\* finishSuccess: the write runs on a context that shutdown does not cancel.
FinishSuccess(w) ==
    /\ engine # "down"
    /\ worker[w].pc = "writing"
    /\ worker[w].outcome = "ok"
    /\ jobs' = IF Fenced(w) THEN [jobs EXCEPT ![worker[w].job] = Complete(@)] ELSE jobs
    /\ worker' = [worker EXCEPT ![w].pc = "leaving"]
    /\ UNCHANGED <<live, cancelling, engine, paused, restarts>>

FinishFailure(w) ==
    LET deadLetter == \/ worker[w].outcome = "permanent"
                      \/ worker[w].attempts >= MaxAttempts
    IN  /\ engine # "down"
        /\ worker[w].pc = "writing"
        /\ worker[w].outcome \in {"fail", "permanent"}
        /\ \E delay \in IF deadLetter THEN {0} ELSE BackoffFor(worker[w].attempts) :
              jobs' = IF Fenced(w)
                      THEN [jobs EXCEPT ![worker[w].job] = Fail(@, deadLetter, delay)]
                      ELSE jobs
        /\ worker' = [worker EXCEPT ![w].pc = "leaving"]
        /\ UNCHANGED <<live, cancelling, engine, paused, restarts>>

\* The terminal write times out or fails: execute returns all the same.
FinishWriteFails(w) ==
    /\ engine # "down"
    /\ worker[w].pc = "writing"
    /\ worker' = [worker EXCEPT ![w].pc = "leaving"]
    /\ UNCHANGED <<jobs, live, cancelling, engine, paused, restarts>>

\* execute's deferred live.remove(id): the entry goes, whoever it belongs to.
Leave(w) ==
    /\ engine # "down"
    /\ worker[w].pc = "leaving"
    /\ live' = [live EXCEPT ![worker[w].job] = NoWorker]
    /\ worker' = [worker EXCEPT ![w] = Idle]
    /\ UNCHANGED <<jobs, cancelling, engine, paused, restarts>>

---------------------------------------------------------------------------
(* The reaper, the process and the clock *)

\* reclaimOne: the sweep's list is re-checked under the row lock, so a row is
\* judged by the lease it has when it is reclaimed.
ReclaimOne(j) ==
    /\ engine # "down"
    /\ Stale(jobs[j])
    /\ \E delay \in BackoffFor(jobs[j].attempts) :
          jobs' = [jobs EXCEPT ![j] = Reclaimed(@, delay)]
    /\ UNCHANGED <<worker, live, cancelling, engine, paused, restarts>>

\* Shutdown cancels the pool's context.
Shutdown ==
    /\ engine = "up"
    /\ restarts < MaxRestarts
    /\ engine' = "stopping"
    /\ UNCHANGED <<jobs, worker, live, cancelling, paused, restarts>>

\* The process ends: every worker has returned, or the grace period is over
\* and the rest are abandoned, or it crashes.
Exit ==
    /\ engine # "down"
    /\ restarts < MaxRestarts
    /\ engine' = "down"
    /\ restarts' = restarts + 1
    /\ worker' = [w \in Workers |-> Idle]
    /\ live' = [j \in JobIds |-> NoWorker]
    /\ cancelling' = {}
    /\ paused' = FALSE
    /\ UNCHANGED jobs

Start ==
    /\ engine = "down"
    /\ engine' = "up"
    /\ UNCHANGED <<jobs, worker, live, cancelling, paused, restarts>>

\* One tick passes for every deadline that is still waited for.
Aged(r) ==
    [r EXCEPT !.dueIn = IF r.status \in {"queued", "retrying"} /\ r.dueIn > -MaxAge
                        THEN r.dueIn - 1 ELSE r.dueIn,
              !.leaseLeft = IF r.leaseLeft # NoLease /\ r.leaseLeft > -1
                            THEN r.leaseLeft - 1 ELSE r.leaseLeft]

Tick ==
    /\ jobs' = [j \in JobIds |-> Aged(jobs[j])]
    /\ jobs' # jobs
    /\ UNCHANGED <<worker, live, cancelling, engine, paused, restarts>>

---------------------------------------------------------------------------
AdminNext ==
    \/ \E j \in JobIds : Enqueue(j) \/ CancelJob(j) \/ CancelLive(j)
    \/ \E j, new \in JobIds : RetryJob(j, new)
    \/ \E old \in SUBSET JobIds : ClearCompleted(old)
    \/ Pause
    \/ Resume

WorkerNext(w) ==
    \/ ClaimNext(w)
    \/ StartHandler(w)
    \/ LoseClaim(w)
    \/ Heartbeat(w)
    \/ ReportProgress(w)
    \/ HandlerReturns(w)
    \/ FinishSuccess(w)
    \/ FinishFailure(w)
    \/ FinishWriteFails(w)
    \/ Leave(w)

Next ==
    \/ AdminNext
    \/ \E w \in Workers : WorkerNext(w)
    \/ \E j \in JobIds : ReclaimOne(j)
    \/ Shutdown
    \/ Exit
    \/ Start
    \/ Tick

Spec == Init /\ [][Next]_vars
---------------------------------------------------------------------------
(* Fairness *)

\* Goroutines are scheduled, the clock runs, the reaper's ticker fires, a
\* shutdown ends (its grace period is bounded), a stopped process is started
\* again, and a handler returns once its context is cancelled.  Nothing
\* obliges a handler to return before that.
Fairness ==
    /\ \A w \in Workers :
          /\ WF_vars(ClaimNext(w))
          /\ WF_vars(StartHandler(w) \/ LoseClaim(w))
          /\ WF_vars(Heartbeat(w))
          /\ WF_vars(HandlerReturns(w) /\ (worker[w].cancelled \/ engine = "stopping"))
          /\ WF_vars(FinishSuccess(w) \/ FinishFailure(w) \/ FinishWriteFails(w))
          /\ WF_vars(Leave(w))
    /\ \A j \in JobIds : WF_vars(ReclaimOne(j)) /\ WF_vars(CancelLive(j))
    /\ WF_vars(Exit /\ engine = "stopping")
    /\ WF_vars(Start)
    /\ WF_vars(Tick)

FairSpec == Spec /\ Fairness

---------------------------------------------------------------------------
(* Properties *)

\* The columns of the jobs table and the fields of a worker's execution.
TypeOK ==
    /\ jobs \in [JobIds -> Row]
    /\ worker \in [Workers -> WorkerState]
    /\ live \in [JobIds -> Workers \cup {NoWorker}]
    /\ cancelling \in SUBSET JobIds
    /\ engine \in {"up", "stopping", "down"}
    /\ paused \in BOOLEAN
    /\ restarts \in Nat

\* No interleaving of failures, reclaims, late writes and restarts gives a
\* job more attempts than its budget, and a job that is waiting to be claimed
\* always has one left (finishFailure decides from the worker's copy of
\* attempts, reclaimOne from the row's).
AttemptsWithinBudget ==
    \A j \in JobIds :
        /\ jobs[j].attempts <= MaxAttempts
        /\ jobs[j].status \in {"queued", "retrying"} => jobs[j].attempts < MaxAttempts

\* A row has a lease exactly while it is running: a running row without
\* locked_until would never satisfy the reaper's locked_until < now, and no
\* worker could ever claim it again.
LeaseIffRunning ==
    \A j \in JobIds : jobs[j].status = "running" <=> jobs[j].leaseLeft # NoLease

Executing(w) == worker[w].pc \in {"running", "writing", "leaving"}

\* A worker whose token would still pass the fence works on the attempt the
\* row is in, although another worker may have claimed the row since this
\* one did: the fence can stand in for a comparison of attempts.
OwnerKnowsAttempt ==
    \A w \in Workers :
        LET r == jobs[worker[w].job]
        IN  Executing(w) /\ r.status = "running" /\ r.token = worker[w].token
                => r.attempts = worker[w].attempts

\* The result of an attempt is stored only while that attempt is the current
\* one: a handler that outlived its lease, or whose job was cancelled, changes
\* nothing when it finally returns ("a harmless late write", store.go).
LateWriteDiscarded ==
    [][\A w \in Workers :
         LET j == worker[w].job
         IN  worker[w].pc = "writing" /\ worker'[w].pc = "leaving" /\ jobs' # jobs
                => /\ jobs[j].status = "running"
                   /\ jobs[j].attempts = worker[w].attempts]_vars

\* The progress an administrator sees never falls back to what an earlier
\* attempt reported, however long that attempt's handler keeps running.
ProgressNeverRegresses ==
    [][\A j \in JobIds : jobs'[j].progress >= jobs[j].progress]_vars

\* A cancel function in the registry belongs to a worker that is executing
\* that very job, so an administrator's cancel never aborts another job.
CancelHitsItsJob ==
    \A j \in JobIds :
        live[j] # NoWorker => Executing(live[j]) /\ worker[live[j]].job = j

\* A row's counters and its status agree.
RowConsistent(r) ==
    /\ r.attempts <= MaxAttempts
    /\ r.status = "absent" => r.attempts = 0
    /\ r.status \in {"queued", "retrying"} => r.attempts < MaxAttempts
    /\ r.status = "running" <=> r.leaseLeft # NoLease
    /\ r.progress <= r.attempts

\* What a worker read is no newer than the row, and as old as its token.
WorkerConsistent(w) ==
    LET r == jobs[worker[w].job]
    IN  /\ worker[w].pc # "idle" => worker[w].job \in JobIds /\ r.status # "absent"
        /\ Executing(w) => /\ worker[w].token <= r.token
                           /\ worker[w].token = r.token => worker[w].attempts = r.attempts

\* The inductive invariant behind the safety properties: tokens only grow, so
\* a token seen by a worker identifies the attempt it belongs to.
QueueInvariant ==
    /\ TypeOK
    /\ \A j \in JobIds : RowConsistent(jobs[j])
    /\ \A w \in Workers : WorkerConsistent(w)
    /\ CancelHitsItsJob

Lifecycle == INSTANCE JobLifecycle
    WITH status <- [j \in JobIds |-> jobs[j].status],
         attempts <- [j \in JobIds |-> jobs[j].attempts]

\* Store, workers, reaper and restarts together implement the lifecycle that
\* callers of Enqueue rely on; in particular a completed, cancelled or
\* dead-lettered job is never revived.
ImplementsLifecycle == Lifecycle!LSpec

\* Every handler returns some time: the import handler, the only one the
\* server registers, has no loop that waits for anything.
HandlersReturn == \A w \in Workers : WF_vars(HandlerReturns(w))

\* Every job that was ever enqueued ends: completed or given up, whatever
\* crashes, lost database writes, failing handlers and expired leases come
\* in between, if handlers return and no administrator leaves the queue paused.
EveryJobSettles ==
    HandlersReturn /\ <>[]~paused =>
        \A j \in JobIds :
            jobs[j].status \in States ~>
                (IsTerminal(jobs[j].status) \/ jobs[j].status = "deleted")

\* A handler whose job was cancelled, or whose lease was reclaimed, is told
\* to stop by its own heartbeat even if the administrator's cancel missed it,
\* and does not run on for ever.
StaleHandlerStops ==
    \A w \in Workers :
        (worker[w].pc = "running" /\ ~Fenced(w)) ~> (worker[w].pc # "running")

---------------------------------------------------------------------------
(* A statement of the code's comments that the code does not keep *)

\* store.go: a reclaim sets "a new lease token (so the original worker's token
\* is stale everywhere)".
OneHolderPerLease ==
    \A v, w \in Workers :
        /\ v # w
        /\ worker[v].pc \in {"running", "writing"}
        /\ worker[w].pc \in {"running", "writing"}
        /\ worker[v].job = worker[w].job
        => worker[v].token # worker[w].token

=============================================================================
