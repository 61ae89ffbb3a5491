-------------------------- MODULE JobQueueProofs --------------------------
(***************************************************************************)
(* Proofs about the job queue for every number of jobs and workers, every  *)
(* attempt budget and every lease duration.                                *)
(***************************************************************************)
EXTENDS JobQueue, TLAPS

\* A backoff delay is a natural number of ticks (Backoff.For).
LEMMA BackoffIsNat ==
    ASSUME NEW n, NEW d \in BackoffFor(n)
    PROVE  d \in Nat
BY TimeAssumption DEF BackoffFor

\* The statements of store.go yield rows of the table's type.
LEMMA RowType ==
    ASSUME NEW r \in Row, NEW delay \in Nat, NEW dead \in BOOLEAN
    PROVE  /\ NewRow \in Row
           /\ Claim(r) \in Row
           /\ Extend(r) \in Row
           /\ Complete(r) \in Row
           /\ Fail(r, dead, delay) \in Row
           /\ Reclaimed(r, delay) \in Row
           /\ Cancelled(r) \in Row
           /\ Aged(r) \in Row
           /\ [r EXCEPT !.status = "deleted"] \in Row
<1> USE TimeAssumption, BudgetAssumption, NullAssumption DEF Row, States
<1>1. NewRow \in Row BY DEF NewRow, NoRow
<1>2. Claim(r) \in Row
  <2> DEFINE a == [r EXCEPT !.status = "running"]
             b == [a EXCEPT !.leaseLeft = Lease]
             c == [b EXCEPT !.token = r.token + 1]
             d == [c EXCEPT !.attempts = r.attempts + 1]
             e == [d EXCEPT !.dueIn = 0]
  <2>1. a \in Row OBVIOUS
  <2> HIDE DEF a
  <2>2. b \in Row BY <2>1
  <2> HIDE DEF b
  <2>3. c \in Row BY <2>2
  <2> HIDE DEF c
  <2>4. d \in Row BY <2>3
  <2> HIDE DEF d
  <2>5. e \in Row BY <2>4
  <2>6. Claim(r) = e BY DEF Claim, a, b, c, d
  <2> QED BY <2>5, <2>6
<1>3. Extend(r) \in Row BY DEF Extend
<1>4. Complete(r) \in Row
  <2> DEFINE a == [r EXCEPT !.status = "completed"]
             b == [a EXCEPT !.leaseLeft = NoLease]
  <2>1. a \in Row OBVIOUS
  <2> HIDE DEF a
  <2>2. b \in Row BY <2>1
  <2>3. Complete(r) = b BY DEF Complete, a
  <2> QED BY <2>2, <2>3
<1>5. Fail(r, dead, delay) \in Row
  <2> DEFINE a == [r EXCEPT !.status = IF dead THEN "dead_letter" ELSE "retrying"]
             b == [a EXCEPT !.dueIn = delay]
             c == [b EXCEPT !.leaseLeft = NoLease]
  <2>1. a \in Row OBVIOUS
  <2> HIDE DEF a
  <2>2. b \in Row BY <2>1
  <2> HIDE DEF b
  <2>3. c \in Row BY <2>2
  <2>4. Fail(r, dead, delay) = c BY DEF Fail, a, b
  <2> QED BY <2>3, <2>4
<1>6. Reclaimed(r, delay) \in Row
  <2> DEFINE a == [r EXCEPT !.status = IF r.attempts >= MaxAttempts THEN "dead_letter" ELSE "retrying"]
             b == [a EXCEPT !.dueIn = IF r.attempts >= MaxAttempts THEN 0 ELSE delay]
             c == [b EXCEPT !.leaseLeft = NoLease]
             d == [c EXCEPT !.token = r.token + 1]
  <2>1. a \in Row OBVIOUS
  <2> HIDE DEF a
  <2>2. b \in Row BY <2>1
  <2> HIDE DEF b
  <2>3. c \in Row BY <2>2
  <2> HIDE DEF c
  <2>4. d \in Row BY <2>3
  <2>5. Reclaimed(r, delay) = d BY DEF Reclaimed, a, b, c
  <2> QED BY <2>4, <2>5
<1>7. Cancelled(r) \in Row BY Zenon DEF Cancelled
<1>8. Aged(r) \in Row
  <2> DEFINE a == [r EXCEPT !.dueIn = IF r.status \in {"queued", "retrying"} /\ r.dueIn > -MaxAge THEN r.dueIn - 1 ELSE r.dueIn]
             b == [a EXCEPT !.leaseLeft = IF r.leaseLeft # NoLease /\ r.leaseLeft > -1 THEN r.leaseLeft - 1 ELSE r.leaseLeft]
  <2>1. a \in Row OBVIOUS
  <2> HIDE DEF a
  <2>2. b \in Row BY <2>1
  <2>3. Aged(r) = b BY DEF Aged, a
  <2> QED BY <2>2, <2>3
<1>9. [r EXCEPT !.status = "deleted"] \in Row OBVIOUS
<1> QED BY <1>1, <1>2, <1>3, <1>4, <1>5, <1>6, <1>7, <1>8, <1>9

\* The statements of store.go keep a row's counters and status in agreement;
\* Fail needs to know whether the budget is spent.
LEMMA RowStaysConsistent ==
    ASSUME NEW r \in Row, RowConsistent(r), NEW d \in Nat, NEW dead \in BOOLEAN
    PROVE  /\ RowConsistent(NewRow)
           /\ Claimable(r) => RowConsistent(Claim(r))
           /\ r.status = "running" => RowConsistent(Extend(r))
           /\ r.status = "running" => RowConsistent(Complete(r))
           /\ r.status = "running" /\ (dead \/ r.attempts < MaxAttempts)
                => RowConsistent(Fail(r, dead, d))
           /\ RowConsistent(Reclaimed(r, d))
           /\ RowConsistent(Cancelled(r))
           /\ RowConsistent(Aged(r))
           /\ r.status = "completed" => RowConsistent([r EXCEPT !.status = "deleted"])
<1> USE TimeAssumption, BudgetAssumption, NullAssumption DEF Row, States, RowConsistent
<1>1. RowConsistent(NewRow) BY DEF NewRow, NoRow
<1>2. Claimable(r) => RowConsistent(Claim(r)) BY DEF Claimable, Claim
<1>3. r.status = "running" => RowConsistent(Extend(r)) BY DEF Extend
<1>4. r.status = "running" => RowConsistent(Complete(r)) BY DEF Complete
<1>5. r.status = "running" /\ (dead \/ r.attempts < MaxAttempts) => RowConsistent(Fail(r, dead, d))
  BY DEF Fail
<1>6. RowConsistent(Reclaimed(r, d)) BY DEF Reclaimed
<1>7. RowConsistent(Cancelled(r)) BY DEF Cancelled
<1>8. RowConsistent(Aged(r)) BY DEF Aged
<1>9. r.status = "completed" => RowConsistent([r EXCEPT !.status = "deleted"]) OBVIOUS
<1> QED BY <1>1, <1>2, <1>3, <1>4, <1>5, <1>6, <1>7, <1>8, <1>9


\* The steps of a worker yield worker states.
LEMMA WorkerType ==
    ASSUME NEW s \in WorkerState, NEW r \in Row, NEW o \in Outcomes
    PROVE  /\ Idle \in WorkerState
           /\ \A j \in JobIds : [Idle EXCEPT !.pc = "claimed", !.job = j] \in WorkerState
           /\ Loaded(s, r) \in WorkerState
           /\ LeaseLost(s) \in WorkerState
           /\ Returned(s, o) \in WorkerState
           /\ [s EXCEPT !.cancelled = TRUE] \in WorkerState
           /\ [s EXCEPT !.pc = "leaving"] \in WorkerState
<1> USE DEF WorkerState, Phases, Outcomes
<1>1. Idle \in WorkerState BY DEF Idle
<1>2. ASSUME NEW j \in JobIds
      PROVE  [Idle EXCEPT !.pc = "claimed", !.job = j] \in WorkerState
  BY Zenon DEF Idle
<1>3. Loaded(s, r) \in WorkerState
  <2> DEFINE a == [s EXCEPT !.pc = "running"]
             b == [a EXCEPT !.token = r.token]
             c == [b EXCEPT !.attempts = r.attempts]
  <2>1. a \in WorkerState OBVIOUS
  <2> HIDE DEF a
  <2>2. b \in WorkerState BY <2>1 DEF Row
  <2> HIDE DEF b
  <2>3. c \in WorkerState BY <2>2 DEF Row
  <2>4. Loaded(s, r) = c BY DEF Loaded, a, b
  <2> QED BY <2>3, <2>4
<1>4. LeaseLost(s) \in WorkerState
  <2> DEFINE a == [s EXCEPT !.leaseLost = TRUE]
             b == [a EXCEPT !.cancelled = TRUE]
  <2>1. a \in WorkerState BY Zenon
  <2> HIDE DEF a
  <2>2. b \in WorkerState BY <2>1, Zenon
  <2>3. LeaseLost(s) = b BY DEF LeaseLost, a
  <2> QED BY <2>2, <2>3
<1>5. Returned(s, o) \in WorkerState
  <2> DEFINE a == [s EXCEPT !.pc = "writing"]
             b == [a EXCEPT !.outcome = o]
  <2>1. a \in WorkerState OBVIOUS
  <2> HIDE DEF a
  <2>2. b \in WorkerState BY <2>1
  <2>3. Returned(s, o) = b BY DEF Returned, a
  <2> QED BY <2>2, <2>3
<1>6. [s EXCEPT !.cancelled = TRUE] \in WorkerState BY Zenon
<1>7. [s EXCEPT !.pc = "leaving"] \in WorkerState OBVIOUS
<1> QED BY <1>1, <1>2, <1>3, <1>4, <1>5, <1>6, <1>7, Zenon

\* An inserted row stays inserted, its token never goes back, and its attempt
\* only changes together with its token.
Later(r, new) ==
    r.status # "absent" => /\ new.status # "absent"
                           /\ new.token >= r.token
                           /\ new.token = r.token => new.attempts = r.attempts

\* Every statement of store.go moves its row forward in that sense.
LEMMA RowsMoveForward ==
    ASSUME NEW r \in Row, NEW d \in Nat, NEW dead \in BOOLEAN
    PROVE  /\ Later(r, r)
           /\ r.status = "absent" => Later(r, NewRow)
           /\ Later(r, Claim(r)) /\ Claim(r).token > r.token
           /\ Later(r, Extend(r))
           /\ Later(r, Complete(r))
           /\ Later(r, Fail(r, dead, d))
           /\ Later(r, Reclaimed(r, d))
           /\ Later(r, Cancelled(r))
           /\ Later(r, Aged(r))
           /\ Later(r, [r EXCEPT !.status = "deleted"])
<1> USE DEF Row, Later
<1>1. Later(r, r) OBVIOUS
<1>2. r.status = "absent" => Later(r, NewRow) OBVIOUS
<1>3. Later(r, Claim(r)) /\ Claim(r).token > r.token BY DEF Claim
<1>4. Later(r, Extend(r)) BY DEF Extend
<1>5. Later(r, Complete(r)) BY DEF Complete
<1>6. Later(r, Fail(r, dead, d)) BY DEF Fail
<1>7. Later(r, Reclaimed(r, d)) BY DEF Reclaimed
<1>8. Later(r, Cancelled(r)) BY DEF Cancelled
<1>9. Later(r, Aged(r)) BY DEF Aged
<1>10. Later(r, [r EXCEPT !.status = "deleted"]) OBVIOUS
<1> QED BY <1>1, <1>2, <1>3, <1>4, <1>5, <1>6, <1>7, <1>8, <1>9, <1>10

\* If every row moves forward, a worker that does not change stays consistent
\* with its row.
LEMMA WorkerKeepsUp ==
    ASSUME QueueInvariant, NEW w \in Workers, worker'[w] = worker[w],
           jobs' \in [JobIds -> Row],
           \A j \in JobIds : Later(jobs[j], jobs'[j])
    PROVE  WorkerConsistent(w)'
<1>1. WorkerConsistent(w) /\ worker[w] \in WorkerState /\ jobs \in [JobIds -> Row]
  BY DEF QueueInvariant, TypeOK
<1>2. CASE worker[w].pc = "idle"
  BY <1>2 DEF WorkerConsistent, Executing
<1>3. CASE worker[w].pc # "idle"
  <2> DEFINE j == worker[w].job
  <2>1. j \in JobIds /\ jobs[j].status # "absent"
    BY <1>1, <1>3 DEF WorkerConsistent
  <2>2. /\ jobs'[j].status # "absent"
        /\ jobs'[j].token >= jobs[j].token
        /\ jobs'[j].token = jobs[j].token => jobs'[j].attempts = jobs[j].attempts
    BY <2>1 DEF Later
  <2>3. /\ jobs[j].token \in Nat /\ jobs'[j].token \in Nat /\ worker[w].token \in Nat
    BY <1>1, <2>1 DEF Row, WorkerState
  <2> QED BY <1>1, <2>1, <2>2, <2>3 DEF WorkerConsistent, Executing
<1> QED BY <1>2, <1>3

\* A step that only changes rows, each of them forward, keeps the invariant.
LEMMA RowStep ==
    ASSUME QueueInvariant, UNCHANGED <<worker, live>>, TypeOK',
           \A j \in JobIds : RowConsistent(jobs'[j]) /\ Later(jobs[j], jobs'[j])
    PROVE  QueueInvariant'
<1>1. \A w \in Workers : WorkerConsistent(w)' BY WorkerKeepsUp DEF TypeOK
<1>2. CancelHitsItsJob' BY DEF QueueInvariant, CancelHitsItsJob, Executing
<1> QED BY <1>1, <1>2 DEF QueueInvariant

\* A step that leaves the table alone and changes one worker in a consistent
\* way keeps the invariant.
LEMMA WorkerStep ==
    ASSUME QueueInvariant, UNCHANGED jobs, TypeOK', NEW w \in Workers,
           \A v \in Workers \ {w} : worker'[v] = worker[v],
           WorkerConsistent(w)', CancelHitsItsJob'
    PROVE  QueueInvariant'
<1>1. \A j \in JobIds : RowConsistent(jobs'[j]) BY DEF QueueInvariant
<1>2. \A v \in Workers \ {w} : WorkerConsistent(v)'
  BY DEF QueueInvariant, WorkerConsistent, Executing
<1> QED BY <1>1, <1>2 DEF QueueInvariant

\* The case of one row, with every other variable but cancelling unchanged.
LEMMA OneRowStep ==
    ASSUME QueueInvariant, NEW j \in JobIds, NEW r \in Row,
           RowConsistent(r), Later(jobs[j], r), jobs' = [jobs EXCEPT ![j] = r],
           cancelling' \in SUBSET JobIds, UNCHANGED <<worker, live, engine, paused, restarts>>
    PROVE  QueueInvariant'
<1>1. jobs \in [JobIds -> Row] BY DEF QueueInvariant, TypeOK
<1>2. TypeOK' BY <1>1 DEF QueueInvariant, TypeOK
<1>3. \A k \in JobIds : RowConsistent(jobs'[k]) /\ Later(jobs[k], jobs'[k])
  <2> TAKE k \in JobIds
  <2>1. CASE k = j BY <1>1, <2>1
  <2>2. CASE k # j
    <3>1. jobs'[k] = jobs[k] BY <1>1, <2>2
    <3>2. RowConsistent(jobs[k]) BY DEF QueueInvariant
    <3>3. Later(jobs[k], jobs[k]) BY <1>1, RowsMoveForward, Zenon
    <3> QED BY <3>1, <3>2, <3>3
  <2> QED BY <2>1, <2>2
<1> QED BY <1>2, <1>3, RowStep

\* The actions of the queue's API, the reaper, the process and the clock.
LEMMA EnvironmentKeepsInvariant ==
    ASSUME QueueInvariant, AdminNext \/ (\E j \in JobIds : ReclaimOne(j)) \/ Shutdown \/ Exit \/ Start \/ Tick
    PROVE  QueueInvariant'
<1>0. /\ jobs \in [JobIds -> Row] /\ worker \in [Workers -> WorkerState] /\ TypeOK
      /\ \A j \in JobIds : RowConsistent(jobs[j])
  BY DEF QueueInvariant, TypeOK
<1>1. ASSUME NEW j \in JobIds, Enqueue(j) PROVE QueueInvariant'
  <2>1. NewRow \in Row /\ RowConsistent(NewRow) /\ Later(jobs[j], NewRow)
    BY <1>0, <1>1, RowType, RowStaysConsistent, RowsMoveForward, Zenon DEF Enqueue
  <2> QED BY <1>0, <1>1, <2>1, OneRowStep, Zenon DEF Enqueue, TypeOK
<1>2. ASSUME NEW j \in JobIds, CancelJob(j) PROVE QueueInvariant'
  <2> DEFINE r == Cancelled(jobs[j])
  <2>1. r \in Row /\ RowConsistent(r) /\ Later(jobs[j], r)
    BY <1>0, RowType, RowStaysConsistent, RowsMoveForward, Zenon
  <2>2. jobs' = [jobs EXCEPT ![j] = r] /\ cancelling' \in SUBSET JobIds
    BY <1>0, <1>2 DEF CancelJob, TypeOK
  <2> HIDE DEF r
  <2> QED BY <1>2, <2>1, <2>2, OneRowStep, Zenon DEF CancelJob
<1>3. ASSUME NEW j \in JobIds, CancelLive(j) PROVE QueueInvariant'
  <2> USE DEF CancelLive
  <2>1. CASE live[j] = NoWorker
    BY <1>3, <2>1 DEF QueueInvariant, TypeOK, WorkerConsistent, CancelHitsItsJob, Executing
  <2>2. CASE live[j] # NoWorker
    <3>1. PICK w \in Workers : w = live[j] BY <1>0, <2>2 DEF TypeOK
    <3>2. worker' = [worker EXCEPT ![w] = [@ EXCEPT !.cancelled = TRUE]] BY <1>3, <2>2, <3>1
    <3>3. [worker[w] EXCEPT !.cancelled = TRUE] \in WorkerState
      BY <1>0, <3>1, Zenon DEF WorkerState
    <3>4. TypeOK' BY <1>0, <1>3, <3>1, <3>2, <3>3 DEF TypeOK
    <3>5. /\ \A v \in Workers \ {w} : worker'[v] = worker[v]
          /\ worker'[w].pc = worker[w].pc /\ worker'[w].job = worker[w].job
          /\ worker'[w].token = worker[w].token /\ worker'[w].attempts = worker[w].attempts
      BY <1>0, <3>1, <3>2 DEF WorkerState
    <3>6. WorkerConsistent(w)'
      BY <1>3, <3>1, <3>5 DEF QueueInvariant, WorkerConsistent, Executing
    <3>7. \A v \in Workers : Executing(v)' = Executing(v) /\ worker'[v].job = worker[v].job
      BY <3>5 DEF Executing
    <3>8. CancelHitsItsJob'
      BY <1>0, <1>3, <3>7 DEF QueueInvariant, CancelHitsItsJob, TypeOK
    <3> QED BY <1>3, <3>1, <3>4, <3>5, <3>6, <3>8, WorkerStep
  <2> QED BY <2>1, <2>2
<1>4. ASSUME NEW j \in JobIds, NEW new \in JobIds, RetryJob(j, new) PROVE QueueInvariant'
  <2>1. NewRow \in Row /\ RowConsistent(NewRow) /\ Later(jobs[new], NewRow)
    BY <1>0, <1>4, RowType, RowStaysConsistent, RowsMoveForward, Zenon DEF RetryJob
  <2> QED BY <1>0, <1>4, <2>1, OneRowStep, Zenon DEF RetryJob, TypeOK
<1>5. ASSUME NEW old \in SUBSET JobIds, ClearCompleted(old) PROVE QueueInvariant'
  <2>1. ASSUME NEW j \in JobIds
        PROVE  jobs'[j] \in Row /\ RowConsistent(jobs'[j]) /\ Later(jobs[j], jobs'[j])
    <3>1. CASE j \in old
      <4>1. jobs'[j] = [jobs[j] EXCEPT !.status = "deleted"] /\ jobs[j].status = "completed"
        BY <1>5, <3>1 DEF ClearCompleted
      <4> QED BY <1>0, <4>1, RowType, RowStaysConsistent, RowsMoveForward, Zenon
    <3>2. CASE j \notin old
      <4>1. jobs'[j] = jobs[j] BY <1>5, <3>2 DEF ClearCompleted
      <4> QED BY <1>0, <4>1, RowsMoveForward, Zenon
    <3> QED BY <3>1, <3>2
  <2>2. jobs' \in [JobIds -> Row] BY <1>5, <2>1 DEF ClearCompleted
  <2>3. TypeOK' BY <1>0, <1>5, <2>2 DEF ClearCompleted, TypeOK
  <2> QED BY <1>5, <2>1, <2>3, RowStep DEF ClearCompleted
<1>6. ASSUME Pause \/ Resume \/ Shutdown \/ Start PROVE QueueInvariant'
  BY <1>6, Zenon DEF Pause, Resume, Shutdown, Start, QueueInvariant, TypeOK, WorkerConsistent,
              CancelHitsItsJob, Executing
<1>7. ASSUME NEW j \in JobIds, ReclaimOne(j) PROVE QueueInvariant'
  <2>1. PICK d \in BackoffFor(jobs[j].attempts) : jobs' = [jobs EXCEPT ![j] = Reclaimed(@, d)]
    BY <1>7, Zenon DEF ReclaimOne
  <2> DEFINE r == Reclaimed(jobs[j], d)
  <2>2. d \in Nat BY BackoffIsNat
  <2>3. r \in Row /\ RowConsistent(r) /\ Later(jobs[j], r)
    BY <1>0, <2>2, RowType, RowStaysConsistent, RowsMoveForward, Zenon
  <2>4. jobs' = [jobs EXCEPT ![j] = r] BY <2>1
  <2> HIDE DEF r
  <2> QED BY <1>0, <1>7, <2>3, <2>4, OneRowStep, Zenon DEF ReclaimOne, TypeOK
<1>8. ASSUME Exit PROVE QueueInvariant'
  <2>0. Idle \in WorkerState BY DEF Idle, WorkerState, Phases, Outcomes
  <2>1. TypeOK'
    <3>1. worker' \in [Workers -> WorkerState] BY <1>8, <2>0 DEF Exit
    <3>2. live' \in [JobIds -> Workers \cup {NoWorker}] BY <1>8 DEF Exit
    <3>3. restarts' \in Nat BY <1>0, <1>8 DEF Exit, TypeOK
    <3>4. jobs' \in [JobIds -> Row] BY <1>0, <1>8 DEF Exit
    <3>5. cancelling' \in SUBSET JobIds /\ engine' \in {"up", "stopping", "down"} /\ paused' \in BOOLEAN
      BY <1>8, Zenon DEF Exit
    <3> QED BY <3>1, <3>2, <3>3, <3>4, <3>5 DEF TypeOK
  <2>2. \A w \in Workers : WorkerConsistent(w)'
    BY <1>8 DEF Exit, WorkerConsistent, Executing, Idle
  <2>3. CancelHitsItsJob' BY <1>8 DEF Exit, CancelHitsItsJob
  <2> QED BY <1>0, <1>8, <2>1, <2>2, <2>3 DEF Exit, QueueInvariant
<1>9. ASSUME Tick PROVE QueueInvariant'
  <2>1. ASSUME NEW j \in JobIds
        PROVE  jobs'[j] \in Row /\ RowConsistent(jobs'[j]) /\ Later(jobs[j], jobs'[j])
    <3>1. jobs'[j] = Aged(jobs[j]) BY <1>9 DEF Tick
    <3> QED BY <1>0, <3>1, RowType, RowStaysConsistent, RowsMoveForward, Zenon
  <2>2. jobs' \in [JobIds -> Row] BY <1>9, <2>1 DEF Tick
  <2>3. TypeOK' BY <1>0, <1>9, <2>2 DEF Tick, TypeOK
  <2> QED BY <1>9, <2>1, <2>3, RowStep DEF Tick
<1> QED BY <1>1, <1>2, <1>3, <1>4, <1>5, <1>6, <1>7, <1>8, <1>9 DEF AdminNext

\* A worker that only moves on within its execution, keeping its job, token
\* and attempt, keeps the invariant when the rows move forward.
LEMMA ExecutionStep ==
    ASSUME QueueInvariant, TypeOK', NEW w \in Workers, NEW s \in WorkerState,
           worker' = [worker EXCEPT ![w] = s],
           s.pc \in {"running", "writing", "leaving"}, Executing(w),
           s.job = worker[w].job, s.token = worker[w].token, s.attempts = worker[w].attempts,
           \A j \in JobIds : RowConsistent(jobs'[j]) /\ Later(jobs[j], jobs'[j]),
           UNCHANGED live
    PROVE  QueueInvariant'
<1>0. /\ worker \in [Workers -> WorkerState] /\ jobs \in [JobIds -> Row]
      /\ jobs' \in [JobIds -> Row] /\ live \in [JobIds -> Workers \cup {NoWorker}]
  BY DEF QueueInvariant, TypeOK
<1>1. \A v \in Workers \ {w} : worker'[v] = worker[v] BY <1>0
<1>2. worker'[w] = s BY <1>0
<1>3. WorkerConsistent(w)'
  <2> DEFINE j == s.job
  <2>1. /\ j \in JobIds /\ jobs[j].status # "absent" /\ s.token <= jobs[j].token
        /\ s.token = jobs[j].token => s.attempts = jobs[j].attempts
    BY DEF QueueInvariant, WorkerConsistent, Executing
  <2>2. /\ jobs'[j].status # "absent" /\ jobs'[j].token >= jobs[j].token
        /\ jobs'[j].token = jobs[j].token => jobs'[j].attempts = jobs[j].attempts
    BY <2>1 DEF Later
  <2>3. jobs[j].token \in Nat /\ jobs'[j].token \in Nat /\ s.token \in Nat
    BY <1>0, <2>1 DEF Row, WorkerState
  <2> QED BY <1>2, <2>1, <2>2, <2>3 DEF WorkerConsistent, Executing
<1>4. \A v \in Workers : WorkerConsistent(v)'
  BY <1>0, <1>1, <1>3, WorkerKeepsUp
<1>5. \A v \in Workers : Executing(v) => Executing(v)' /\ worker'[v].job = worker[v].job
  BY <1>1, <1>2 DEF Executing
<1>6. CancelHitsItsJob' BY <1>0, <1>5 DEF QueueInvariant, CancelHitsItsJob
<1> QED BY <1>4, <1>6 DEF QueueInvariant

\* The actions of a worker.
LEMMA WorkerKeepsInvariant ==
    ASSUME QueueInvariant, NEW w \in Workers, WorkerNext(w)
    PROVE  QueueInvariant'
<1>0. /\ jobs \in [JobIds -> Row] /\ worker \in [Workers -> WorkerState] /\ TypeOK
      /\ live \in [JobIds -> Workers \cup {NoWorker}]
      /\ \A j \in JobIds : RowConsistent(jobs[j]) /\ Later(jobs[j], jobs[j])
      /\ worker[w] \in WorkerState
  BY RowsMoveForward, Zenon DEF QueueInvariant, TypeOK
<1> DEFINE j == worker[w].job
<1>e. ASSUME worker[w].pc # "idle"
      PROVE  /\ j \in JobIds /\ jobs[j].status # "absent" /\ jobs[j] \in Row
             /\ RowConsistent(jobs[j])
  BY <1>0, <1>e DEF QueueInvariant, WorkerConsistent
<1>f. ASSUME Fenced(w), Executing(w)
      PROVE  /\ j \in JobIds /\ jobs[j] \in Row /\ jobs[j].status = "running"
             /\ jobs[j].attempts = worker[w].attempts
  BY <1>0, <1>e, <1>f DEF Fenced, QueueInvariant, WorkerConsistent, Executing
<1>1. ASSUME ClaimNext(w) PROVE QueueInvariant'
  <2>1. PICK k \in OldestClaimable :
           /\ jobs' = [jobs EXCEPT ![k] = Claim(@)]
           /\ worker' = [worker EXCEPT ![w] = [Idle EXCEPT !.pc = "claimed", !.job = k]]
    BY <1>1, Zenon DEF ClaimNext
  <2> DEFINE r == Claim(jobs[k])
             s == [Idle EXCEPT !.pc = "claimed", !.job = k]
  <2>2. k \in JobIds /\ Claimable(jobs[k]) BY DEF OldestClaimable
  <2>3. r \in Row /\ RowConsistent(r) /\ Later(jobs[k], r)
    BY <1>0, <2>2, RowType, RowStaysConsistent, RowsMoveForward, Zenon
  <2>4. r.status = "running" BY <1>0, <2>2 DEF Claim, Row
  <2>5. s \in WorkerState /\ s.pc = "claimed" /\ s.job = k
    BY <2>2, Zenon DEF Idle, WorkerState, Phases, Outcomes
  <2>6. jobs' = [jobs EXCEPT ![k] = r] /\ worker' = [worker EXCEPT ![w] = s] BY <2>1
  <2> HIDE DEF r, s
  <2>7. TypeOK' BY <1>0, <1>1, <2>3, <2>5, <2>6, Zenon DEF ClaimNext, TypeOK
  <2>8. \A i \in JobIds : RowConsistent(jobs'[i]) /\ Later(jobs[i], jobs'[i])
    BY <1>0, <2>2, <2>3, <2>6
  <2>9. worker[w].pc = "idle" /\ UNCHANGED live BY <1>1 DEF ClaimNext
  <2>10. \A v \in Workers \ {w} : worker'[v] = worker[v] BY <1>0, <2>6
  <2>11. worker'[w] = s BY <1>0, <2>6
  <2>12. jobs'[k] = r BY <1>0, <2>2, <2>6
  <2>13. WorkerConsistent(w)' BY <2>2, <2>4, <2>5, <2>11, <2>12 DEF WorkerConsistent, Executing
  <2>14. \A v \in Workers : WorkerConsistent(v)'
    BY <2>7, <2>8, <2>10, <2>13, WorkerKeepsUp DEF TypeOK
  <2>15. CancelHitsItsJob'
    BY <1>0, <2>9, <2>10 DEF QueueInvariant, CancelHitsItsJob, Executing
  <2> QED BY <2>7, <2>8, <2>14, <2>15 DEF QueueInvariant
<1>2. ASSUME StartHandler(w) PROVE QueueInvariant'
  <2> DEFINE s == Loaded(worker[w], jobs[j])
  <2>1. /\ worker[w].pc = "claimed" /\ worker' = [worker EXCEPT ![w] = s]
        /\ live' = [live EXCEPT ![j] = w] /\ UNCHANGED jobs
    BY <1>2 DEF StartHandler
  <2>2. j \in JobIds /\ jobs[j].status # "absent" /\ jobs[j] \in Row BY <1>e, <2>1
  <2>3. s \in WorkerState BY <1>0, <2>2, WorkerType, Zenon DEF Outcomes
  <2>4. s.pc = "running" /\ s.job = j /\ s.token = jobs[j].token /\ s.attempts = jobs[j].attempts
    BY <1>0 DEF Loaded, WorkerState
  <2> HIDE DEF s
  <2>5. TypeOK' BY <1>0, <1>2, <2>1, <2>2, <2>3 DEF StartHandler, TypeOK
  <2>6. \A v \in Workers \ {w} : worker'[v] = worker[v] BY <1>0, <2>1
  <2>7. worker'[w] = s BY <1>0, <2>1
  <2>8. WorkerConsistent(w)' BY <2>1, <2>2, <2>4, <2>7 DEF WorkerConsistent, Executing, Row
  <2>9. CancelHitsItsJob'
    <3> SUFFICES ASSUME NEW i \in JobIds, live'[i] # NoWorker
                 PROVE  /\ worker'[live'[i]].pc \in {"running", "writing", "leaving"}
                        /\ worker'[live'[i]].job = i
      BY DEF CancelHitsItsJob, Executing
    <3>1. CASE i = j BY <1>0, <2>1, <2>2, <2>4, <2>7, <3>1 DEF Executing
    <3>2. CASE i # j
      <4>1. live'[i] = live[i] BY <1>0, <2>1, <3>2
      <4>2. Executing(live[i]) /\ worker[live[i]].job = i
        BY <4>1 DEF QueueInvariant, CancelHitsItsJob
      <4>3. live[i] \in Workers \ {w} BY <1>0, <2>1, <4>1, <4>2 DEF Executing
      <4> QED BY <2>6, <4>1, <4>2, <4>3 DEF Executing
    <3> QED BY <3>1, <3>2
  <2> QED BY <2>1, <2>5, <2>6, <2>8, <2>9, WorkerStep
<1>3. ASSUME LoseClaim(w) PROVE QueueInvariant'
  <2>1. Idle \in WorkerState BY DEF Idle, WorkerState, Phases, Outcomes
  <2>2. TypeOK' BY <1>0, <1>3, <2>1 DEF LoseClaim, TypeOK
  <2>3. \A v \in Workers \ {w} : worker'[v] = worker[v] BY <1>0, <1>3 DEF LoseClaim
  <2>4. worker'[w] = Idle /\ worker[w].pc = "claimed" /\ UNCHANGED <<jobs, live>>
    BY <1>0, <1>3 DEF LoseClaim
  <2>5. WorkerConsistent(w)' BY <2>4 DEF WorkerConsistent, Executing, Idle
  <2>6. CancelHitsItsJob'
    BY <1>0, <2>3, <2>4 DEF QueueInvariant, CancelHitsItsJob, Executing
  <2> QED BY <2>2, <2>3, <2>4, <2>5, <2>6, WorkerStep
<1>4. ASSUME Heartbeat(w) PROVE QueueInvariant'
  <2>0. Executing(w) /\ worker[w].pc = "running" BY <1>4 DEF Heartbeat, Executing
  <2>1. CASE Fenced(w)
    <3> DEFINE r == Extend(jobs[j])
    <3>1. r \in Row /\ RowConsistent(r) /\ Later(jobs[j], r)
      BY <1>0, <1>f, <2>0, <2>1, RowType, RowStaysConsistent, RowsMoveForward, Zenon
    <3>2. jobs' = [jobs EXCEPT ![j] = r] BY <1>4, <2>1 DEF Heartbeat
    <3>3. PICK i \in JobIds : i = j BY <1>f, <2>0, <2>1
    <3> HIDE DEF r, j
    <3> QED BY <1>0, <1>4, <2>1, <3>1, <3>2, <3>3, OneRowStep, Zenon DEF Heartbeat, TypeOK
  <2>2. CASE ~Fenced(w)
    <3> DEFINE s == LeaseLost(worker[w])
    <3>1. s \in WorkerState BY <1>0, <1>e, <2>0, WorkerType, Zenon DEF Outcomes
    <3>2. s.pc = "running" /\ s.job = j /\ s.token = worker[w].token /\ s.attempts = worker[w].attempts
      BY <1>0, <2>0 DEF LeaseLost, WorkerState
    <3>3. worker' = [worker EXCEPT ![w] = s] /\ UNCHANGED <<jobs, live>>
      BY <1>4, <2>2 DEF Heartbeat
    <3> HIDE DEF s
    <3>4. TypeOK' BY <1>0, <1>4, <3>1, <3>3 DEF Heartbeat, TypeOK
    <3> QED BY <1>0, <2>0, <3>1, <3>2, <3>3, <3>4, ExecutionStep, Zenon
  <2> QED BY <2>1, <2>2
<1>5. ASSUME ReportProgress(w) PROVE QueueInvariant'
  <2>0. Executing(w) /\ Fenced(w) BY <1>5 DEF ReportProgress, Executing
  <2> DEFINE r == [jobs[j] EXCEPT !.progress = worker[w].attempts]
  <2>1. r \in Row /\ RowConsistent(r) /\ Later(jobs[j], r)
    BY <1>0, <1>f, <2>0 DEF Row, WorkerState, RowConsistent, Later
  <2>2. jobs' = [jobs EXCEPT ![j] = r] BY <1>5 DEF ReportProgress
  <2>3. PICK i \in JobIds : i = j BY <1>f, <2>0
  <2> HIDE DEF r, j
  <2> QED BY <1>0, <1>5, <2>1, <2>2, <2>3, OneRowStep, Zenon DEF ReportProgress, TypeOK
<1>6. ASSUME HandlerReturns(w) PROVE QueueInvariant'
  <2>0. Executing(w) /\ UNCHANGED <<jobs, live>> BY <1>6 DEF HandlerReturns, Executing
  <2>1. PICK s \in WorkerState :
           /\ worker' = [worker EXCEPT ![w] = s] /\ s.pc \in {"writing", "leaving"}
           /\ s.job = j /\ s.token = worker[w].token /\ s.attempts = worker[w].attempts
    <3>1. CASE worker' = [worker EXCEPT ![w].pc = "leaving"]
      <4> DEFINE s == [worker[w] EXCEPT !.pc = "leaving"]
      <4>1. s \in WorkerState BY <1>0 DEF WorkerState, Phases
      <4>2. s.pc = "leaving" /\ s.job = j /\ s.token = worker[w].token /\ s.attempts = worker[w].attempts
        BY <1>0 DEF WorkerState
      <4> QED BY <3>1, <4>1, <4>2, Zenon
    <3>2. CASE \E o \in Outcomes \ {"none"} : worker' = [worker EXCEPT ![w] = Returned(@, o)]
      <4>1. PICK o \in Outcomes : worker' = [worker EXCEPT ![w] = Returned(@, o)] BY <3>2, Zenon
      <4>2. Returned(worker[w], o) \in WorkerState BY <1>0, <1>e, <2>0, WorkerType, Zenon DEF Executing
      <4>3. /\ Returned(worker[w], o).pc = "writing" /\ Returned(worker[w], o).job = j
            /\ Returned(worker[w], o).token = worker[w].token
            /\ Returned(worker[w], o).attempts = worker[w].attempts
        BY <1>0 DEF Returned, WorkerState
      <4> QED BY <4>1, <4>2, <4>3, Zenon
    <3> QED BY <1>6, <3>1, <3>2 DEF HandlerReturns
  <2>2. TypeOK' BY <1>0, <1>6, <2>1 DEF HandlerReturns, TypeOK
  <2> QED BY <1>0, <2>0, <2>1, <2>2, ExecutionStep, Zenon
<1>7. ASSUME FinishSuccess(w) \/ FinishFailure(w) \/ FinishWriteFails(w) PROVE QueueInvariant'
  <2> DEFINE s == [worker[w] EXCEPT !.pc = "leaving"]
  <2>0. /\ Executing(w) /\ worker' = [worker EXCEPT ![w] = s]
        /\ UNCHANGED <<live, cancelling, engine, paused, restarts>>
    BY <1>7, Zenon DEF FinishSuccess, FinishFailure, FinishWriteFails, Executing
  <2>1. s \in WorkerState BY <1>0 DEF WorkerState, Phases
  <2>2. s.pc = "leaving" /\ s.job = j /\ s.token = worker[w].token /\ s.attempts = worker[w].attempts
    BY <1>0 DEF WorkerState
  <2>3. \/ UNCHANGED jobs
        \/ \E r \in Row : RowConsistent(r) /\ Later(jobs[j], r) /\ jobs' = [jobs EXCEPT ![j] = r]
    <3>1. CASE FinishSuccess(w) /\ Fenced(w)
      <4>1. Complete(jobs[j]) \in Row /\ RowConsistent(Complete(jobs[j])) /\ Later(jobs[j], Complete(jobs[j]))
        BY <1>0, <1>f, <2>0, <3>1, RowType, RowStaysConsistent, RowsMoveForward, Zenon
      <4> QED BY <3>1, <4>1, Zenon DEF FinishSuccess
    <3>2. CASE FinishFailure(w) /\ Fenced(w)
      <4> DEFINE dead == worker[w].outcome = "permanent" \/ worker[w].attempts >= MaxAttempts
      <4>1. PICK d \in IF dead THEN {0} ELSE BackoffFor(worker[w].attempts) :
               jobs' = [jobs EXCEPT ![j] = Fail(@, dead, d)]
        BY <3>2, Zenon DEF FinishFailure
      <4>2. d \in Nat BY BackoffIsNat
      <4>3. dead \in BOOLEAN OBVIOUS
      <4>4. /\ j \in JobIds /\ jobs[j] \in Row /\ jobs[j].status = "running"
            /\ RowConsistent(jobs[j]) /\ (dead \/ jobs[j].attempts < MaxAttempts)
        BY <1>0, <1>f, <2>0, <3>2, BudgetAssumption DEF Row
      <4> HIDE DEF dead
      <4>5. /\ Fail(jobs[j], dead, d) \in Row /\ RowConsistent(Fail(jobs[j], dead, d))
            /\ Later(jobs[j], Fail(jobs[j], dead, d))
        BY <4>2, <4>3, <4>4, RowType, RowStaysConsistent, RowsMoveForward, Zenon
      <4> QED BY <4>1, <4>5, Zenon
    <3>3. CASE FinishWriteFails(w) \/ ~Fenced(w)
      BY <1>7, <3>3, Zenon DEF FinishSuccess, FinishFailure, FinishWriteFails
    <3> QED BY <1>7, <3>1, <3>2, <3>3
  <2>4. jobs' \in [JobIds -> Row] /\ \A i \in JobIds : RowConsistent(jobs'[i]) /\ Later(jobs[i], jobs'[i])
    BY <1>0, <2>3
  <2> HIDE DEF s
  <2>5. TypeOK' BY <1>0, <2>0, <2>1, <2>4 DEF TypeOK
  <2> QED BY <1>0, <2>0, <2>1, <2>2, <2>4, <2>5, ExecutionStep, Zenon
<1>8. ASSUME Leave(w) PROVE QueueInvariant'
  <2>1. /\ worker[w].pc = "leaving" /\ live' = [live EXCEPT ![j] = NoWorker]
        /\ worker' = [worker EXCEPT ![w] = Idle] /\ UNCHANGED jobs
    BY <1>8 DEF Leave
  <2>2. Idle \in WorkerState BY DEF Idle, WorkerState, Phases, Outcomes
  <2>3. TypeOK' BY <1>0, <1>8, <2>1, <2>2, Zenon DEF Leave, TypeOK
  <2>4. \A v \in Workers \ {w} : worker'[v] = worker[v] BY <1>0, <2>1
  <2>5. WorkerConsistent(w)' BY <1>0, <2>1 DEF WorkerConsistent, Executing, Idle
  <2>6. CancelHitsItsJob'
    <3> SUFFICES ASSUME NEW i \in JobIds, live'[i] # NoWorker
                 PROVE  /\ worker'[live'[i]].pc \in {"running", "writing", "leaving"}
                        /\ worker'[live'[i]].job = i
      BY DEF CancelHitsItsJob, Executing
    <3>1. i # j /\ live'[i] = live[i] BY <1>0, <2>1
    <3>2. Executing(live[i]) /\ worker[live[i]].job = i /\ live[i] \in Workers
      BY <1>0, <3>1 DEF QueueInvariant, CancelHitsItsJob
    <3>3. live[i] # w BY <3>1, <3>2
    <3> QED BY <2>4, <3>1, <3>2, <3>3 DEF Executing
  <2> QED BY <2>1, <2>3, <2>4, <2>5, <2>6, WorkerStep
<1> QED BY <1>1, <1>2, <1>3, <1>4, <1>5, <1>6, <1>7, <1>8 DEF WorkerNext

\* The invariant holds initially and every step keeps it.
LEMMA QueueInvariantInductive ==
    /\ Init => QueueInvariant
    /\ QueueInvariant /\ [Next]_vars => QueueInvariant'
<1>1. ASSUME Init PROVE QueueInvariant
  <2> USE <1>1 DEF Init
  <2>1. NoRow \in Row /\ RowConsistent(NoRow)
    BY BudgetAssumption, NullAssumption DEF NoRow, Row, States, RowConsistent
  <2>2. Cancelled(NewRow) \in Row /\ RowConsistent(Cancelled(NewRow))
    <3>1. 0 \in Nat /\ TRUE \in BOOLEAN OBVIOUS
    <3>2. NewRow \in Row /\ RowConsistent(NewRow)
      BY <2>1, <3>1, RowType, RowStaysConsistent, Zenon
    <3> QED BY <3>1, <3>2, RowType, RowStaysConsistent, Zenon
  <2>3. TypeOK /\ \A j \in JobIds : RowConsistent(jobs[j])
    <3>1. Idle \in WorkerState BY DEF Idle, WorkerState, Phases, Outcomes
    <3>2. jobs \in [JobIds -> Row] BY <2>1, <2>2, Zenon
    <3>3. \A j \in JobIds : RowConsistent(jobs[j]) BY <2>1, <2>2, Zenon
    <3> QED BY <3>1, <3>2, <3>3, Zenon DEF TypeOK
  <2>4. \A w \in Workers : WorkerConsistent(w) BY DEF WorkerConsistent, Executing, Idle
  <2>5. CancelHitsItsJob BY DEF CancelHitsItsJob
  <2> QED BY <2>3, <2>4, <2>5 DEF QueueInvariant
<1>2. ASSUME QueueInvariant, [Next]_vars PROVE QueueInvariant'
  <2>1. CASE Next BY <1>2, <2>1, EnvironmentKeepsInvariant, WorkerKeepsInvariant DEF Next
  <2>2. CASE UNCHANGED vars
    BY <1>2, <2>2 DEF vars, QueueInvariant, TypeOK, WorkerConsistent, CancelHitsItsJob, Executing
  <2> QED BY <1>2, <2>1, <2>2
<1> QED BY <1>1, <1>2

\* The inductive invariant holds in every reachable state of the queue.
THEOREM QueueInvariantHolds == Spec => []QueueInvariant
BY QueueInvariantInductive, PTL DEF Spec

\* The table, the workers and the registry have their types: type correctness
\* of the queue for all constants.
THEOREM TypeCorrect == Spec => []TypeOK
<1>1. QueueInvariant => TypeOK BY DEF QueueInvariant
<1> QED BY <1>1, QueueInvariantHolds, PTL

\* Whatever fails, is reclaimed or restarts, a job is attempted at most
\* MaxAttempts times.
THEOREM BudgetIsKept == Spec => []AttemptsWithinBudget
<1>1. QueueInvariant => AttemptsWithinBudget
  BY DEF QueueInvariant, AttemptsWithinBudget, RowConsistent
<1> QED BY <1>1, QueueInvariantHolds, PTL

\* A row is leased exactly while it runs, so the reaper can see every job that
\* a dead worker left behind.
THEOREM LeaseExactlyWhileRunning == Spec => []LeaseIffRunning
<1>1. QueueInvariant => LeaseIffRunning
  BY DEF QueueInvariant, LeaseIffRunning, RowConsistent
<1> QED BY <1>1, QueueInvariantHolds, PTL

\* A worker that passes the fence works on the row's current attempt.
THEOREM FenceImpliesCurrentAttempt == Spec => []OwnerKnowsAttempt
<1>1. QueueInvariant => OwnerKnowsAttempt
  BY DEF QueueInvariant, OwnerKnowsAttempt, WorkerConsistent
<1> QED BY <1>1, QueueInvariantHolds, PTL

\* An administrator's cancel reaches no handler but that of the job named.
THEOREM CancelIsPrecise == Spec => []CancelHitsItsJob
<1>1. QueueInvariant => CancelHitsItsJob BY DEF QueueInvariant
<1> QED BY <1>1, QueueInvariantHolds, PTL

---------------------------------------------------------------------------
(* The queue implements the job lifecycle *)

statusBar == [j \in JobIds |-> jobs[j].status]
attemptsBar == [j \in JobIds |-> jobs[j].attempts]

\* A step that changes no status and no attempt counter is invisible.
LEMMA Invisible ==
    ASSUME QueueInvariant, jobs' \in [JobIds -> Row],
           \A j \in JobIds : /\ jobs'[j].status = jobs[j].status
                             /\ jobs'[j].attempts = jobs[j].attempts
    PROVE  UNCHANGED Lifecycle!lifecycleVars
BY DEF Lifecycle!lifecycleVars

\* A step that replaces the row of j and keeps its attempts moves the abstract
\* job j to the new status.
LEMMA VisibleMove ==
    ASSUME QueueInvariant, NEW j \in JobIds, NEW r \in Row,
           jobs' = [jobs EXCEPT ![j] = r], r.attempts = jobs[j].attempts
    PROVE  /\ statusBar' = [statusBar EXCEPT ![j] = r.status]
           /\ attemptsBar' = attemptsBar
<1>1. jobs \in [JobIds -> Row] BY DEF QueueInvariant, TypeOK
<1>2. jobs'[j] = r /\ \A k \in JobIds \ {j} : jobs'[k] = jobs[k] BY <1>1
<1> QED BY <1>1, <1>2, Zenon DEF statusBar, attemptsBar

\* What the unconditional statements of store.go do to status and attempts.
LEMMA StatusOf ==
    ASSUME NEW r \in Row
    PROVE  /\ Claim(r).status = "running" /\ Claim(r).attempts = r.attempts + 1
           /\ Extend(r).status = r.status /\ Extend(r).attempts = r.attempts
           /\ Complete(r).status = "completed" /\ Complete(r).attempts = r.attempts
           /\ Cancelled(r).status = "dead_letter" /\ Cancelled(r).attempts = r.attempts
           /\ Aged(r).status = r.status /\ Aged(r).attempts = r.attempts
<1> USE DEF Row
<1>1. Claim(r).status = "running" /\ Claim(r).attempts = r.attempts + 1 BY DEF Claim
<1>2. Extend(r).status = r.status /\ Extend(r).attempts = r.attempts BY DEF Extend
<1>3. Complete(r).status = "completed" /\ Complete(r).attempts = r.attempts BY DEF Complete
<1>4. Cancelled(r).status = "dead_letter" /\ Cancelled(r).attempts = r.attempts BY DEF Cancelled
<1>5. Aged(r).status = r.status /\ Aged(r).attempts = r.attempts BY DEF Aged
<1> QED BY <1>1, <1>2, <1>3, <1>4, <1>5

\* Every step of the queue is a step of the lifecycle or leaves it alone.
LEMMA StepRefines ==
    ASSUME QueueInvariant, Next
    PROVE  Lifecycle!LNext \/ UNCHANGED Lifecycle!lifecycleVars
<1>0. /\ jobs \in [JobIds -> Row] /\ worker \in [Workers -> WorkerState]
      /\ \A j \in JobIds : RowConsistent(jobs[j])
      /\ \A j \in JobIds : jobs[j].attempts \in Nat
  BY DEF QueueInvariant, TypeOK, Row
<1> USE DEF statusBar, attemptsBar, Lifecycle!Move, Lifecycle!Waiting
<1>1. ASSUME NEW j \in JobIds, Enqueue(j) PROVE Lifecycle!Submit(j)
  <2>1. NewRow \in Row /\ NewRow.status = "queued" /\ NewRow.attempts = 0
    BY DEF NewRow, NoRow, Row, States
  <2>2. jobs[j].status = "absent" /\ jobs[j].attempts = 0 /\ jobs' = [jobs EXCEPT ![j] = NewRow]
    BY <1>0, <1>1 DEF Enqueue, RowConsistent
  <2>3. statusBar' = [statusBar EXCEPT ![j] = "queued"] /\ attemptsBar' = attemptsBar
    BY <2>1, <2>2, VisibleMove, Zenon
  <2> QED BY <2>2, <2>3 DEF Lifecycle!Submit
<1>2. ASSUME NEW j \in JobIds, CancelJob(j) PROVE Lifecycle!GiveUp(j)
  <2> DEFINE r == Cancelled(jobs[j])
  <2>1. r \in Row /\ r.status = "dead_letter" /\ r.attempts = jobs[j].attempts
    BY <1>0, RowType, StatusOf, Zenon
  <2>2. jobs' = [jobs EXCEPT ![j] = r] BY <1>2 DEF CancelJob
  <2> HIDE DEF r
  <2>3. statusBar' = [statusBar EXCEPT ![j] = "dead_letter"] /\ attemptsBar' = attemptsBar
    BY <2>1, <2>2, VisibleMove, Zenon
  <2>4. jobs[j].status \in {"queued", "retrying", "running"}
    BY <1>2 DEF CancelJob, IsTerminal, States
  <2> QED BY <2>3, <2>4 DEF Lifecycle!GiveUp
<1>3. ASSUME NEW j \in JobIds, NEW new \in JobIds, RetryJob(j, new) PROVE Lifecycle!Submit(new)
  <2>1. NewRow \in Row /\ NewRow.status = "queued" /\ NewRow.attempts = 0
    BY DEF NewRow, NoRow, Row, States
  <2>2. jobs[new].status = "absent" /\ jobs[new].attempts = 0 /\ jobs' = [jobs EXCEPT ![new] = NewRow]
    BY <1>0, <1>3 DEF RetryJob, RowConsistent
  <2>3. statusBar' = [statusBar EXCEPT ![new] = "queued"] /\ attemptsBar' = attemptsBar
    BY <2>1, <2>2, VisibleMove, Zenon
  <2> QED BY <2>2, <2>3 DEF Lifecycle!Submit
<1>4. ASSUME NEW old \in SUBSET JobIds, ClearCompleted(old) PROVE Lifecycle!Forget(old)
  <2>1. \A j \in JobIds : /\ jobs'[j].status = IF j \in old THEN "deleted" ELSE jobs[j].status
                          /\ jobs'[j].attempts = jobs[j].attempts
    BY <1>0, <1>4 DEF ClearCompleted, Row
  <2> QED BY <1>4, <2>1 DEF ClearCompleted, Lifecycle!Forget
<1>5. ASSUME NEW j \in JobIds, ReclaimOne(j) PROVE Lifecycle!TryAgain(j) \/ Lifecycle!GiveUp(j)
  <2>1. PICK d \in BackoffFor(jobs[j].attempts) : jobs' = [jobs EXCEPT ![j] = Reclaimed(@, d)]
    BY <1>5, Zenon DEF ReclaimOne
  <2> DEFINE r == Reclaimed(jobs[j], d)
  <2>2. d \in Nat BY BackoffIsNat
  <2>3. /\ r \in Row /\ r.attempts = jobs[j].attempts
        /\ jobs[j].attempts >= MaxAttempts => r.status = "dead_letter"
        /\ ~(jobs[j].attempts >= MaxAttempts) => r.status = "retrying"
    <3>1. r \in Row BY <1>0, <2>2, RowType, Zenon
    <3> QED BY <1>0, <3>1 DEF Reclaimed, Row
  <2>4. jobs' = [jobs EXCEPT ![j] = r] BY <2>1
  <2> HIDE DEF r
  <2>5. statusBar' = [statusBar EXCEPT ![j] = r.status] /\ attemptsBar' = attemptsBar
    BY <2>3, <2>4, VisibleMove, Zenon
  <2>6. jobs[j].status = "running" BY <1>5 DEF ReclaimOne, Stale
  <2>7. CASE jobs[j].attempts >= MaxAttempts BY <2>3, <2>5, <2>6, <2>7, Zenon DEF Lifecycle!GiveUp
  <2>8. CASE ~(jobs[j].attempts >= MaxAttempts)
    <3>1. jobs[j].attempts < MaxAttempts BY <1>0, <2>8, BudgetAssumption
    <3> QED BY <2>3, <2>5, <2>6, <2>8, <3>1, Zenon DEF Lifecycle!TryAgain
  <2> QED BY <2>7, <2>8
<1>6. ASSUME NEW w \in Workers, ClaimNext(w) PROVE \E j \in JobIds : Lifecycle!Begin(j)
  <2>1. PICK j \in OldestClaimable : jobs' = [jobs EXCEPT ![j] = Claim(@)]
    BY <1>6, Zenon DEF ClaimNext
  <2>2. j \in JobIds /\ jobs[j].status \in {"queued", "retrying"} BY DEF OldestClaimable, Claimable
  <2> DEFINE r == Claim(jobs[j])
  <2>3. r \in Row /\ r.status = "running" /\ r.attempts = jobs[j].attempts + 1
    BY <1>0, <2>2, RowType, StatusOf, Zenon
  <2> HIDE DEF r
  <2>4. jobs'[j] = r /\ \A k \in JobIds \ {j} : jobs'[k] = jobs[k] BY <1>0, <2>1, <2>2 DEF r
  <2>5. statusBar' = [statusBar EXCEPT ![j] = "running"] BY <2>2, <2>3, <2>4, Zenon
  <2>6. attemptsBar' = [attemptsBar EXCEPT ![j] = @ + 1] BY <2>2, <2>3, <2>4, Zenon
  <2>7. jobs[j].attempts < MaxAttempts BY <1>0, <2>2 DEF RowConsistent
  <2> QED BY <2>2, <2>5, <2>6, <2>7, Zenon DEF Lifecycle!Begin
<1>7. ASSUME NEW w \in Workers, FinishSuccess(w) \/ FinishFailure(w), Fenced(w)
      PROVE  \E j \in JobIds : Lifecycle!Succeed(j) \/ Lifecycle!TryAgain(j) \/ Lifecycle!GiveUp(j)
  <2>0. PICK j \in JobIds : j = worker[w].job /\ jobs[j].attempts = worker[w].attempts
    BY <1>7, Zenon DEF FinishSuccess, FinishFailure, Fenced, QueueInvariant, WorkerConsistent, Executing
  <2>1. jobs[j].status = "running" /\ jobs[j] \in Row BY <1>0, <1>7, <2>0 DEF Fenced
  <2>2. CASE FinishSuccess(w)
    <3> DEFINE r == Complete(jobs[j])
    <3>1. r \in Row /\ r.status = "completed" /\ r.attempts = jobs[j].attempts
      BY <2>1, RowType, StatusOf, Zenon
    <3>2. jobs' = [jobs EXCEPT ![j] = r] BY <1>7, <2>0, <2>2 DEF FinishSuccess
    <3> HIDE DEF r
    <3>3. statusBar' = [statusBar EXCEPT ![j] = "completed"] /\ attemptsBar' = attemptsBar
      BY <3>1, <3>2, VisibleMove, Zenon
    <3> QED BY <2>1, <3>3, Zenon DEF Lifecycle!Succeed
  <2>3. CASE FinishFailure(w)
    <3> DEFINE dead == worker[w].outcome = "permanent" \/ worker[w].attempts >= MaxAttempts
    <3>1. PICK d \in IF dead THEN {0} ELSE BackoffFor(worker[w].attempts) :
             jobs' = [jobs EXCEPT ![j] = Fail(@, dead, d)]
      BY <1>7, <2>0, <2>3, Zenon DEF FinishFailure
    <3>2. d \in Nat BY BackoffIsNat
    <3>3. dead \in BOOLEAN /\ (dead \/ jobs[j].attempts < MaxAttempts)
      BY <1>0, <2>0, BudgetAssumption
    <3> DEFINE r == Fail(jobs[j], dead, d)
    <3> HIDE DEF dead
    <3>4. /\ r \in Row /\ r.attempts = jobs[j].attempts
          /\ dead => r.status = "dead_letter"
          /\ ~dead => r.status = "retrying"
      <4>1. r \in Row BY <2>1, <3>2, <3>3, RowType, Zenon
      <4> QED BY <2>1, <4>1 DEF Fail, Row
    <3>5. jobs' = [jobs EXCEPT ![j] = r] BY <3>1
    <3> HIDE DEF r
    <3>6. statusBar' = [statusBar EXCEPT ![j] = r.status] /\ attemptsBar' = attemptsBar
      BY <3>4, <3>5, VisibleMove, Zenon
    <3> QED BY <2>1, <3>3, <3>4, <3>6, Zenon DEF Lifecycle!TryAgain, Lifecycle!GiveUp
  <2> QED BY <1>7, <2>2, <2>3
<1>8. ASSUME NEW w \in Workers, Heartbeat(w) \/ ReportProgress(w)
      PROVE  UNCHANGED Lifecycle!lifecycleVars
  <2>1. CASE UNCHANGED jobs BY <2>1, <1>0, Invisible
  <2>2. CASE jobs' # jobs
    <3>0. PICK j \in JobIds : j = worker[w].job /\ jobs[j] \in Row
      BY <1>0, <1>8 DEF Heartbeat, ReportProgress, QueueInvariant, WorkerConsistent
    <3>1. \E r \in Row : /\ r.status = jobs[j].status /\ r.attempts = jobs[j].attempts
                         /\ jobs' = [jobs EXCEPT ![j] = r]
      <4>1. CASE Heartbeat(w)
        <5>1. Extend(jobs[j]) \in Row BY <3>0, RowType, Zenon
        <5> QED BY <2>2, <3>0, <4>1, <5>1, StatusOf DEF Heartbeat
      <4>2. CASE ReportProgress(w)
        <5> DEFINE r == [jobs[j] EXCEPT !.progress = worker[w].attempts]
        <5>1. r \in Row /\ r.status = jobs[j].status /\ r.attempts = jobs[j].attempts
          BY <1>0, <3>0 DEF Row, WorkerState
        <5>2. jobs' = [jobs EXCEPT ![j] = r] BY <3>0, <4>2 DEF ReportProgress
        <5> QED BY <5>1, <5>2, Zenon
      <4> QED BY <1>8, <4>1, <4>2
    <3>2. \A k \in JobIds : /\ jobs'[k].status = jobs[k].status
                            /\ jobs'[k].attempts = jobs[k].attempts
      BY <1>0, <3>1
    <3> QED BY <1>0, <3>1, <3>2, Invisible
  <2> QED BY <2>1, <2>2
<1>9. ASSUME Tick PROVE UNCHANGED Lifecycle!lifecycleVars
  <2>1. \A j \in JobIds : /\ jobs'[j].status = jobs[j].status
                          /\ jobs'[j].attempts = jobs[j].attempts
    BY <1>0, <1>9, StatusOf DEF Tick
  <2>2. jobs' \in [JobIds -> Row] BY <1>0, <1>9, RowType, Zenon DEF Tick
  <2> QED BY <2>1, <2>2, Invisible
<1>10. ASSUME UNCHANGED jobs PROVE UNCHANGED Lifecycle!lifecycleVars
  BY <1>0, <1>10, Invisible
<1>11. \/ \E j \in JobIds : Enqueue(j) \/ CancelJob(j) \/ ReclaimOne(j)
       \/ \E j, new \in JobIds : RetryJob(j, new)
       \/ \E old \in SUBSET JobIds : ClearCompleted(old)
       \/ \E w \in Workers : ClaimNext(w) \/ Heartbeat(w) \/ ReportProgress(w)
       \/ \E w \in Workers : (FinishSuccess(w) \/ FinishFailure(w)) /\ Fenced(w)
       \/ Tick
       \/ UNCHANGED jobs
  BY Zenon DEF Next, AdminNext, WorkerNext, CancelLive, Pause, Resume, StartHandler, LoseClaim,
         HandlerReturns, FinishSuccess, FinishFailure, FinishWriteFails, Leave, Shutdown, Exit, Start
<1> QED
  BY <1>1, <1>2, <1>3, <1>4, <1>5, <1>6, <1>7, <1>8, <1>9, <1>10, <1>11 DEF Lifecycle!LNext

\* The queue implements the lifecycle its callers rely on: bounded attempts,
\* one at a time, and terminal states that are never left.
THEOREM QueueImplementsLifecycle == Spec => ImplementsLifecycle
<1>1. Init => Lifecycle!LInit BY DEF Init, Lifecycle!LInit, Cancelled, NewRow, NoRow
<1>2. QueueInvariant /\ [Next]_vars => [Lifecycle!LNext]_(Lifecycle!lifecycleVars)
  <2>1. UNCHANGED vars => UNCHANGED Lifecycle!lifecycleVars
    BY DEF vars, Lifecycle!lifecycleVars
  <2> QED BY <2>1, StepRefines
<1> QED BY <1>1, <1>2, QueueInvariantHolds, PTL DEF Spec, ImplementsLifecycle, Lifecycle!LSpec

---------------------------------------------------------------------------
(* Action properties *)

\* A terminal write changes the row only if the writer's attempt is still the
\* current one: finishSuccess and finishFailure discard late results.
THEOREM LateWritesAreDiscarded == Spec => LateWriteDiscarded
<1> DEFINE A == \A w \in Workers :
                  LET j == worker[w].job
                  IN  worker[w].pc = "writing" /\ worker'[w].pc = "leaving" /\ jobs' # jobs
                         => /\ jobs[j].status = "running"
                            /\ jobs[j].attempts = worker[w].attempts
<1>1. QueueInvariant /\ [Next]_vars => [A]_vars
  <2> SUFFICES ASSUME QueueInvariant, Next, NEW w \in Workers,
                      worker[w].pc = "writing", worker'[w].pc = "leaving", jobs' # jobs
               PROVE  /\ jobs[worker[w].job].status = "running"
                      /\ jobs[worker[w].job].attempts = worker[w].attempts
    OBVIOUS
  <2>0. worker \in [Workers -> WorkerState] BY DEF QueueInvariant, TypeOK
  <2>1. ~UNCHANGED worker BY <2>0
  <2>2. ~(AdminNext \/ (\E j \in JobIds : ReclaimOne(j)) \/ Shutdown \/ Exit \/ Start \/ Tick)
    BY <2>1, Zenon DEF AdminNext, Enqueue, CancelJob, CancelLive, RetryJob, ClearCompleted, Pause, Resume,
                ReclaimOne, Shutdown, Exit, Start, Tick
  <2>3. PICK v \in Workers : WorkerNext(v) BY <2>2 DEF Next
  <2>4. ~ClaimNext(v)
    <3> SUFFICES ASSUME ClaimNext(v) PROVE FALSE OBVIOUS
    <3>1. PICK j \in OldestClaimable :
             worker' = [worker EXCEPT ![v] = [Idle EXCEPT !.pc = "claimed", !.job = j]]
      BY Zenon DEF ClaimNext
    <3>2. CASE v = w BY <2>0, <3>1, <3>2 DEF Idle
    <3>3. CASE v # w BY <2>0, <3>1, <3>3
    <3> QED BY <3>2, <3>3
  <2>5. FinishSuccess(v) \/ FinishFailure(v)
    BY <2>1, <2>3, <2>4 DEF WorkerNext, StartHandler, LoseClaim, Heartbeat, ReportProgress,
                            HandlerReturns, FinishWriteFails, Leave
  <2>6. worker' = [worker EXCEPT ![v].pc = "leaving"] BY <2>5, Zenon DEF FinishSuccess, FinishFailure
  <2>7. v = w BY <2>0, <2>6
  <2>8. Fenced(w) BY <2>5, <2>7, Zenon DEF FinishSuccess, FinishFailure
  <2> QED BY <2>8 DEF Fenced, QueueInvariant, WorkerConsistent, Executing
<1> QED BY <1>1, QueueInvariantHolds, PTL DEF Spec, LateWriteDiscarded

\* Reported progress is always that of the current attempt, so it never falls
\* back to an earlier one.
THEOREM ProgressIsMonotone == Spec => ProgressNeverRegresses
<1> DEFINE A == \A j \in JobIds : jobs'[j].progress >= jobs[j].progress
<1>1. QueueInvariant /\ [Next]_vars => [A]_vars
  <2> SUFFICES ASSUME QueueInvariant, Next, NEW j \in JobIds
               PROVE  jobs'[j].progress >= jobs[j].progress
    OBVIOUS
  <2>0. /\ jobs \in [JobIds -> Row] /\ jobs[j] \in Row /\ RowConsistent(jobs[j])
        /\ jobs[j].progress \in Nat /\ jobs[j].attempts \in Nat
    BY DEF QueueInvariant, TypeOK, Row
  <2> DEFINE Same(r, new) == new.progress = r.progress
  <2>1. \A r \in Row, d \in Nat, dead \in BOOLEAN :
           /\ Same(r, Claim(r)) /\ Same(r, Extend(r)) /\ Same(r, Complete(r))
           /\ Same(r, Cancelled(r)) /\ Same(r, Aged(r)) /\ Same(r, Reclaimed(r, d))
           /\ Same(r, [r EXCEPT !.status = "deleted"])
    BY DEF Row, Claim, Extend, Complete, Cancelled, Aged, Reclaimed
  <2>2. \A r \in Row : \A d, dead : Same(r, Fail(r, dead, d)) /\ Same(r, Reclaimed(r, d))
    BY DEF Row, Fail, Reclaimed
  <2> HIDE DEF Same
  <2>3. CASE jobs'[j].progress = jobs[j].progress BY <2>0, <2>3
  <2>4. ASSUME NEW k \in JobIds, Enqueue(k) \/ \E i \in JobIds : RetryJob(i, k)
        PROVE  jobs'[j].progress >= jobs[j].progress
    <3>1. jobs' = [jobs EXCEPT ![k] = NewRow] /\ jobs[k].status = "absent"
      BY <2>4 DEF Enqueue, RetryJob
    <3>2. CASE k = j
      BY <2>0, <3>1, <3>2 DEF RowConsistent, NewRow, NoRow
    <3>3. CASE k # j BY <2>0, <3>1, <3>3
    <3> QED BY <3>2, <3>3
  <2>5. ASSUME NEW w \in Workers, ReportProgress(w)
        PROVE  jobs'[j].progress >= jobs[j].progress
    <3>1. PICK k \in JobIds : k = worker[w].job /\ jobs[k].attempts = worker[w].attempts
      BY <2>5 DEF ReportProgress, Fenced, QueueInvariant, WorkerConsistent, Executing
    <3>2. jobs' = [jobs EXCEPT ![k].progress = jobs[k].attempts] BY <2>5, <3>1 DEF ReportProgress
    <3>3. CASE k = j
      <4>1. jobs'[j].progress = jobs[j].attempts BY <2>0, <3>2, <3>3 DEF Row
      <4> QED BY <2>0, <4>1 DEF RowConsistent
    <3>4. CASE k # j BY <2>0, <3>2, <3>4
    <3> QED BY <3>3, <3>4
  <2>6. ASSUME NEW k \in JobIds, NEW r, jobs' = [jobs EXCEPT ![k] = r], Same(jobs[k], r)
        PROVE  jobs'[j].progress = jobs[j].progress
    BY <2>0, <2>6 DEF Same
  <2>7. ASSUME NEW k \in JobIds, CancelJob(k) PROVE jobs'[j].progress = jobs[j].progress
    BY <2>0, <2>1, <2>6, <2>7, Zenon DEF CancelJob
  <2>8. ASSUME NEW k \in JobIds, ReclaimOne(k) PROVE jobs'[j].progress = jobs[j].progress
    BY <2>0, <2>2, <2>6, <2>8, Zenon DEF ReclaimOne
  <2>9. ASSUME NEW old \in SUBSET JobIds, ClearCompleted(old)
        PROVE  jobs'[j].progress = jobs[j].progress
    BY <2>0, <2>1, <2>9 DEF ClearCompleted, Same
  <2>10. ASSUME Tick PROVE jobs'[j].progress = jobs[j].progress
    BY <2>0, <2>1, <2>10, Zenon DEF Tick, Same
  <2>11. ASSUME NEW w \in Workers, ClaimNext(w) PROVE jobs'[j].progress = jobs[j].progress
    BY <2>0, <2>1, <2>6, <2>11, Zenon DEF ClaimNext, OldestClaimable
  <2>12. ASSUME NEW w \in Workers, Heartbeat(w) PROVE jobs'[j].progress = jobs[j].progress
    <3>1. worker[w].job \in JobIds BY <2>12 DEF Heartbeat, QueueInvariant, WorkerConsistent
    <3> QED BY <2>0, <2>1, <2>6, <2>12, <3>1, Zenon DEF Heartbeat
  <2>13. ASSUME NEW w \in Workers, FinishSuccess(w) \/ FinishFailure(w)
         PROVE  jobs'[j].progress = jobs[j].progress
    <3>1. worker[w].job \in JobIds
      BY <2>13, Zenon DEF FinishSuccess, FinishFailure, QueueInvariant, WorkerConsistent
    <3>2. CASE UNCHANGED jobs BY <3>2
    <3>3. CASE jobs' = [jobs EXCEPT ![worker[w].job] = Complete(@)]
      BY <2>0, <2>1, <2>6, <3>1, <3>3, Zenon
    <3>4. CASE \E d, dead : jobs' = [jobs EXCEPT ![worker[w].job] = Fail(@, dead, d)]
      BY <2>0, <2>2, <2>6, <3>1, <3>4, Zenon
    <3> QED BY <2>13, <3>2, <3>3, <3>4, Zenon DEF FinishSuccess, FinishFailure
  <2>14. CASE UNCHANGED jobs BY <2>0, <2>14
  <2> QED
    BY <2>3, <2>4, <2>5, <2>7, <2>8, <2>9, <2>10, <2>11, <2>12, <2>13, <2>14, Zenon
    DEF Next, AdminNext, WorkerNext, CancelLive, Pause, Resume, StartHandler, LoseClaim,
        HandlerReturns, FinishWriteFails, Leave, Shutdown, Exit, Start
<1> QED BY <1>1, QueueInvariantHolds, PTL DEF Spec, ProgressNeverRegresses
=============================================================================
