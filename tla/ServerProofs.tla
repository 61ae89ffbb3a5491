---------------------------- MODULE ServerProofs ----------------------------
(***************************************************************************)
(* Proofs about the server process, for every number of requests and of    *)
(* attempts to reach PostgreSQL; about the desktop host that runs it, for  *)
(* every number of respawns and of retries; and about the accounts it keeps, *)
(* for every number of users, requests, tokens, tickets, secrets, libraries *)
(* and invitations.                                                        *)
(***************************************************************************)
EXTENDS ServerProcess, ServerLifecycle, Accounts, TLAPS

\* The references of PoolRef by their positions in run's order.
LEMMA WiringOrder ==
    /\ Len(Wiring) = 10
    /\ Wiring[1] = "pool" /\ Wiring[2] = "catalogue" /\ Wiring[3] = "reader"
    /\ Wiring[4] = "crypto" /\ Wiring[5] = "network" /\ Wiring[6] = "auth"
    /\ Wiring[7] = "importer" /\ Wiring[8] = "sync" /\ Wiring[9] = "events" /\ Wiring[10] = "jobs"
BY DEF Wiring

\* Every route needs a reference, and every route but the readiness probe one
\* that is set after the keys are derived.
LEMMA EveryRouteNeeds ==
    ASSUME NEW route \in Routes
    PROVE  /\ "pool" \in Need[route] \/ "network" \in Need[route] \/ "auth" \in Need[route]
           /\ Kind(route) = "api" => "network" \in Need[route] \/ "auth" \in Need[route]
<1>1. route \in {"readyz", "login", "verify", "library", "sync", "import", "discovery",
                 "events", "jobs"}
  BY DEF Routes, Need
<1>2. CASE route = "readyz" BY <1>2 DEF Need, Kind
<1>3. CASE route = "verify" BY <1>3 DEF Need, LazyNetwork
<1>4. CASE route = "login" BY <1>4 DEF Need, LazyAuth
<1>5. CASE route = "library" BY <1>5 DEF Need, LazyAuth
<1>6. CASE route = "sync" BY <1>6 DEF Need, LazyAuth
<1>7. CASE route = "import" BY <1>7 DEF Need, LazyAuth
<1>8. CASE route = "discovery" BY <1>8 DEF Need, LazyAuth
<1>9. CASE route = "events" BY <1>9 DEF Need, LazyAuth
<1>10. CASE route = "jobs" BY <1>10 DEF Need, LazyAuth
<1> QED BY <1>1, <1>2, <1>3, <1>4, <1>5, <1>6, <1>7, <1>8, <1>9, <1>10

\* A route that is served has its references set.
LEMMA ServedIsWired ==
    ASSUME wired \in 0 .. Len(Wiring), NEW route \in Routes, Need[route] \subseteq Refs
    PROVE  wired > 0 /\ (Kind(route) = "api" => wired > KeyAt)
<1>1. \A i \in 1 .. wired : i \in 1 .. 10 BY WiringOrder
<1>2. ASSUME "network" \in Refs \/ "auth" \in Refs PROVE wired > 3
  <2>1. PICK i \in 1 .. wired : Wiring[i] = "network" \/ Wiring[i] = "auth" BY <1>2 DEF Refs
  <2>2. i > 3 BY <1>1, <2>1, WiringOrder
  <2> QED BY <2>2, WiringOrder
<1>3. ASSUME "pool" \in Refs PROVE wired > 0
  BY <1>3, WiringOrder DEF Refs
<1> QED BY <1>2, <1>3, EveryRouteNeeds, WiringOrder DEF KeyAt

\* Every step keeps the invariant: one case per step of run.
LEMMA RunKeepsInvariant ==
    ASSUME ProcessInvariant, Run
    PROVE  ProcessInvariant'
<1> USE ServerProcessAssumption, WiringOrder
    DEF ProcessInvariant, ProcessTypeOK, ServedOnlyWhenWired, SpawnedOnce, DrainedBeforeClose,
        ExitReleasesPool, CleanExit, InFlight, Acquired, Going, KeyAt, startup, service
<1>1. CASE ListenFails BY <1>1 DEF ListenFails, ReturnOne
<1>2. CASE Listen BY <1>2 DEF Listen
<1>3. CASE WaitForPostgres BY <1>3 DEF WaitForPostgres, GracefulShutdown
<1>4. CASE Obtained BY <1>4 DEF Obtained, SpawnPostgresOnce
<1>5. CASE ObtainFails BY <1>5 DEF ObtainFails, SpawnPostgresOnce, StepFails, GracefulShutdown, ReturnOne
<1>6. CASE RunMigrations
  <2>1. CASE pc' = "newPool" BY <1>6, <2>1 DEF RunMigrations, StepFails, GracefulShutdown, ReturnOne
  <2>2. CASE pc' = "mdnsClose" BY <1>6, <2>2 DEF RunMigrations, StepFails, GracefulShutdown, ReturnOne
  <2>3. CASE pc' = "exited" BY <1>6, <2>3 DEF RunMigrations, StepFails, GracefulShutdown, ReturnOne
  <2> QED BY <1>6, <2>1, <2>2, <2>3, Zenon DEF RunMigrations, StepFails, GracefulShutdown, ReturnOne
<1>7. CASE NewPool BY <1>7 DEF NewPool, StepFails, GracefulShutdown, ReturnOne
<1>8. CASE SetRef BY <1>8 DEF SetRef
<1>9. CASE NetworkFails BY <1>9 DEF NetworkFails, CloseAndReturnOne
<1>10. CASE LoadKey BY <1>10 DEF LoadKey, CloseAndReturnOne
<1>11. CASE StartJobs BY <1>11 DEF StartJobs, CloseAndReturnOne
<1>12. CASE Await BY <1>12 DEF Await, GracefulShutdown
<1>13. CASE MDNSClosed BY <1>13 DEF MDNSClosed
<1>14. CASE Drained BY <1>14 DEF Drained
<1>15. CASE DrainExpires BY <1>15 DEF DrainExpires
<1>16. CASE JobsStopped BY <1>16 DEF JobsStopped, AfterJobs
<1>17. CASE JobsExpire BY <1>17 DEF JobsExpire, AfterJobs
<1>18. CASE ReaperStopped BY <1>18 DEF ReaperStopped
<1>19. CASE ClosePool BY <1>19 DEF ClosePool
<1>20. CASE PoolClosed BY <1>20 DEF PoolClosed
<1> QED BY <1>1, <1>2, <1>3, <1>4, <1>5, <1>6, <1>7, <1>8, <1>9, <1>10, <1>11, <1>12, <1>13, <1>14, <1>15, <1>16, <1>17, <1>18, <1>19, <1>20, Zenon DEF Run

\* The requests and the goroutines.
LEMMA BackgroundKeepsInvariant ==
    ASSUME ProcessInvariant, Background
    PROVE  ProcessInvariant'
<1> USE DEF ProcessInvariant, ProcessTypeOK, ServedOnlyWhenWired, SpawnedOnce, DrainedBeforeClose,
        ExitReleasesPool, CleanExit, InFlight, Acquired, Going, KeyAt, startup, service, Alive
<1>1. CASE ServeFails BY <1>1 DEF ServeFails
<1>2. CASE Work BY <1>2 DEF Work, WorkersCancelled
<1>3. CASE WorkQueryEnds BY <1>3 DEF WorkQueryEnds
<1>4. CASE WorkerExits BY <1>4 DEF WorkerExits, WorkersCancelled
<1>5. CASE Sweep BY <1>5 DEF Sweep
<1>6. CASE SweepEnds BY <1>6 DEF SweepEnds
<1>7. CASE ReaperExits BY <1>7 DEF ReaperExits
<1>8. CASE CloseResponder BY <1>8 DEF CloseResponder
<1>9. CASE CloseConn BY <1>9 DEF CloseConn
<1>10. CASE CloseReturns BY <1>10 DEF CloseReturns
<1>11. CASE ReadQuery BY <1>11 DEF ReadQuery
<1>12. CASE HandleQuery BY <1>12 DEF HandleQuery
<1>13. CASE LoopEnds BY <1>13 DEF LoopEnds
<1>14. ASSUME NEW r \in Calls, NEW route \in Routes, Accept(r, route) PROVE ProcessInvariant'
  <2>1. wired > 0 /\ (Kind(route) = "api" => wired > KeyAt) BY <1>14, ServedIsWired DEF Accept
  <2>2. Kind(route) \in {"probe", "api"} BY DEF Kind
  <2> QED BY <1>14, <2>1, <2>2, SMTT(30) DEF Accept
<1>15. ASSUME NEW r \in Calls, Query(r) PROVE ProcessInvariant' BY <1>15 DEF Query
<1>16. ASSUME NEW r \in Calls, QueryEnds(r) PROVE ProcessInvariant' BY <1>16, SMTT(30) DEF QueryEnds
<1>17. ASSUME NEW r \in Calls, Respond(r) PROVE ProcessInvariant' BY <1>17 DEF Respond, NoCall
<1> QED BY <1>1, <1>2, <1>3, <1>4, <1>5, <1>6, <1>7, <1>8, <1>9, <1>10, <1>11, <1>12, <1>13, <1>14, <1>15, <1>16, <1>17, Zenon DEF Background

\* The process keeps its invariant: however start-up, the requests, the
\* goroutines, the signal and the two ways down interleave (run.go).
THEOREM ProcessInvariantHolds == ProcessSpec => []ProcessInvariant
<1>1. ProcessInit => ProcessInvariant
  <2> SUFFICES ASSUME ProcessInit PROVE ProcessInvariant OBVIOUS
  <2>1. InFlight = {} BY DEF ProcessInit, InFlight, NoCall
  <2>2. Acquired = {} BY DEF ProcessInit, Acquired, NoCall
  <2>3. ProcessTypeOK
    <3>1. call \in [Calls -> [kind : {"probe", "api"}, phase : {"idle", "handling", "querying"}]]
      BY DEF ProcessInit, NoCall
    <3>2. attempt \in 1 .. MaxAttempts /\ wired \in 0 .. Len(Wiring) /\ spawned \in Nat
      BY ServerProcessAssumption, WiringOrder DEF ProcessInit
    <3>3. sig \in BOOLEAN /\ bundled \in BOOLEAN /\ migrated \in BOOLEAN BY Zenon DEF ProcessInit
    <3> QED BY <3>1, <3>2, <3>3 DEF ProcessInit, ProcessTypeOK, Going
  <2> QED BY <2>1, <2>2, <2>3, WiringOrder
    DEF ProcessInit, ProcessInvariant, ServedOnlyWhenWired, SpawnedOnce, DrainedBeforeClose,
        ExitReleasesPool, CleanExit, Going
<1>2. ProcessInvariant /\ [ProcessNext]_pvars => ProcessInvariant'
  <2> SUFFICES ASSUME ProcessInvariant, [ProcessNext]_pvars PROVE ProcessInvariant' OBVIOUS
  <2>1. CASE Run BY <2>1, RunKeepsInvariant
  <2>2. CASE Background BY <2>2, BackgroundKeepsInvariant, SMTT(30)
  <2>3. CASE Signal
    BY <2>3, SMTT(30) DEF Signal, ProcessInvariant, ProcessTypeOK, ServedOnlyWhenWired, SpawnedOnce,
                DrainedBeforeClose, ExitReleasesPool, CleanExit, InFlight, Acquired, Going,
                startup, service
  <2>4. CASE UNCHANGED pvars
    BY <2>4 DEF pvars, ProcessInvariant, ProcessTypeOK, ServedOnlyWhenWired, SpawnedOnce,
                DrainedBeforeClose, ExitReleasesPool, CleanExit, InFlight, Acquired, Going,
                startup, service
  <2> QED BY <2>1, <2>2, <2>3, <2>4 DEF ProcessNext
<1> QED BY <1>1, <1>2, PTL DEF ProcessSpec

\* A request that needs a reference is served only after the schema was migrated and,
\* unless it is the readiness probe, the keys were derived (run.go, PoolRef).
THEOREM ServedOnlyWhenWiredHolds == ProcessSpec => []ServedOnlyWhenWired
<1>1. ProcessInvariant => ServedOnlyWhenWired BY DEF ProcessInvariant
<1> QED BY <1>1, ProcessInvariantHolds, PTL

\* gracefulShutdown never closes the pool under a request, a job or a sweep
\* whose grace period has not run out.
THEOREM DrainedBeforeCloseHolds == ProcessSpec => []DrainedBeforeClose
<1>1. ProcessInvariant => DrainedBeforeClose BY DEF ProcessInvariant
<1> QED BY <1>1, ProcessInvariantHolds, PTL

\* PostgreSQL is started once, the pool is closed on every way out, and exit
\* code 0 comes after a signal and a closed responder (spawn.go, run.go).
THEOREM EveryExitIsClean == ProcessSpec => [](SpawnedOnce /\ ExitReleasesPool /\ CleanExit)
<1>1. ProcessInvariant => SpawnedOnce /\ ExitReleasesPool /\ CleanExit BY DEF ProcessInvariant
<1> QED BY <1>1, ProcessInvariantHolds, PTL

-----------------------------------------------------------------------------
(* The desktop host. *)

\* kill(SIGTERM): the process stays as it is; unless its exit was delivered it
\* counts as killed and told to stop.
LEMMA TerminateChild ==
    ASSUME NEW c \in Child
    PROVE  /\ Terminate(c) \in Child
           /\ Terminate(c).os = c.os
           /\ Terminate(c).reaped = c.reaped
           /\ ~c.reaped => Terminate(c).killed /\ Terminate(c).term
           /\ c.reaped => Terminate(c) = c
<1>1. CASE c.reaped BY <1>1, Zenon DEF Terminate
<1>2. CASE ~c.reaped
  <2>1. PICK q : q = [c EXCEPT !.killed = TRUE, !.term = TRUE] OBVIOUS
  <2>2. q \in Child BY <2>1, Zenon DEF Child
  <2>3. q.os = c.os /\ q.reaped = c.reaped BY <2>1 DEF Child
  <2>4. q.killed /\ q.term BY <2>1 DEF Child
  <2>5. Terminate(c) = q BY <1>2, <2>1 DEF Terminate
  <2> QED BY <1>2, <2>2, <2>3, <2>4, <2>5
<1> QED BY <1>1, <1>2

\* kill(SIGKILL): the process is dead, what Node knows of it comes later.
LEMMA KillChild ==
    ASSUME NEW c \in Child
    PROVE  /\ Kill(c) \in Child
           /\ Kill(c).reaped = c.reaped
           /\ Kill(c).term = c.term
           /\ c.killed => Kill(c).killed
           /\ c.reaped => Kill(c) = c
<1>1. CASE c.reaped BY <1>1, Zenon DEF Kill
<1>2. CASE ~c.reaped
  <2>1. PICK h : h = IF c.os = "alive" THEN "signal" ELSE c.how OBVIOUS
  <2>2. PICK q : q = [c EXCEPT !.killed = TRUE, !.sigkill = TRUE, !.os = "dead", !.ready = FALSE, !.how = h]
    OBVIOUS
  <2>3. h \in {"code", "signal", "none"} BY <2>1 DEF Child
  <2>4. q \in Child BY <2>2, <2>3, Zenon DEF Child
  <2>5. q.reaped = c.reaped /\ q.term = c.term BY <2>2 DEF Child
  <2>6. q.killed BY <2>2 DEF Child
  <2>7. Kill(c) = q BY <1>2, <2>1, <2>2 DEF Kill
  <2> QED BY <1>2, <2>4, <2>5, <2>6, <2>7
<1> QED BY <1>1, <1>2

\* What is to be shown of a step for the invariant to hold again.
LEMMA LifecycleStep ==
    ASSUME LifecycleInvariant,
           phase' \in Phases, child' \in Child, shown' \in Shown, respawns' \in 0 .. MaxRespawns,
           monitor' \in Monitor, quit' \in QuitSequence,
           first' \in BOOLEAN, stray' \in Nat, retries' \in 0 .. MaxRetries,
           app' \in {"running", "exiting", "exited"},
           shown' \in {"Healthy", "Degraded"} => phase' = "watching",
           monitor'.on => phase' = "watching",
           phase' \in {"off", "spawn", "backoff"} /\ child'.os # "none" => child'.reaped \/ child'.term,
           child'.killed => child'.reaped \/ child'.term \/ phase' = "reap",
           quit'.grace = "running" => child'.reaped \/ child'.killed
    PROVE  LifecycleInvariant'
<1>1. LifecycleTypeOK' BY DEF LifecycleTypeOK
<1>2. HealthIsOfCurrentServer' BY DEF HealthIsOfCurrentServer
<1>3. ChildGoneOrTold' BY DEF ChildGoneOrTold
<1> QED BY <1>1, <1>2, <1>3 DEF LifecycleInvariant

\* scheduleRespawn, with a child that is gone or was told to stop.
LEMMA ScheduleRespawnKeeps ==
    ASSUME LifecycleInvariant, NEW c \in Child, ScheduleRespawn(c),
           c.os # "none" => c.reaped \/ c.term,
           c.killed => c.reaped \/ c.term,
           quit' \in QuitSequence, app' \in {"running", "exiting", "exited"},
           quit'.grace = "running" => c.reaped \/ c.killed,
           UNCHANGED <<first, stray, retries>>
    PROVE  LifecycleInvariant'
<1>0. LifecycleTypeOK /\ MaxRespawns \in Nat BY LifecycleAssumption DEF LifecycleInvariant
<1>1. PICK m : m = [monitor EXCEPT !.on = FALSE] BY Zenon
<1>2. m \in Monitor BY <1>0, <1>1, Zenon DEF LifecycleTypeOK, Monitor
<1>3. ~m.on BY <1>0, <1>1 DEF LifecycleTypeOK, Monitor
<1>4. monitor' = m BY <1>1 DEF ScheduleRespawn
<1>5. /\ shown' \in Shown \ {"Healthy", "Degraded"} /\ phase' \in {"off", "backoff"}
      /\ respawns' \in 0 .. MaxRespawns
  BY <1>0 DEF ScheduleRespawn, Shown, LifecycleTypeOK
<1>6. child' = c \/ child' = Terminate(c) BY DEF ScheduleRespawn
<1>7. /\ child' \in Child
      /\ child'.os # "none" => child'.reaped \/ child'.term
      /\ child'.killed => child'.reaped \/ child'.term
      /\ quit'.grace = "running" => child'.reaped \/ child'.killed
  <2>1. CASE child' = c BY <2>1
  <2>2. CASE child' = Terminate(c)
    <3>1. CASE c.reaped BY <2>2, <3>1, TerminateChild
    <3>2. CASE ~c.reaped BY <2>2, <3>2, TerminateChild
    <3> QED BY <3>1, <3>2
  <2> QED BY <1>6, <2>1, <2>2
<1>8. first' \in BOOLEAN /\ stray' \in Nat /\ retries' \in 0 .. MaxRetries
  BY <1>0 DEF LifecycleTypeOK
<1>9. phase' \in Phases /\ shown' \in Shown BY <1>5 DEF Phases
<1> QED BY <1>2, <1>3, <1>4, <1>5, <1>7, <1>8, <1>9, LifecycleStep

\* The end of a failed attempt, with a child that is gone or was told to stop.
LEMMA AttemptFailedKeeps ==
    ASSUME LifecycleInvariant, NEW c \in Child, AttemptFailed(c), phase # "watching",
           c.os # "none" => c.reaped \/ c.term,
           c.killed => c.reaped \/ c.term,
           quit' \in QuitSequence, app' \in {"running", "exiting", "exited"},
           quit'.grace = "running" => c.reaped \/ c.killed,
           UNCHANGED <<first, stray, retries>>
    PROVE  LifecycleInvariant'
<1>1. CASE first
  <2>1. shown' = "Failed" /\ phase' = "off" /\ child' = c /\ UNCHANGED <<respawns, monitor>>
    BY <1>1 DEF AttemptFailed
  <2>2. ~monitor.on BY DEF LifecycleInvariant, HealthIsOfCurrentServer
  <2>3. /\ respawns' \in 0 .. MaxRespawns /\ monitor' \in Monitor /\ stray' \in Nat
        /\ retries' \in 0 .. MaxRetries
    BY <2>1 DEF LifecycleInvariant, LifecycleTypeOK
  <2>4. first' \in BOOLEAN BY DEF LifecycleInvariant, LifecycleTypeOK
  <2>5. phase' \in Phases /\ shown' \in Shown BY <2>1 DEF Phases, Shown
  <2> QED BY <2>1, <2>2, <2>3, <2>4, <2>5, LifecycleStep
<1>2. CASE ~first
  <2>1. ScheduleRespawn(c) BY <1>2 DEF AttemptFailed
  <2> QED BY <2>1, ScheduleRespawnKeeps
<1> QED BY <1>1, <1>2

\* A step that moves the lifecycle on to another phase of an attempt, and leaves
\* the child alone.
LEMMA PhaseStep ==
    ASSUME LifecycleInvariant, phase # "watching", phase' \in Phases \ {"off", "spawn", "backoff", "watching"},
           phase # "reap", UNCHANGED <<first, child, stray, respawns, retries, shown, monitor, quit, app>>
    PROVE  LifecycleInvariant'
<1>1. LifecycleTypeOK' BY DEF LifecycleInvariant, LifecycleTypeOK
<1>2. HealthIsOfCurrentServer' BY DEF LifecycleInvariant, HealthIsOfCurrentServer
<1>3. ChildGoneOrTold' BY DEF LifecycleInvariant, ChildGoneOrTold
<1> QED BY <1>1, <1>2, <1>3 DEF LifecycleInvariant

\* A step of the server process: the child dies, announces its port or changes
\* its readiness, and what was done to it stays.
LEMMA ChildStep ==
    ASSUME LifecycleInvariant, child' \in Child, child.os # "none",
           child'.reaped = child.reaped, child'.killed = child.killed, child'.term = child.term,
           UNCHANGED <<phase, first, stray, respawns, retries, shown, monitor, quit, app>>
    PROVE  LifecycleInvariant'
<1>1. LifecycleTypeOK' BY DEF LifecycleInvariant, LifecycleTypeOK
<1>2. HealthIsOfCurrentServer' BY DEF LifecycleInvariant, HealthIsOfCurrentServer
<1>3. ChildGoneOrTold' BY DEF LifecycleInvariant, ChildGoneOrTold
<1> QED BY <1>1, <1>2, <1>3 DEF LifecycleInvariant

\* The server's own steps keep the invariant.
LEMMA ServerNextKeeps ==
    ASSUME LifecycleInvariant, ServerNext
    PROVE  LifecycleInvariant'
<1>0. child \in Child BY DEF LifecycleInvariant, LifecycleTypeOK
<1>1. CASE Announce
  <2>1. PICK q : q = [child EXCEPT !.port = TRUE] BY Zenon
  <2>2. q \in Child BY <1>0, <2>1, Zenon DEF Child
  <2>3. q.reaped = child.reaped /\ q.killed = child.killed /\ q.term = child.term
    BY <1>0, <2>1 DEF Child
  <2>4. child' = q /\ child.os # "none" BY <1>1, <2>1 DEF Announce
  <2> QED BY <1>1, <2>2, <2>3, <2>4, ChildStep, Zenon DEF Announce
<1>2. CASE ReadinessShifts
  <2>1. PICK q : q = [child EXCEPT !.ready = ~child.ready] BY Zenon
  <2>2. q \in Child BY <1>0, <2>1, Zenon DEF Child
  <2>3. q.reaped = child.reaped /\ q.killed = child.killed /\ q.term = child.term
    BY <1>0, <2>1 DEF Child
  <2>4. child' = q /\ child.os # "none" BY <1>2, <2>1 DEF ReadinessShifts
  <2> QED BY <1>2, <2>2, <2>3, <2>4, ChildStep DEF ReadinessShifts
<1>3. ASSUME NEW how \in {"code", "signal"}, child.os = "alive",
             child' = [child EXCEPT !.os = "dead", !.how = how, !.ready = FALSE],
             UNCHANGED <<phase, first, stray, respawns, retries, shown, monitor, quit, app>>
      PROVE  LifecycleInvariant'
  <2>1. PICK q : q = [child EXCEPT !.os = "dead", !.how = how, !.ready = FALSE] OBVIOUS
  <2>2. q \in Child BY <1>0, <2>1, Zenon DEF Child
  <2>3. q.reaped = child.reaped /\ q.killed = child.killed /\ q.term = child.term
    BY <1>0, <2>1 DEF Child
  <2>4. child' = q /\ child.os # "none" BY <1>3, <2>1
  <2> QED BY <1>3, <2>2, <2>3, <2>4, ChildStep
<1>4. CASE Die BY <1>3, <1>4, Zenon DEF Die
<1>5. CASE Stop BY <1>3, <1>5 DEF Stop
<1> QED BY <1>1, <1>2, <1>4, <1>5 DEF ServerNext

\* The answer that ends the poll: the child is watched, or already known gone.
LEMMA WatchChildKeeps ==
    ASSUME LifecycleInvariant, phase \in {"answered", "readied"}, WatchChild,
           UNCHANGED <<first, stray, retries, quit, app>>
    PROVE  LifecycleInvariant'
<1>0. /\ child \in Child /\ quit \in QuitSequence /\ app \in {"running", "exiting", "exited"}
      /\ stray \in Nat /\ retries \in 0 .. MaxRetries /\ respawns \in 0 .. MaxRespawns
  BY DEF LifecycleInvariant, LifecycleTypeOK
<1>1. first \in BOOLEAN BY DEF LifecycleInvariant, LifecycleTypeOK
<1>2. /\ child.killed => child.reaped \/ child.term
      /\ quit.grace = "running" => child.reaped \/ child.killed
  BY DEF LifecycleInvariant, ChildGoneOrTold
<1>3. CASE ExitCodeSet(child) \/ child.killed
  <2>1. child.reaped \/ child.term BY <1>2, <1>3 DEF ExitCodeSet
  <2>2. ScheduleRespawn(child) BY <1>3 DEF WatchChild
  <2> QED BY <1>0, <1>2, <2>1, <2>2, ScheduleRespawnKeeps
<1>4. CASE ~(ExitCodeSet(child) \/ child.killed)
  <2>1. phase' = "watching" /\ shown' = "Healthy" /\ monitor' = MonitorOn /\ UNCHANGED <<respawns, child>>
    BY <1>4 DEF WatchChild
  <2>2. MonitorOn \in Monitor BY Zenon DEF MonitorOn, MonitorOff, Monitor, Health
  <2>3. phase' \in Phases /\ shown' \in Shown BY <2>1 DEF Phases, Shown
  <2> QED BY <1>0, <1>1, <1>2, <2>1, <2>2, <2>3, LifecycleStep
<1> QED BY <1>3, <1>4

\* before-quit: the child is told to stop, or there is none to wait for.
LEMMA BeforeQuitKeeps ==
    ASSUME LifecycleInvariant, BeforeQuit, stray' \in Nat,
           UNCHANGED <<phase, first, respawns, retries, shown, monitor>>
    PROVE  LifecycleInvariant'
<1>0. /\ child \in Child /\ quit \in QuitSequence /\ app \in {"running", "exiting", "exited"}
      /\ retries \in 0 .. MaxRetries /\ respawns \in 0 .. MaxRespawns
      /\ phase \in Phases /\ shown \in Shown /\ monitor \in Monitor
  BY DEF LifecycleInvariant, LifecycleTypeOK
<1>1. first \in BOOLEAN BY DEF LifecycleInvariant, LifecycleTypeOK
<1>2. /\ phase \in {"off", "spawn", "backoff"} /\ child.os # "none" => child.reaped \/ child.term
      /\ child.killed => child.reaped \/ child.term \/ phase = "reap"
      /\ quit.grace = "running" => child.reaped \/ child.killed
      /\ shown \in {"Healthy", "Degraded"} => phase = "watching"
      /\ monitor.on => phase = "watching"
  BY DEF LifecycleInvariant, ChildGoneOrTold, HealthIsOfCurrentServer
<1>3. CASE SeemsAlive(child)
  <2>1. PICK q : q = [quit EXCEPT !.child = TRUE, !.grace = "running"] OBVIOUS
  <2>2. q \in QuitSequence BY <1>0, <2>1, Zenon DEF QuitSequence
  <2>3. quit' = q /\ child' = Terminate(child) /\ UNCHANGED app BY <1>3, <2>1 DEF BeforeQuit
  <2>4. CASE child.reaped
    <3>1. child' = child BY <1>0, <2>3, <2>4, TerminateChild
    <3> QED BY <1>0, <1>1, <1>2, <2>2, <2>3, <2>4, <3>1, LifecycleStep
  <2>5. CASE ~child.reaped
    <3>1. child' \in Child /\ child'.killed /\ child'.term BY <1>0, <2>3, <2>5, TerminateChild
    <3> QED BY <1>0, <1>1, <1>2, <2>2, <2>3, <3>1, LifecycleStep
  <2> QED BY <2>4, <2>5
<1>4. CASE ~SeemsAlive(child)
  <2>1. app' = "exiting" /\ UNCHANGED <<quit, child>> BY <1>4 DEF BeforeQuit
  <2> QED BY <1>0, <1>1, <1>2, <2>1, LifecycleStep
<1> QED BY <1>3, <1>4

\* The start of a server: nothing was done to it yet, and a quit waits for the
\* one before it.
LEMMA SpawnKeeps ==
    ASSUME LifecycleInvariant, Spawn
    PROVE  LifecycleInvariant'
<1>0. /\ app \in {"running", "exiting", "exited"} /\ stray \in Nat
      /\ retries \in 0 .. MaxRetries /\ respawns \in 0 .. MaxRespawns
      /\ shown \in Shown /\ monitor \in Monitor
  BY DEF LifecycleInvariant, LifecycleTypeOK
<1>1. first \in BOOLEAN BY DEF LifecycleInvariant, LifecycleTypeOK
<1>2. quit \in QuitSequence /\ child \in Child BY DEF LifecycleInvariant, LifecycleTypeOK
<1>3. PICK b : b = (quit.stray \/ (quit.child /\ child.os # "none" /\ ~child.reaped)) OBVIOUS
<1>4. b \in BOOLEAN BY <1>3
<1>5. PICK q : q = [NoQuit EXCEPT !.stray = b] BY Zenon
<1>6. q \in QuitSequence /\ q.grace = "off" BY <1>4, <1>5, Zenon DEF QuitSequence, NoQuit
<1>7. quit' = q BY <1>3, <1>5 DEF Spawn
<1>8. PICK c : c = [NewChild EXCEPT !.os = "dead", !.how = "code", !.reaped = TRUE] OBVIOUS
<1>9. NewChild \in Child /\ c \in Child BY <1>8, Zenon DEF Child, NewChild, NoChild
<1>10. ~NewChild.killed /\ ~c.killed BY <1>8 DEF NewChild, NoChild
<1>11. child' = NewChild \/ child' = c BY <1>8 DEF Spawn
<1>12. child' \in Child /\ ~child'.killed BY <1>9, <1>10, <1>11
<1>13. /\ phase = "spawn" /\ phase' = "port" /\ stray' \in Nat
       /\ UNCHANGED <<first, respawns, retries, shown, monitor, app>>
  BY <1>0 DEF Spawn
<1>14. ~monitor.on /\ shown \notin {"Healthy", "Degraded"}
  BY <1>13 DEF LifecycleInvariant, HealthIsOfCurrentServer
<1>15. phase' \in Phases BY <1>13 DEF Phases
<1> QED BY <1>0, <1>1, <1>6, <1>7, <1>12, <1>13, <1>14, <1>15, LifecycleStep

\* The exit event reaches the watcher, the catch block or nobody.
LEMMA ExitEventKeeps ==
    ASSUME LifecycleInvariant, ExitEvent
    PROVE  LifecycleInvariant'
<1>0. /\ app \in {"running", "exiting", "exited"} /\ stray \in Nat
      /\ retries \in 0 .. MaxRetries /\ respawns \in 0 .. MaxRespawns
      /\ phase \in Phases /\ shown \in Shown /\ monitor \in Monitor
  BY DEF LifecycleInvariant, LifecycleTypeOK
<1>1. first \in BOOLEAN BY DEF LifecycleInvariant, LifecycleTypeOK
<1>2. quit \in QuitSequence /\ child \in Child BY DEF LifecycleInvariant, LifecycleTypeOK
<1>3. PICK c : c = [child EXCEPT !.reaped = TRUE] BY Zenon
<1>4. c \in Child BY <1>2, <1>3, Zenon DEF Child
<1>5. c.reaped BY <1>2, <1>3 DEF Child
<1>6. PICK q : q = [quit EXCEPT !.child = FALSE, !.grace = "off"] OBVIOUS
<1>7. q \in QuitSequence BY <1>2, <1>6, Zenon DEF QuitSequence
<1>8. quit' = q BY <1>6 DEF ExitEvent, ResumeQuit
<1>9. /\ app' \in {"running", "exiting", "exited"} /\ UNCHANGED <<first, stray, retries>>
      /\ \/ phase = "watching" /\ ScheduleRespawn(c)
         \/ phase = "reap" /\ AttemptFailed(c)
         \/ phase \notin {"watching", "reap"} /\ child' = c /\ UNCHANGED <<phase, respawns, shown, monitor>>
  BY <1>0, <1>3 DEF ExitEvent, ResumeQuit
<1>10. CASE phase = "watching" /\ ScheduleRespawn(c)
  BY <1>4, <1>5, <1>7, <1>8, <1>9, <1>10, ScheduleRespawnKeeps
<1>11. CASE phase = "reap" /\ AttemptFailed(c)
  BY <1>4, <1>5, <1>7, <1>8, <1>9, <1>11, AttemptFailedKeeps
<1>12. CASE phase \notin {"watching", "reap"} /\ child' = c /\ UNCHANGED <<phase, respawns, shown, monitor>>
  <2>1. ~monitor.on /\ shown \notin {"Healthy", "Degraded"}
    BY <1>12 DEF LifecycleInvariant, HealthIsOfCurrentServer
  <2> QED BY <1>0, <1>1, <1>4, <1>5, <1>7, <1>8, <1>9, <1>12, <2>1, LifecycleStep
<1> QED BY <1>9, <1>10, <1>11, <1>12

\* The steps of the attempt that await and decide.
LEMMA AttemptKeeps ==
    ASSUME LifecycleInvariant,
           \/ Retry \/ ConfigFails \/ PortAnnounced \/ PortRejected \/ PollAnswered
           \/ PollSucceeds \/ FirstReady \/ PollTimesOut \/ CatchAttempt \/ BackoffExpires
    PROVE  LifecycleInvariant'
<1>0. /\ app \in {"running", "exiting", "exited"} /\ stray \in Nat
      /\ retries \in 0 .. MaxRetries /\ respawns \in 0 .. MaxRespawns
      /\ shown \in Shown /\ monitor \in Monitor /\ quit \in QuitSequence /\ child \in Child
  BY DEF LifecycleInvariant, LifecycleTypeOK
<1>1. first \in BOOLEAN BY DEF LifecycleInvariant, LifecycleTypeOK
<1>2. /\ phase \in {"off", "spawn", "backoff"} /\ child.os # "none" => child.reaped \/ child.term
      /\ child.killed => child.reaped \/ child.term \/ phase = "reap"
      /\ quit.grace = "running" => child.reaped \/ child.killed
      /\ shown \in {"Healthy", "Degraded"} => phase = "watching"
      /\ monitor.on => phase = "watching"
  BY DEF LifecycleInvariant, ChildGoneOrTold, HealthIsOfCurrentServer
<1>3. CASE Retry
  <2>1. /\ phase = "off" /\ phase' \in {"spawn", "off"} /\ shown' \in {"Starting", "Failed"}
        /\ respawns' = 0 /\ retries < MaxRetries /\ retries' = retries + 1
        /\ UNCHANGED <<child, stray, monitor, quit, app>>
    BY <1>3 DEF Retry
  <2>2. first' \in BOOLEAN BY <1>3 DEF Retry
  <2>3. retries' \in 0 .. MaxRetries /\ respawns' \in 0 .. MaxRespawns BY <1>0, <2>1, LifecycleAssumption
  <2>4. phase' \in Phases /\ shown' \in Shown BY <2>1 DEF Phases, Shown
  <2> QED BY <1>0, <1>2, <2>1, <2>2, <2>3, <2>4, LifecycleStep
<1>4. CASE ConfigFails
  <2>1. phase = "spawn" /\ AttemptFailed(child) /\ UNCHANGED <<first, stray, retries, quit, app>>
    BY <1>4 DEF ConfigFails
  <2> QED BY <1>0, <1>2, <2>1, AttemptFailedKeeps
<1>5. CASE PortAnnounced BY <1>5, PhaseStep DEF PortAnnounced, Phases
<1>6. CASE PortRejected BY <1>6, PhaseStep DEF PortRejected, Phases
<1>7. CASE PollAnswered BY <1>7, PhaseStep DEF PollAnswered, Phases
<1>8. CASE PollTimesOut BY <1>8, PhaseStep DEF PollTimesOut, Phases
<1>9. CASE PollSucceeds
  <2>1. CASE first
    <3>1. /\ phase = "answered" /\ phase' = "readied"
          /\ UNCHANGED <<first, child, stray, respawns, retries, shown, monitor, quit, app>>
      BY <1>9, <2>1 DEF PollSucceeds
    <3> QED BY <3>1, PhaseStep DEF Phases
  <2>2. CASE ~first
    <3>1. phase = "answered" /\ WatchChild /\ UNCHANGED <<first, stray, retries, quit, app>>
      BY <1>9, <2>2 DEF PollSucceeds
    <3> QED BY <3>1, WatchChildKeeps
  <2> QED BY <2>1, <2>2
<1>10. CASE FirstReady BY <1>10, WatchChildKeeps DEF FirstReady
<1>11. CASE CatchAttempt
  <2>1. phase = "catch" /\ UNCHANGED <<first, stray, retries, quit, app>> BY <1>11, Zenon DEF CatchAttempt
  <2>2. CASE SeemsAlive(child)
    <3>1. phase' = "reap" /\ child' = Kill(child) /\ UNCHANGED <<respawns, shown, monitor>>
      BY <1>11, <2>2 DEF CatchAttempt
    <3>2. child' \in Child BY <1>0, <3>1, KillChild
    <3>3. quit.grace = "running" => child.reaped BY <1>2, <2>2 DEF SeemsAlive
    <3>4. quit.grace = "running" => child'.reaped BY <1>0, <3>1, <3>3, KillChild
    <3>5. phase' \in Phases BY <3>1 DEF Phases
    <3> QED BY <1>0, <1>1, <1>2, <2>1, <3>1, <3>2, <3>4, <3>5, LifecycleStep
  <2>3. CASE ~SeemsAlive(child)
    <3>1. AttemptFailed(child) BY <1>11, <2>3 DEF CatchAttempt
    <3>2. child.os # "none" => child.reaped \/ child.term
      BY <1>2, <2>1, <2>3 DEF SeemsAlive, ExitCodeSet
    <3> QED BY <1>0, <1>2, <2>1, <3>1, <3>2, AttemptFailedKeeps
  <2> QED BY <2>2, <2>3
<1>12. CASE BackoffExpires
  <2>1. /\ phase = "backoff" /\ phase' = "spawn" /\ shown' = "Starting"
        /\ UNCHANGED <<child, stray, respawns, retries, monitor, quit, app>>
    BY <1>12 DEF BackoffExpires
  <2>2. first' \in BOOLEAN BY <1>12, Zenon DEF BackoffExpires
  <2>3. phase' \in Phases /\ shown' \in Shown BY <2>1 DEF Phases, Shown
  <2> QED BY <1>0, <1>2, <2>1, <2>2, <2>3, LifecycleStep
<1> QED BY <1>3, <1>4, <1>5, <1>6, <1>7, <1>8, <1>9, <1>10, <1>11, <1>12

\* The monitor, the quit sequence and the end of the application.
LEMMA AroundKeeps ==
    ASSUME LifecycleInvariant, Probe \/ Report \/ Quit \/ GraceExpires \/ StrayExitEvent \/ AppExits
    PROVE  LifecycleInvariant'
<1>0. /\ app \in {"running", "exiting", "exited"} /\ stray \in Nat
      /\ retries \in 0 .. MaxRetries /\ respawns \in 0 .. MaxRespawns /\ phase \in Phases
      /\ shown \in Shown /\ monitor \in Monitor /\ quit \in QuitSequence /\ child \in Child
  BY DEF LifecycleInvariant, LifecycleTypeOK
<1>1. first \in BOOLEAN BY DEF LifecycleInvariant, LifecycleTypeOK
<1>2. /\ phase \in {"off", "spawn", "backoff"} /\ child.os # "none" => child.reaped \/ child.term
      /\ child.killed => child.reaped \/ child.term \/ phase = "reap"
      /\ quit.grace = "running" => child.reaped \/ child.killed
      /\ shown \in {"Healthy", "Degraded"} => phase = "watching"
      /\ monitor.on => phase = "watching"
  BY DEF LifecycleInvariant, ChildGoneOrTold, HealthIsOfCurrentServer
<1>3. MonitorOff \in Monitor BY DEF MonitorOff, Monitor, Health
<1>4. ~MonitorOff.on BY DEF MonitorOff
<1>5. CASE Probe
  <2>1. PICK result \in ProbeResults : monitor' = [monitor EXCEPT !.probe = result] BY <1>5 DEF Probe
  <2>2. result \in Health
    <3>1. CASE child.os = "alive" BY <2>1, <3>1 DEF ProbeResults, Health
    <3>2. CASE child.os # "alive" BY <2>1, <3>2 DEF ProbeResults, Health
    <3> QED BY <3>1, <3>2
  <2>3. monitor' \in Monitor BY <1>0, <2>1, <2>2 DEF Monitor
  <2>4. monitor'.on = monitor.on BY <1>0, <2>1 DEF Monitor
  <2>5. UNCHANGED <<phase, first, child, stray, respawns, retries, shown, quit, app>>
    BY <1>5 DEF Probe
  <2> QED BY <1>0, <1>1, <1>2, <2>3, <2>4, <2>5, LifecycleStep
<1>6. CASE Report
  <2>1. UNCHANGED <<phase, first, child, stray, respawns, retries, quit, app>> BY <1>6 DEF Report
  <2>2. CASE monitor.on
    <3>1. phase = "watching" BY <1>2, <2>2
    <3>2. PICK m : m = [monitor EXCEPT !.last = monitor.probe, !.probe = "none"] OBVIOUS
    <3>3. m \in Monitor BY <1>0, <3>2, Zenon DEF Monitor
    <3>4. monitor' = m BY <1>6, <2>2, <3>2 DEF Report
    <3>5. shown' \in Shown BY <1>0, <1>6, <2>2, Zenon DEF Report, Shown
    <3> QED BY <1>0, <1>1, <1>2, <2>1, <3>1, <3>3, <3>4, <3>5, LifecycleStep
  <2>3. CASE ~monitor.on
    <3>1. monitor' = MonitorOff /\ UNCHANGED shown BY <1>6, <2>3 DEF Report
    <3> QED BY <1>0, <1>1, <1>2, <1>3, <1>4, <2>1, <3>1, LifecycleStep
  <2> QED BY <2>2, <2>3
<1>7. CASE Quit BY <1>0, <1>7, BeforeQuitKeeps DEF Quit
<1>8. CASE GraceExpires
  <2>1. PICK q : q = [quit EXCEPT !.grace = "over"] BY Zenon
  <2>2. q \in QuitSequence /\ q.grace = "over" BY <1>0, <2>1 DEF QuitSequence
  <2>3. /\ quit' = q /\ quit.grace = "running"
        /\ UNCHANGED <<phase, first, stray, respawns, retries, shown, monitor, app>>
    BY <1>8, <2>1 DEF GraceExpires
  <2>4. child' = child
    <3>1. CASE SeemsAlive(child)
      <4>1. child.reaped BY <1>2, <2>3, <3>1 DEF SeemsAlive
      <4> QED BY <1>0, <1>8, <3>1, <4>1, KillChild DEF GraceExpires
    <3>2. CASE ~SeemsAlive(child) BY <1>8, <3>2 DEF GraceExpires
    <3> QED BY <3>1, <3>2
  <2> QED BY <1>0, <1>1, <1>2, <2>2, <2>3, <2>4, LifecycleStep
<1>9. CASE StrayExitEvent
  <2>1. stray' \in Nat /\ UNCHANGED <<phase, first, respawns, retries, shown, monitor>>
    BY <1>0, <1>9 DEF StrayExitEvent
  <2>2. CASE BeforeQuit BY <2>1, <2>2, BeforeQuitKeeps, Zenon
  <2>3. CASE UNCHANGED <<child, quit, app>> BY <1>0, <1>1, <1>2, <2>1, <2>3, LifecycleStep, Zenon
  <2> QED BY <1>9, <2>2, <2>3 DEF StrayExitEvent
<1>10. CASE AppExits
  <2>1. /\ app' = "exited" /\ monitor' = MonitorOff
        /\ UNCHANGED <<phase, first, child, stray, respawns, retries, shown, quit>>
    BY <1>10 DEF AppExits
  <2> QED BY <1>0, <1>1, <1>2, <1>3, <1>4, <2>1, LifecycleStep
<1> QED BY <1>5, <1>6, <1>7, <1>8, <1>9, <1>10

\* The host keeps its invariant, however the attempts, the monitor, the quit
\* sequence and the server interleave, for every number of respawns and retries.
THEOREM LifecycleInvariantHolds == LifecycleSpec => []LifecycleInvariant
<1>1. LifecycleInit => LifecycleInvariant
  <2> SUFFICES ASSUME LifecycleInit PROVE LifecycleInvariant OBVIOUS
  <2> USE DEF LifecycleInit
  <2>1. NoChild \in Child /\ NoChild.os = "none" BY DEF NoChild, Child
  <2>2. ~NoChild.killed BY DEF NoChild
  <2>3. NoQuit \in QuitSequence /\ NoQuit.grace = "off" BY DEF NoQuit, QuitSequence
  <2>4. MonitorOff \in Monitor BY DEF MonitorOff, Monitor, Health
  <2>5. ~MonitorOff.on BY DEF MonitorOff
  <2>6. phase \in Phases /\ shown \in Shown /\ shown \notin {"Healthy", "Degraded"} BY DEF Phases, Shown
  <2>7. LifecycleTypeOK
    <3>1. first \in BOOLEAN OBVIOUS
    <3> QED BY <2>1, <2>3, <2>4, <2>6, <3>1, LifecycleAssumption DEF LifecycleTypeOK
  <2>8. HealthIsOfCurrentServer BY <2>5, <2>6 DEF HealthIsOfCurrentServer
  <2>9. ChildGoneOrTold BY <2>1, <2>2, <2>3 DEF ChildGoneOrTold
  <2> QED BY <2>7, <2>8, <2>9 DEF LifecycleInvariant
<1>2. LifecycleInvariant /\ [LifecycleNext]_lvars => LifecycleInvariant'
  <2> SUFFICES ASSUME LifecycleInvariant, [LifecycleNext]_lvars PROVE LifecycleInvariant' OBVIOUS
  <2>1. CASE HostNext BY <2>1, SpawnKeeps, ExitEventKeeps, AttemptKeeps, AroundKeeps DEF HostNext
  <2>2. CASE ServerNext BY <2>2, ServerNextKeeps
  <2>3. CASE UNCHANGED lvars
    <3>1. UNCHANGED <<phase, first, child, stray, respawns, retries, shown, monitor, quit, app>>
      BY <2>3 DEF lvars
    <3>2. LifecycleTypeOK' BY <3>1 DEF LifecycleInvariant, LifecycleTypeOK
    <3>3. HealthIsOfCurrentServer' /\ ChildGoneOrTold'
      BY <3>1 DEF LifecycleInvariant, HealthIsOfCurrentServer, ChildGoneOrTold
    <3> QED BY <3>2, <3>3 DEF LifecycleInvariant
  <2> QED BY <2>1, <2>2, <2>3 DEF LifecycleNext
<1> QED BY <1>1, <1>2, PTL DEF LifecycleSpec

\* Healthy and Degraded are shown only while the current server is watched: a
\* probe of the monitor before it, in flight when a crash was noticed, changes
\* nothing (healthPoller.ts).
THEOREM HealthIsCurrent == LifecycleSpec => []HealthIsOfCurrentServer
<1>1. LifecycleInvariant => HealthIsOfCurrentServer BY DEF LifecycleInvariant
<1> QED BY <1>1, LifecycleInvariantHolds, PTL

\* A server is started only when the one before it is gone, or was told to stop
\* (serverLifecycle.ts, shutdown.ts).
THEOREM OneServerAtATime == LifecycleSpec => OneServerUnlessQuitting
<1>1. LifecycleInvariant /\ [LifecycleNext]_lvars => [stray' > stray => child.term]_lvars
  <2> SUFFICES ASSUME LifecycleInvariant, LifecycleNext, stray' > stray PROVE child.term OBVIOUS
  <2>0. stray \in Nat BY DEF LifecycleInvariant, LifecycleTypeOK
  <2>1. Spawn
    <3>1. CASE ServerNext BY <2>0, <3>1, SMTT(30) DEF ServerNext, Announce, ReadinessShifts, Die, Stop
    <3>2. CASE HostNext
      BY <2>0, <3>2 DEF HostNext, Retry, ConfigFails, PortAnnounced, PortRejected, PollAnswered,
         PollSucceeds, FirstReady, PollTimesOut, CatchAttempt, BackoffExpires, ExitEvent, Probe,
         Report, Quit, GraceExpires, StrayExitEvent, AppExits
    <3> QED BY <3>1, <3>2 DEF LifecycleNext
  <2>2. phase = "spawn" BY <2>1 DEF Spawn
  <2>3. child.os # "none" /\ ~child.reaped BY <2>0, <2>1, SMTT(30) DEF Spawn
  <2> QED BY <2>2, <2>3 DEF LifecycleInvariant, ChildGoneOrTold
<1> QED BY <1>1, LifecycleInvariantHolds, PTL DEF LifecycleSpec, OneServerUnlessQuitting

-----------------------------------------------------------------------------
(* Accounts *)

\* The steps a request takes with a ticket it may have claimed.
Claimed == {"read", "factor", "issue"}

\* What a request may hold, given the tables, apart from its ticket.
OfTables(q) ==
    /\ q.at \in {"user", "creds"} => q.user \in Users
    /\ q.at = "creds" => q.user \in users
    /\ q.at \notin {"idle", "user", "creds"} => q.user \in creds
    /\ q.at = "rotate" => q.row \in Tokens /\ session[q.row] # None
    /\ q.at \in {"confirm", "factor"} =>
          q.row \in MfaRow /\ q.row.secret \in confirmed /\ q.row.codes \subseteq CodesOf(q.row.secret)
    /\ q.at \in {"creator", "update"} => q.key \in AllLibraries
    /\ q.at \in {"accept", "accepted"} => q.key \in Invitations /\ q.row \in InvitationRow
    /\ q.at \in {"user", "creds", "join", "rotate"} => q.key = None
    /\ q.at = "claim" =>
          q.key \in Tickets /\ q.row \in 0..Horizon /\ q.row < TicketTTL /\ age[q.key] <= q.row + Stall

\* Rows that other requests rely on are only added to.
Grows ==
    /\ users \subseteq users' /\ creds \subseteq creds'
    /\ Burned \subseteq Burned' /\ age' = age /\ confirmed \subseteq confirmed'
    /\ \A t \in Tokens : session[t] # None => session'[t] # None

\* The tables, without the requests.
Tables ==
    /\ TypeOK
    /\ \A t \in Tokens : session[t] # None /\ session[t].by # None =>
          /\ session[t].by \in Burned
          /\ \A s \in Tokens \ {t} : session[s] # None => session[s].by # session[t].by
    /\ EnabledSecretWasConfirmed
    /\ CodesBelongToSecret
    /\ NothingOfADeletedLibrary

\* Times of a ticket are numbers, of which None is not one.
LEMMA AgesAreNumbers == 0..Horizon \subseteq Nat /\ 0 \in 0..Horizon /\ None \notin Nat
BY AccountsAssumption DEF Horizon

\* The margin: a request that found its ticket valid claims it before its claim could be
\* forgotten.
LEMMA NoneOnItsWay ==
    ASSUME NEW now \in Nat, NEW read \in Nat, read < TicketTTL, now <= read + Stall
    PROVE  ~(now >= ClaimTTL)
<1>1. TicketTTL \in Nat /\ ClaimTTL \in Nat /\ Stall \in Nat /\ TicketTTL + Stall <= ClaimTTL
  BY AccountsAssumption, Zenon
<1> QED BY <1>1

\* A step that leaves a request alone leaves what it holds true.
LEMMA OthersKeep ==
    ASSUME NEW q, Grows, OfTables(q) PROVE OfTables(q)'
BY DEF Grows, OfTables

\* A step of request r that keeps the ticket it has, drops it or claims one nobody has.
LEMMA RequestStep ==
    ASSUME AccountsInvariant, Tables', Grows, NEW r \in Requests, NEW q,
           req' = [req EXCEPT ![r] = q], OfTables(q)',
           \/ q.at \notin Claimed
           \/ q.at = "issue" /\ q.key = None
           \/ q.key \in Burned' \ Burned
           \/ /\ q.key = req[r].key /\ req[r].at \in Claimed
              /\ req[r].at = "issue" => q.at = "issue"
              /\ q.key = None => q.at = "issue",
           \A t \in Tokens : session'[t] # None =>
              \/ session[t] # None /\ session'[t].by = session[t].by
              \/ req[r].at = "issue" /\ q.at = "idle" /\ session'[t].by = req[r].key
    PROVE  AccountsInvariant'
<1>0. DOMAIN req = Requests BY Zenon DEF AccountsInvariant, TypeOK
<1>1. req'[r] = q /\ \A s \in Requests \ {r} : req'[s] = req[s] BY <1>0, Zenon
<1>2. \A s \in Requests : OfTables(req[s]) /\ HoldsWhatItRead(s)
  BY Zenon DEF AccountsInvariant, HoldsWhatItRead, OfTables
<1>3. \A s \in Requests : OfTables(req[s])'
  <2> TAKE s \in Requests
  <2>1. CASE s = r BY <1>1, <2>1, Zenon DEF OfTables
  <2>2. CASE s # r BY <1>1, <1>2, <2>2, OthersKeep, ZenonT(30) DEF OfTables
  <2> QED BY <2>1, <2>2, Zenon
<1>4. Burned \subseteq Tickets /\ None \notin Tickets BY AccountsAssumption, Zenon DEF Burned
<1>5. \A t \in Tokens : session[t] # None /\ session[t].by # None => session[t].by \in Burned
  BY Zenon DEF AccountsInvariant
\* The ticket of a request is its own.
<1>6. \A s \in Requests : req[s].at \in Claimed =>
         \/ req[s].at = "issue" /\ req[s].key = None
         \/ /\ req[s].key \in Burned
            /\ \A t \in Tokens : session[t] # None => session[t].by # req[s].key
            /\ \A o \in Requests \ {s} : req[o].at \in Claimed => req[o].key # req[s].key
  BY <1>2, Zenon DEF HoldsWhatItRead, Claimed
<1>7. \A s \in Requests : req'[s].at \in Claimed =>
         \/ req'[s].at = "issue" /\ req'[s].key = None
         \/ /\ req'[s].key \in Burned'
            /\ \A t \in Tokens : session'[t] # None => session'[t].by # req'[s].key
            /\ \A o \in Requests \ {s} : req'[o].at \in Claimed => req'[o].key # req'[s].key
  <2> SUFFICES ASSUME NEW s \in Requests, req'[s].at \in Claimed,
                      ~(req'[s].at = "issue" /\ req'[s].key = None)
               PROVE  /\ req'[s].key \in Burned'
                      /\ \A t \in Tokens : session'[t] # None => session'[t].by # req'[s].key
                      /\ \A o \in Requests \ {s} :
                            req'[o].at \in Claimed => req'[o].key # req'[s].key
    BY Zenon
  <2>1. CASE s # r
    <3>1. req'[s] = req[s] BY <1>1, <2>1, Zenon
    <3>2. req[s].key \in Burned /\ req[s].key # None BY <1>4, <1>6, <3>1, Zenon
    <3>3. \A t \in Tokens : session'[t] # None => session'[t].by # req[s].key
      BY <1>6, <2>1, <3>1, <3>2, Zenon DEF Claimed
    <3>4. q.at \in Claimed => q.key # req[s].key BY <1>6, <2>1, <3>1, <3>2, Zenon
    <3> QED BY <1>1, <1>6, <3>1, <3>2, <3>3, <3>4, ZenonT(30) DEF Grows
  <2>2. CASE s = r
    <3>1. q.at \in Claimed /\ ~(q.at = "issue" /\ q.key = None) BY <1>1, <2>2, Zenon
    <3>2. q.at # "idle" BY <3>1, Zenon DEF Claimed
    <3>3. \A k \in Tokens : session'[k] # None => session[k] # None /\ session'[k].by = session[k].by
      BY <3>2, Zenon
    <3>4. \A o \in Requests \ {r} : req'[o] = req[o] BY <1>1, Zenon
    <3>5. CASE q.key \in Burned' \ Burned
      <4>1. q.key # None /\ q.key \notin Burned /\ q.key \in Burned'
        <5>1. Burned' \subseteq Tickets BY Zenon DEF Burned
        <5> QED BY <1>4, <3>5, <5>1, Zenon
      <4>2. \A t \in Tokens : session'[t] # None => session'[t].by # q.key
        BY <1>5, <3>3, <4>1, Zenon
      <4>3. \A o \in Requests \ {r} : req[o].at \in Claimed => req[o].key # q.key
        BY <1>6, <4>1, Zenon
      <4> QED BY <1>1, <2>2, <3>4, <4>1, <4>2, <4>3, Zenon
    <3>6. CASE q.key \notin Burned' \ Burned
      <4>1. q.key = req[r].key /\ req[r].at \in Claimed /\ ~(req[r].at = "issue" /\ req[r].key = None)
        BY <3>1, <3>6, Zenon
      <4>2. /\ req[r].key \in Burned
            /\ \A t \in Tokens : session[t] # None => session[t].by # req[r].key
            /\ \A o \in Requests \ {r} : req[o].at \in Claimed => req[o].key # req[r].key
        BY <1>6, <4>1, Zenon
      <4>3. req[r].key \in Burned' BY <4>2, Zenon DEF Grows
      <4>4. \A t \in Tokens : session'[t] # None => session'[t].by # req[r].key
        BY <3>3, <4>2, Zenon
      <4> QED BY <1>1, <2>2, <3>4, <4>1, <4>2, <4>3, <4>4, Zenon
    <3> QED BY <3>5, <3>6, Zenon
  <2> QED BY <2>1, <2>2, Zenon
<1>8. \A s \in Requests : HoldsWhatItRead(s)'
  BY <1>3, <1>7, Zenon DEF HoldsWhatItRead, OfTables, Claimed
<1> QED BY <1>8, Zenon DEF AccountsInvariant, Tables

\* A step of no request.
LEMMA TableStep ==
    ASSUME AccountsInvariant, Tables', Grows, UNCHANGED req,
           \A t \in Tokens : session'[t] # None =>
              session[t] # None /\ session'[t].by = session[t].by
    PROVE  AccountsInvariant'
<1>1. \A s \in Requests : HoldsWhatItRead(s)'
  <2> TAKE s \in Requests
  <2>1. HoldsWhatItRead(s) BY Zenon DEF AccountsInvariant
  <2>2. OfTables(req[s])' BY <2>1, OthersKeep, Zenon DEF HoldsWhatItRead, OfTables, Grows
  <2> QED BY <2>1, <2>2, Zenon DEF HoldsWhatItRead, OfTables, Grows
<1> QED BY <1>1, Zenon DEF AccountsInvariant, Tables

\* What every step starts from.
LEMMA Facts ==
    ASSUME AccountsInvariant
    PROVE  /\ Tables /\ TypeOK /\ DOMAIN req = Requests
           /\ \A s \in Requests : OfTables(req[s])
           /\ \A s \in Requests : req[s].at \in Claimed =>
                 \/ req[s].at = "issue" /\ req[s].key = None
                 \/ req[s].key \in Burned /\ req[s].key # None /\ req[s].key \in Tickets
           /\ \A t \in Tokens : session[t] # None => session[t] \in SessionRow
           /\ \A t \in Tokens : session[t] # None => session[t].user \in creds
           /\ SignedIn \subseteq creds /\ creds \subseteq users /\ users \subseteq Users
<1>1. Tables /\ TypeOK /\ DOMAIN req = Requests BY Zenon DEF AccountsInvariant, Tables, TypeOK
<1>2. \A s \in Requests : HoldsWhatItRead(s) BY DEF AccountsInvariant
<1>3. \A s \in Requests : OfTables(req[s]) BY <1>2, Zenon DEF HoldsWhatItRead, OfTables
<1>4. \A s \in Requests : req[s].at \in Claimed =>
         \/ req[s].at = "issue" /\ req[s].key = None
         \/ req[s].key \in Burned
  BY <1>2, Zenon DEF HoldsWhatItRead, Claimed
<1>5. Burned \subseteq Tickets /\ None \notin Tickets BY AccountsAssumption, Zenon DEF Burned
<1>6. \A t \in Tokens : session[t] # None => session[t] \in SessionRow BY <1>1, Zenon DEF TypeOK
<1>7. \A t \in Tokens : session[t] # None => session[t].user \in creds
  BY <1>1, <1>6, Zenon DEF TypeOK, SignedIn, SessionRow
<1>8. SignedIn \subseteq creds /\ creds \subseteq users /\ users \subseteq Users
  BY <1>1 DEF TypeOK
<1> QED BY <1>1, <1>3, <1>4, <1>5, <1>6, <1>7, <1>8, Zenon

\* A step that writes no table.
LEMMA TablesStay ==
    ASSUME AccountsInvariant, UNCHANGED <<auth, tenancy>>, DOMAIN req' = Requests
    PROVE  Tables' /\ Grows
BY Zenon DEF AccountsInvariant, Tables, TypeOK, Grows, auth, tenancy, SignedIn, Burned,
       EnabledSecretWasConfirmed, CodesBelongToSecret, NothingOfADeletedLibrary

\* A step that writes one row of mfa_totp_settings.
LEMMA MfaStep ==
    ASSUME AccountsInvariant, NEW u \in Users, NEW new \in MfaRow \cup {None},
           mfa' = [mfa EXCEPT ![u] = new],
           new # None => /\ new.enabled => new.secret \in confirmed
                         /\ new.codes \subseteq CodesOf(new.secret),
           UNCHANGED <<users, creds, session, ticket, age, spent, confirmed, tenancy>>,
           DOMAIN req' = Requests
    PROVE  Tables' /\ Grows
<1>1. mfa \in [Users -> MfaRow \cup {None}] /\ EnabledSecretWasConfirmed /\ CodesBelongToSecret
  BY Zenon DEF AccountsInvariant, TypeOK
<1>2. mfa' \in [Users -> MfaRow \cup {None}] BY <1>1, Zenon
<1>3. \A v \in Users : mfa'[v] = IF v = u THEN new ELSE mfa[v] BY <1>1, Zenon
<1>4. EnabledSecretWasConfirmed' BY <1>1, <1>3, Zenon DEF EnabledSecretWasConfirmed
<1>5. CodesBelongToSecret' BY <1>1, <1>3, Zenon DEF CodesBelongToSecret
<1>6. TypeOK' BY <1>2, Zenon DEF AccountsInvariant, TypeOK, SignedIn, tenancy
<1> QED BY <1>4, <1>5, <1>6, Zenon
        DEF AccountsInvariant, Tables, Grows, Burned, tenancy, NothingOfADeletedLibrary

\* A step that adds a member to a library that exists.
LEMMA MemberStep ==
    ASSUME AccountsInvariant, NEW l \in libs, NEW u \in users,
           member' = [member EXCEPT ![l] = @ \cup {u}],
           UNCHANGED <<auth, libs, invitation>>, DOMAIN req' = Requests
    PROVE  Tables' /\ Grows
<1>1. member \in [AllLibraries -> SUBSET users] /\ libs \subseteq AllLibraries
  BY Zenon DEF AccountsInvariant, TypeOK
<1>2. member' \in [AllLibraries -> SUBSET users] BY <1>1
<1>3. NothingOfADeletedLibrary' BY <1>1, Zenon DEF AccountsInvariant, NothingOfADeletedLibrary
<1>4. TypeOK' BY <1>2, Zenon DEF AccountsInvariant, TypeOK, SignedIn, auth
<1> QED BY <1>3, <1>4, Zenon
        DEF AccountsInvariant, Tables, Grows, Burned, auth, EnabledSecretWasConfirmed, CodesBelongToSecret

\* A step that revokes a refresh token.
LEMMA RevokeStep ==
    ASSUME AccountsInvariant, NEW t \in Tokens, session[t] # None,
           session' = [session EXCEPT ![t].status = "revoked"],
           UNCHANGED <<users, creds, ticket, age, spent, mfa, confirmed, tenancy>>,
           DOMAIN req' = Requests
    PROVE  /\ Tables' /\ Grows
           /\ \A s \in Tokens : session'[s] # None =>
                 session[s] # None /\ session'[s].by = session[s].by
<1>1. PICK new : new = [session[t] EXCEPT !.status = "revoked"] BY Zenon
<1>2. session[t] \in SessionRow /\ session \in [Tokens -> SessionRow \cup {None}]
  BY Facts DEF TypeOK
<1>3. new \in SessionRow /\ new.by = session[t].by /\ new.user = session[t].user
  BY <1>1, <1>2 DEF SessionRow
<1>4. session' = [session EXCEPT ![t] = new] BY <1>1
<1>5. session' \in [Tokens -> SessionRow \cup {None}] BY <1>2, <1>3, <1>4
<1>a. \A s \in Tokens : session[s] # None => session'[s] # None
  BY <1>2, <1>3, <1>4, AccountsAssumption
<1>6. \A s \in Tokens : session'[s] # None =>
         session[s] # None /\ session'[s].by = session[s].by /\ session'[s].user = session[s].user
  BY <1>2, <1>3, <1>4, AccountsAssumption
<1>7. SignedIn' \subseteq SignedIn
  <2> SUFFICES ASSUME NEW u \in Users, NEW s \in Tokens, session'[s] # None, session'[s].user = u
               PROVE  u \in SignedIn
    BY DEF SignedIn
  <2> QED BY <1>6 DEF SignedIn
<1>8. TypeOK' BY <1>5, <1>7 DEF AccountsInvariant, TypeOK, tenancy
<1>9. Grows BY <1>a DEF Grows, Burned
<1>10. \A s \in Tokens : session'[s] # None /\ session'[s].by # None =>
          /\ session'[s].by \in Burned'
          /\ \A o \in Tokens \ {s} : session'[o] # None => session'[o].by # session'[s].by
  BY <1>6 DEF AccountsInvariant, Burned
<1>11. Tables'
  BY <1>8, <1>10 DEF AccountsInvariant, Tables, tenancy, EnabledSecretWasConfirmed,
                     CodesBelongToSecret, NothingOfADeletedLibrary
<1> QED BY <1>6, <1>9, <1>11

\* A step of a request that writes no table.
LEMMA ReadStep ==
    ASSUME AccountsInvariant, NEW r \in Requests, NEW q, req' = [req EXCEPT ![r] = q],
           UNCHANGED <<auth, tenancy>>, OfTables(q),
           \/ q.at \notin Claimed
           \/ q.at = "issue" /\ q.key = None
           \/ /\ q.key = req[r].key /\ req[r].at \in Claimed
              /\ req[r].at = "issue" => q.at = "issue"
              /\ q.key = None => q.at = "issue"
    PROVE  AccountsInvariant'
<1>1. DOMAIN req' = Requests BY Facts
<1>2. Tables' /\ Grows BY <1>1, TablesStay
<1>3. OfTables(q)' BY <1>2, OthersKeep, Zenon
<1>4. \A t \in Tokens : session'[t] # None => session[t] # None /\ session'[t].by = session[t].by
  BY DEF auth
<1> QED BY <1>2, <1>3, <1>4, RequestStep, Zenon

\* The end of a request that only the request itself is concerned with.
LEMMA EndStep ==
    ASSUME AccountsInvariant, Tables', Grows, NEW r \in Requests, End(r),
           \A t \in Tokens : session'[t] # None =>
              \/ session[t] # None /\ session'[t].by = session[t].by
              \/ req[r].at = "issue" /\ session'[t].by = req[r].key
    PROVE  AccountsInvariant'
<1>1. PICK q : q = Idle BY Zenon
<1>2. q.at = "idle" BY <1>1, Zenon DEF Idle, Held
<1>3. req' = [req EXCEPT ![r] = q] BY <1>1 DEF End
<1>4. OfTables(q)' /\ q.at \notin Claimed BY <1>2, Zenon DEF OfTables, Claimed
<1> QED BY <1>2, <1>3, <1>4, RequestStep, Zenon

\* The statements that only read.
LEMMA ReadsKeepInvariant ==
    ASSUME AccountsInvariant, NEW r \in Requests,
           \/ \E u \in Users : SetupBegin(r, u) \/ Login(r, u)
           \/ \E t \in Tokens : RefreshRead(r, t)
           \/ \E k \in Tickets : VerifyTicket(r, k)
           \/ VerifyRead(r) \/ VerifyCode(r) \/ Refuse(r)
           \/ \E u \in Users, l \in AllLibraries : UpdateRead(r, u, l)
           \/ \E u \in Users, i \in Invitations : AcceptRead(r, u, i)
    PROVE  AccountsInvariant'
<1>0. OfTables(req[r]) /\ (req[r].at \in {"read", "factor"} => req[r].key # None)
  BY Facts, Zenon DEF Claimed
<1>1. ASSUME NEW u \in Users, SetupBegin(r, u) PROVE AccountsInvariant'
  <2>1. PICK q : q = Held("user", u, None, None) OBVIOUS
  <2>2. q.at = "user" /\ q.user = u /\ q.key = None BY <2>1 DEF Held
  <2>3. OfTables(q) /\ q.at \notin Claimed BY <2>2, Zenon DEF OfTables, Claimed
  <2> QED BY <1>1, <2>1, <2>3, ReadStep, Zenon DEF SetupBegin, Holds
<1>2. ASSUME NEW u \in Users, Login(r, u) PROVE AccountsInvariant'
  <2>1. PICK q : q = Held("issue", u, None, None) OBVIOUS
  <2>2. q.at = "issue" /\ q.user = u /\ q.key = None BY <2>1 DEF Held
  <2>3. OfTables(q) BY <1>2, <2>2, Zenon DEF OfTables, Login
  <2> QED BY <1>2, <2>1, <2>2, <2>3, ReadStep, Zenon DEF Login, Holds
<1>3. ASSUME NEW t \in Tokens, RefreshRead(r, t) PROVE AccountsInvariant'
  <2>1. PICK q : q = Held("rotate", session[t].user, None, t) BY SMTT(30)
  <2>2. q.at = "rotate" /\ q.user = session[t].user /\ q.key = None /\ q.row = t BY <2>1 DEF Held
  <2>3. session[t].user \in creds BY <1>3, Facts, Zenon DEF RefreshRead
  <2>4. OfTables(q) /\ q.at \notin Claimed BY <1>3, <2>2, <2>3, Zenon DEF OfTables, RefreshRead, Claimed
  <2> QED BY <1>3, <2>1, <2>4, ReadStep, Zenon DEF RefreshRead, Holds
<1>4. CASE VerifyRead(r)
  <2>1. PICK q : q = Held("factor", req[r].user, req[r].key, mfa[req[r].user]) BY Zenon
  <2>2. /\ q.at = "factor" /\ q.user = req[r].user /\ q.key = req[r].key
        /\ q.row = mfa[req[r].user]
    BY <2>1, Zenon DEF Held
  <2>3. /\ q.row \in MfaRow /\ q.row.secret \in confirmed
        /\ q.row.codes \subseteq CodesOf(q.row.secret)
    BY <1>4, <2>2, Zenon DEF VerifyRead, FactorOn, AccountsInvariant, TypeOK,
                      EnabledSecretWasConfirmed, CodesBelongToSecret
  <2>4. OfTables(q) BY <1>0, <1>4, <2>2, <2>3, Zenon DEF OfTables, VerifyRead
  <2>5. q.key = req[r].key /\ req[r].at = "read" /\ req[r].at \in Claimed /\ q.key # None
    BY <1>0, <1>4, <2>2, Zenon DEF VerifyRead, Claimed
  <2> QED BY <1>4, <2>1, <2>4, <2>5, ReadStep, Zenon DEF VerifyRead, Holds
<1>5. CASE VerifyCode(r)
  <2>1. PICK q : q = Held("issue", req[r].user, req[r].key, None) OBVIOUS
  <2>2. q.at = "issue" /\ q.user = req[r].user /\ q.key = req[r].key BY <2>1 DEF Held
  <2>3. OfTables(q) BY <1>0, <1>5, <2>2, Zenon DEF OfTables, VerifyCode
  <2>4. req[r].at \in Claimed BY <1>5, Zenon DEF VerifyCode, Claimed
  <2> QED BY <1>5, <2>1, <2>2, <2>3, <2>4, ReadStep, Zenon DEF VerifyCode, Holds
<1>6. CASE Refuse(r)
  <2>1. DOMAIN req' = Requests BY <1>6, Facts, Zenon DEF Refuse, End
  <2>2. Tables' /\ Grows BY <1>6, <2>1, TablesStay, Zenon DEF Refuse
  <2> QED BY <1>6, <2>2, EndStep, Zenon DEF Refuse, auth
<1>7. ASSUME NEW u \in Users, NEW l \in AllLibraries, UpdateRead(r, u, l) PROVE AccountsInvariant'
  <2>1. PICK q : q = Held("update", u, l, None) OBVIOUS
  <2>2. q.at = "update" /\ q.user = u /\ q.key = l BY <2>1 DEF Held
  <2>3. OfTables(q) /\ q.at \notin Claimed BY <1>7, <2>2, Facts, Zenon DEF OfTables, Claimed, UpdateRead
  <2> QED BY <1>7, <2>1, <2>3, ReadStep, Zenon DEF UpdateRead, Holds
<1>8. ASSUME NEW u \in Users, NEW i \in Invitations, AcceptRead(r, u, i) PROVE AccountsInvariant'
  <2>1. PICK q : q = Held("accept", u, i, invitation[i]) BY SMTT(30)
  <2>2. q.at = "accept" /\ q.user = u /\ q.key = i /\ q.row = invitation[i] BY <2>1 DEF Held
  <2>3. invitation[i] \in InvitationRow BY <1>8, Facts, Zenon DEF AcceptRead, TypeOK
  <2>4. OfTables(q) /\ q.at \notin Claimed
    BY <1>8, <2>2, <2>3, Facts, Zenon DEF OfTables, Claimed, AcceptRead
  <2> QED BY <1>8, <2>1, <2>4, ReadStep, Zenon DEF AcceptRead, Holds
<1>9. ASSUME NEW k \in Tickets, VerifyTicket(r, k) PROVE AccountsInvariant'
  <2>1. PICK q : q = Held("claim", ticket[k], k, age[k]) BY Zenon
  <2>2. q.at = "claim" /\ q.user = ticket[k] /\ q.key = k /\ q.row = age[k] BY <2>1, Zenon DEF Held
  <2>3. ticket[k] \in creds /\ age[k] \in 0..Horizon /\ age[k] < TicketTTL
    BY <1>9, Facts, Zenon DEF VerifyTicket, VerifyMFATicket, TypeOK
  <2>4. age[k] <= age[k] + Stall
    <3>1. age[k] \in Nat BY <2>3, AgesAreNumbers, Zenon
    <3> QED BY <3>1, AccountsAssumption
  <2>5. OfTables(q) /\ q.at \notin Claimed BY <2>2, <2>3, <2>4, Zenon DEF OfTables, Claimed
  <2> QED BY <1>9, <2>1, <2>5, ReadStep, Zenon DEF VerifyTicket, Holds
<1> QED BY <1>1, <1>2, <1>3, <1>4, <1>5, <1>6, <1>7, <1>8, <1>9, Zenon

\* The statements of the setup wizard.
LEMMA SetupKeepsInvariant ==
    ASSUME AccountsInvariant, NEW r \in Requests,
           SetupSaveUser(r) \/ SetupSaveCredentials(r) \/ SetupJoin(r)
    PROVE  AccountsInvariant'
<1>0. OfTables(req[r]) /\ TypeOK BY Facts, Zenon
<1>1. ASSUME NEW to, Step(r, to) PROVE DOMAIN req' = Requests BY <1>1, Facts, Zenon DEF Step, Holds
<1>2. CASE SetupSaveUser(r)
  <2>1. PICK q : q = Held("creds", req[r].user, req[r].key, req[r].row) OBVIOUS
  <2>2. q.at = "creds" /\ q.user = req[r].user /\ q.key = req[r].key BY <2>1 DEF Held
  <2>3. req[r].user \in Users /\ req[r].key = None BY <1>0, <1>2, Zenon DEF OfTables, SetupSaveUser
  <2>4. TypeOK' BY <1>0, <1>1, <1>2, <2>3, Zenon DEF TypeOK, SetupSaveUser, tenancy, SignedIn
  <2>5. Tables' /\ Grows
    BY <1>2, <2>4, Zenon DEF Tables, Grows, Burned, AccountsInvariant, SetupSaveUser, tenancy,
                      EnabledSecretWasConfirmed, CodesBelongToSecret, NothingOfADeletedLibrary
  <2>6. OfTables(q)' /\ q.at \notin Claimed
    BY <1>2, <2>2, <2>3, Zenon DEF OfTables, Claimed, SetupSaveUser
  <2> QED BY <1>2, <2>1, <2>5, <2>6, RequestStep, Zenon DEF SetupSaveUser, Step, Holds
<1>3. CASE SetupSaveCredentials(r)
  <2>1. PICK q : q = Held("join", req[r].user, req[r].key, req[r].row) OBVIOUS
  <2>2. q.at = "join" /\ q.user = req[r].user /\ q.key = req[r].key BY <2>1 DEF Held
  <2>3. req[r].user \in users /\ req[r].key = None BY <1>0, <1>3, Zenon DEF OfTables, SetupSaveCredentials
  <2>4. TypeOK' BY <1>0, <1>1, <1>3, <2>3, Zenon DEF TypeOK, SetupSaveCredentials, tenancy, SignedIn
  <2>5. Tables' /\ Grows
    BY <1>3, <2>4, Zenon DEF Tables, Grows, Burned, AccountsInvariant, SetupSaveCredentials, tenancy,
                      EnabledSecretWasConfirmed, CodesBelongToSecret, NothingOfADeletedLibrary
  <2>6. OfTables(q)' /\ q.at \notin Claimed
    BY <1>3, <2>2, <2>3, Zenon DEF OfTables, Claimed, SetupSaveCredentials
  <2> QED BY <1>3, <2>1, <2>5, <2>6, RequestStep, Zenon DEF SetupSaveCredentials, Step, Holds
<1>4. CASE SetupJoin(r)
  <2>1. PICK q : q = Held("issue", req[r].user, req[r].key, req[r].row) OBVIOUS
  <2>2. q.at = "issue" /\ q.user = req[r].user /\ q.key = req[r].key BY <2>1 DEF Held
  <2>3. req[r].user \in creds /\ req[r].key = None BY <1>0, <1>4, Zenon DEF OfTables, SetupJoin
  <2>4. OfTables(q) BY <2>2, <2>3, Zenon DEF OfTables
  <2>5. Tables' /\ Grows
    <3>1. DOMAIN req' = Requests BY <1>1, <1>4, Zenon DEF SetupJoin
    <3>2. CASE member' = member
      BY <1>4, <3>1, <3>2, TablesStay, Zenon DEF SetupJoin, tenancy
    <3>3. CASE member' # member
      <4>1. /\ member' = [member EXCEPT ![Default] = @ \cup {req[r].user}]
            /\ Default \in libs /\ req[r].user \in users /\ UNCHANGED <<auth, libs, invitation>>
        BY <1>0, <1>4, <2>3, <3>3, Zenon DEF SetupJoin, TypeOK
      <4> QED BY <3>1, <4>1, MemberStep, Zenon
    <3> QED BY <3>2, <3>3
  <2>6. OfTables(q)' BY <2>4, <2>5, OthersKeep
  <2> QED BY <1>4, <2>1, <2>2, <2>3, <2>5, <2>6, RequestStep, Zenon DEF SetupJoin, Step, Holds, auth
<1> QED BY <1>2, <1>3, <1>4

\* The statements on refresh tokens.
LEMMA SessionsKeepInvariant ==
    ASSUME AccountsInvariant, NEW r \in Requests,
           \/ \E u \in Users, k \in Tickets : LoginTicket(r, u, k)
           \/ \E t \in Tokens : Issue(r, t) \/ Logout(t)
           \/ RefreshRevoke(r)
    PROVE  AccountsInvariant'
<1>0. OfTables(req[r]) /\ TypeOK /\ Tables BY Facts, Zenon
<1>1. ASSUME NEW u \in Users, NEW k \in Tickets, LoginTicket(r, u, k) PROVE AccountsInvariant'
  <2>1. TypeOK' BY <1>0, <1>1, Zenon DEF TypeOK, LoginTicket, tenancy, SignedIn
  <2>2. Tables' /\ Grows
    BY <1>0, <1>1, <2>1, Zenon DEF Tables, Grows, Burned, LoginTicket, tenancy, EnabledSecretWasConfirmed,
                            CodesBelongToSecret, NothingOfADeletedLibrary
  <2> QED BY <1>1, <2>2, TableStep, Zenon DEF LoginTicket
<1>2. ASSUME NEW t \in Tokens, Issue(r, t) PROVE AccountsInvariant'
  <2>1. PICK new : new = [user |-> req[r].user, status |-> "active", by |-> req[r].key] BY Zenon
  <2>2. new.user = req[r].user /\ new.by = req[r].key BY <2>1
  <2>3. req[r].user \in creds /\ req[r].at = "issue" BY <1>0, <1>2, Zenon DEF OfTables, Issue
  <2>4. req[r].key \in Tickets \cup {None} BY <2>3, Facts, Zenon DEF Claimed
  <2>5. new \in SessionRow BY <1>0, <2>1, <2>3, <2>4 DEF SessionRow, TypeOK
  <2>6. session' = [session EXCEPT ![t] = new] /\ session[t] = None BY <1>2, <2>1, Zenon DEF Issue
  <2>7. /\ session' \in [Tokens -> SessionRow \cup {None}] /\ session'[t] = new
        /\ \A s \in Tokens \ {t} : session'[s] = session[s]
    BY <1>0, <2>5, <2>6 DEF TypeOK
  <2>8. SignedIn' \subseteq creds
    <3> SUFFICES ASSUME NEW u \in Users, NEW s \in Tokens, session'[s] # None, session'[s].user = u
                 PROVE  u \in creds
      BY DEF SignedIn
    <3> QED BY <2>2, <2>3, <2>7, Facts, Zenon
  <2>9. TypeOK'
    BY <1>0, <1>2, <2>7, <2>8, Facts, Zenon DEF TypeOK, Issue, End, tenancy
  <2>10. \A k \in Tokens : session'[k] # None /\ session'[k].by # None =>
            /\ session'[k].by \in Burned'
            /\ \A s \in Tokens \ {k} : session'[s] # None => session'[s].by # session'[k].by
    <3>1. \/ req[r].key = None
          \/ /\ req[r].key \in Burned
             /\ \A s \in Tokens : session[s] # None => session[s].by # req[r].key
      BY <2>3, Zenon DEF AccountsInvariant, HoldsWhatItRead
    <3>2. Burned' = Burned BY <1>2, Zenon DEF Issue, Burned
    <3>3. \A k \in Tokens : session[k] # None /\ session[k].by # None =>
             /\ session[k].by \in Burned
             /\ \A s \in Tokens \ {k} : session[s] # None => session[s].by # session[k].by
      BY <1>0, Zenon DEF Tables
    <3> SUFFICES ASSUME NEW k \in Tokens, session'[k] # None, session'[k].by # None
                 PROVE  /\ session'[k].by \in Burned
                        /\ \A s \in Tokens \ {k} : session'[s] # None => session'[s].by # session'[k].by
      BY <3>2, Zenon
    <3>4. CASE k = t
      <4>1. session'[k].by = req[r].key BY <2>2, <2>7, <3>4, Zenon
      <4> QED BY <2>7, <3>1, <3>4, <4>1, Zenon
    <3>5. CASE k # t
      <4>1. session'[k] = session[k] BY <2>7, <3>5, Zenon
      <4>2. session'[t].by = req[r].key BY <2>2, <2>7, Zenon
      <4> QED BY <2>7, <3>1, <3>3, <3>5, <4>1, <4>2, Zenon
    <3> QED BY <3>4, <3>5, Zenon
  <2>11. Tables'
    BY <1>0, <1>2, <2>9, <2>10, Zenon DEF Tables, Issue, tenancy, EnabledSecretWasConfirmed,
                                   CodesBelongToSecret, NothingOfADeletedLibrary
  <2>12. Grows BY <1>2, <2>5, <2>7, AccountsAssumption, Zenon DEF Grows, Issue, Burned
  <2>13. \A s \in Tokens : session'[s] # None =>
            \/ session[s] # None /\ session'[s].by = session[s].by
            \/ req[r].at = "issue" /\ session'[s].by = req[r].key
    BY <2>2, <2>3, <2>7, Zenon
  <2> QED BY <1>2, <2>11, <2>12, <2>13, EndStep, Zenon DEF Issue
<1>3. ASSUME NEW t \in Tokens, Logout(t) PROVE AccountsInvariant'
  <2>1. DOMAIN req' = Requests BY <1>0, <1>3 DEF Logout, TypeOK
  <2> QED BY <1>3, <2>1, RevokeStep, TableStep, Zenon DEF Logout
<1>4. CASE RefreshRevoke(r)
  <2>1. PICK q : q = Held("issue", req[r].user, req[r].key, None) OBVIOUS
  <2>2. q.at = "issue" /\ q.user = req[r].user /\ q.key = req[r].key BY <2>1 DEF Held
  <2>3. /\ req[r].user \in creds /\ req[r].key = None
        /\ req[r].row \in Tokens /\ session[req[r].row] # None
    BY <1>0, <1>4 DEF OfTables, RefreshRevoke
  <2>4. DOMAIN req' = Requests BY <1>4, Facts DEF RefreshRevoke, Holds
  <2>5. /\ Tables' /\ Grows
        /\ \A s \in Tokens : session'[s] # None => session[s] # None /\ session'[s].by = session[s].by
    <3>1. CASE session' = session
      <4>1. UNCHANGED <<auth, tenancy>> BY <1>4, <3>1 DEF RefreshRevoke, auth
      <4> QED BY <2>4, <3>1, <4>1, TablesStay
    <3>2. CASE session' = [session EXCEPT ![req[r].row].status = "revoked"]
      <4>1. UNCHANGED <<users, creds, ticket, age, spent, mfa, confirmed, tenancy>>
        BY <1>4 DEF RefreshRevoke
      <4> QED BY <2>3, <2>4, <3>2, <4>1, RevokeStep, Zenon
    <3> QED BY <1>4, <3>1, <3>2 DEF RefreshRevoke
  <2>6. OfTables(q) BY <2>2, <2>3, Zenon DEF OfTables
  <2>7. OfTables(q)' BY <2>5, <2>6, OthersKeep, Zenon
  <2> QED BY <1>4, <2>1, <2>2, <2>3, <2>5, <2>7, RequestStep, Zenon DEF RefreshRevoke, Holds
<1> QED BY <1>1, <1>2, <1>3, <1>4

\* The statements on the second factor.
LEMMA FactorKeepsInvariant ==
    ASSUME AccountsInvariant, NEW r \in Requests,
           \/ \E u \in Users : TOTPConfirmRead(r, u) \/ TOTPDisable(u)
           \/ \E u \in Users, s \in Secrets : TOTPSetup(u, s)
           \/ TOTPConfirmSave(r)
           \/ VerifyClaim(r)
           \/ \E s \in Secrets : \E c \in CodesOf(s) : VerifyRecovery(r, c)
    PROVE  AccountsInvariant'
<1>0. OfTables(req[r]) /\ TypeOK /\ Tables /\ DOMAIN req = Requests BY Facts, Zenon
<1>1. ASSUME NEW u \in Users, TOTPConfirmRead(r, u) PROVE AccountsInvariant'
  <2>1. PICK q : q = Held("confirm", u, None, mfa[u]) OBVIOUS
  <2>2. q.at = "confirm" /\ q.user = u /\ q.row = mfa[u] BY <2>1 DEF Held
  <2>3. /\ mfa[u] \in MfaRow /\ mfa[u].secret \in Secrets
        /\ mfa[u].codes \subseteq CodesOf(mfa[u].secret) /\ u \in creds
    BY <1>0, <1>1, Facts, Zenon DEF TOTPConfirmRead, TypeOK, MfaRow, Tables, CodesBelongToSecret
  <2>4. DOMAIN req' = Requests BY <1>0, <1>1 DEF TOTPConfirmRead, Holds
  <2>5. TypeOK' BY <1>0, <1>1, <2>3, <2>4, Zenon DEF TypeOK, TOTPConfirmRead, tenancy, SignedIn
  <2>6. Tables' /\ Grows
    BY <1>0, <1>1, <2>5, Zenon DEF Tables, Grows, Burned, TOTPConfirmRead, tenancy, EnabledSecretWasConfirmed,
                            CodesBelongToSecret, NothingOfADeletedLibrary
  <2>7. OfTables(q)' /\ q.at \notin Claimed
    BY <1>1, <2>2, <2>3, Zenon DEF OfTables, Claimed, TOTPConfirmRead, CodesOf
  <2> QED BY <1>1, <2>1, <2>6, <2>7, RequestStep, Zenon DEF TOTPConfirmRead, Holds
<1>2. ASSUME NEW u \in Users, TOTPDisable(u) PROVE AccountsInvariant'
  <2>1. Tables' /\ Grows BY <1>0, <1>2, MfaStep, Zenon DEF TOTPDisable
  <2> QED BY <1>2, <2>1, TableStep, Zenon DEF TOTPDisable
<1>3. ASSUME NEW u \in Users, NEW s \in Secrets, TOTPSetup(u, s) PROVE AccountsInvariant'
  <2>1. PICK new : new = [secret |-> s, codes |-> CodesOf(s), enabled |-> FALSE] BY Zenon
  <2>2. new \in MfaRow BY <2>1 DEF MfaRow, CodesOf
  <2>3. new.enabled = FALSE /\ new.codes = CodesOf(new.secret) BY <2>1
  <2>4. Tables' /\ Grows BY <1>0, <1>3, <2>1, <2>2, <2>3, MfaStep, Zenon DEF TOTPSetup
  <2> QED BY <1>3, <2>4, TableStep, Zenon DEF TOTPSetup
<1>4. CASE TOTPConfirmSave(r)
  <2>1. PICK new : new = [req[r].row EXCEPT !.enabled = TRUE] BY Zenon
  <2>2. /\ req[r].row \in MfaRow /\ req[r].row.secret \in confirmed
        /\ req[r].row.codes \subseteq CodesOf(req[r].row.secret) /\ req[r].user \in Users
    BY <1>0, <1>4 DEF OfTables, TOTPConfirmSave, TypeOK
  <2>3. new \in MfaRow /\ new.secret = req[r].row.secret /\ new.codes = req[r].row.codes
    BY <2>1, <2>2, Zenon DEF MfaRow
  <2>4. DOMAIN req' = Requests BY <1>0, <1>4 DEF TOTPConfirmSave, End
  <2>5. mfa' = [mfa EXCEPT ![req[r].user] = new] BY <1>4, <2>1 DEF TOTPConfirmSave
  <2>6. UNCHANGED <<users, creds, session, ticket, age, spent, confirmed, tenancy>>
    BY <1>4 DEF TOTPConfirmSave
  <2>7. Tables' /\ Grows BY <2>2, <2>3, <2>4, <2>5, <2>6, MfaStep, Zenon
  <2> QED BY <1>4, <2>7, EndStep DEF TOTPConfirmSave
<1>5. CASE VerifyClaim(r)
  <2>1. PICK k : k = req[r].key BY Zenon
  <2>2. PICK q : q = Held("read", req[r].user, k, None) BY Zenon
  <2>3. q.at = "read" /\ q.user = req[r].user /\ q.key = k BY <2>2 DEF Held
  <2>4. /\ req[r].user \in creds /\ k \in Tickets
        /\ req[r].row \in 0..Horizon /\ req[r].row < TicketTTL /\ age[k] <= req[r].row + Stall
    BY <1>0, <1>5, <2>1, Zenon DEF OfTables, VerifyClaim
  <2>5. spent \in [Tickets -> 0..Horizon \cup {None}] /\ age \in [Tickets -> 0..Horizon]
    BY <1>0, Zenon DEF TypeOK
  <2>6. spent' = [spent EXCEPT ![k] = req[r].row] /\ spent[k] = None /\ age' = age
    BY <1>5, <2>1, Zenon DEF VerifyClaim
  <2>7. ~(age[k] >= ClaimTTL)
    <3>1. age[k] \in Nat /\ req[r].row \in Nat BY <2>4, <2>5, AgesAreNumbers, Zenon
    <3> QED BY <2>4, <3>1, NoneOnItsWay, Zenon
  <2>8. spent' \in [Tickets -> 0..Horizon \cup {None}] BY <2>4, <2>5, <2>6, Zenon
  <2>9. spent'[k] # None
    <3>1. req[r].row \in Nat BY <2>4, AgesAreNumbers, Zenon
    <3>2. spent'[k] = req[r].row BY <2>4, <2>5, <2>6, Zenon
    <3> QED BY <3>1, <3>2, AccountsAssumption, Zenon
  <2>10. k \in Burned' \ Burned /\ Burned \subseteq Burned'
    BY <2>4, <2>5, <2>6, <2>7, <2>9, Zenon DEF Burned
  <2>11. DOMAIN req' = Requests BY <1>0, <1>5, Zenon DEF VerifyClaim, Holds
  <2>12. TypeOK' BY <1>0, <1>5, <2>8, <2>11, Zenon DEF TypeOK, VerifyClaim, tenancy, SignedIn
  <2>13. Tables' /\ Grows
    BY <1>0, <1>5, <2>10, <2>12, Zenon DEF Tables, Grows, VerifyClaim, tenancy,
          EnabledSecretWasConfirmed, CodesBelongToSecret, NothingOfADeletedLibrary
  <2>14. OfTables(q)' BY <1>5, <2>3, <2>4, Zenon DEF OfTables, VerifyClaim
  <2>15. req' = [req EXCEPT ![r] = q] /\ session' = session
    BY <1>5, <2>1, <2>2, Zenon DEF VerifyClaim, Holds
  <2> QED BY <2>3, <2>10, <2>13, <2>14, <2>15, RequestStep, Zenon
<1>6. ASSUME NEW s \in Secrets, NEW c \in CodesOf(s), VerifyRecovery(r, c) PROVE AccountsInvariant'
  <2>1. PICK q : q = Held("issue", req[r].user, req[r].key, None) OBVIOUS
  <2>2. q.at = "issue" /\ q.user = req[r].user /\ q.key = req[r].key BY <2>1 DEF Held
  <2>3. PICK new : new = [secret |-> req[r].row.secret, codes |-> req[r].row.codes \ {c},
                          enabled |-> TRUE]
    BY Zenon
  <2>4. /\ req[r].row \in MfaRow /\ req[r].row.secret \in confirmed
        /\ req[r].row.codes \subseteq CodesOf(req[r].row.secret)
        /\ req[r].user \in creds /\ req[r].user \in Users
    BY <1>0, <1>6, Zenon DEF OfTables, VerifyRecovery, TypeOK
  <2>5. /\ new \in MfaRow /\ new.secret = req[r].row.secret
        /\ new.codes \subseteq req[r].row.codes
    BY <2>3, <2>4, Zenon DEF MfaRow
  <2>6. DOMAIN req' = Requests BY <1>0, <1>6, Zenon DEF VerifyRecovery, Holds
  <2>7. UNCHANGED <<users, creds, session, ticket, age, spent, confirmed, tenancy>>
    BY <1>6, Zenon DEF VerifyRecovery
  <2>8. Tables' /\ Grows
    <3>1. CASE mfa' = mfa BY <2>6, <2>7, <3>1, TablesStay DEF auth
    <3>2. CASE mfa' = [mfa EXCEPT ![req[r].user] = new]
      BY <2>4, <2>5, <2>6, <2>7, <3>2, MfaStep, Zenon
    <3> QED BY <1>6, <2>3, <3>1, <3>2, Zenon DEF VerifyRecovery
  <2>9. OfTables(q) BY <2>2, <2>4, Zenon DEF OfTables
  <2>10. OfTables(q)' BY <2>8, <2>9, OthersKeep
  <2>11. req[r].at \in Claimed BY <1>6, Zenon DEF VerifyRecovery, Claimed
  <2>12. req' = [req EXCEPT ![r] = q] /\ session' = session
    BY <1>6, <2>1, <2>7, Zenon DEF VerifyRecovery, Holds
  <2> QED BY <2>2, <2>8, <2>10, <2>11, <2>12, RequestStep, Zenon
<1> QED BY <1>1, <1>2, <1>3, <1>4, <1>5, <1>6

\* A step that writes only rows of libraries and invitations.
LEMMA LibraryStep ==
    ASSUME AccountsInvariant, UNCHANGED <<auth, member>>,
           libs \subseteq libs', libs' \subseteq AllLibraries,
           invitation' \in [Invitations -> InvitationRow \cup {None}],
           \A i \in Invitations : invitation'[i] # None => invitation'[i].lib \in libs',
           DOMAIN req' = Requests
    PROVE  Tables' /\ Grows
<1>1. TypeOK' BY Zenon DEF AccountsInvariant, TypeOK, auth, SignedIn
<1>2. NothingOfADeletedLibrary' BY Zenon DEF AccountsInvariant, NothingOfADeletedLibrary
<1> QED BY <1>1, <1>2, Zenon DEF AccountsInvariant, Tables, Grows, Burned, auth, EnabledSecretWasConfirmed,
                          CodesBelongToSecret

\* The statements on libraries, memberships and invitations.
LEMMA TenancyKeepsInvariant ==
    ASSUME AccountsInvariant, NEW r \in Requests,
           \/ \E u \in Users, l \in Libraries : CreateLibrary(r, u, l)
           \/ CreatorJoins(r) \/ UpdateSave(r) \/ AcceptJoin(r) \/ AcceptUse(r)
           \/ \E u \in Users, l \in AllLibraries :
                 DeleteLibrary(u, l) \/ \E i \in Invitations : CreateInvitation(u, l, i)
    PROVE  AccountsInvariant'
<1>0. /\ OfTables(req[r]) /\ TypeOK /\ Tables /\ DOMAIN req = Requests
      /\ libs \subseteq AllLibraries /\ invitation \in [Invitations -> InvitationRow \cup {None}]
      /\ \A i \in Invitations : invitation[i] # None => invitation[i].lib \in libs
      /\ creds \subseteq users
  BY Facts, Zenon DEF TypeOK, Tables, NothingOfADeletedLibrary
<1>s. session' = session
  BY DEF CreateLibrary, CreatorJoins, UpdateSave, AcceptJoin, AcceptUse, DeleteLibrary,
         CreateInvitation, auth
<1>1. ASSUME NEW u \in Users, NEW l \in Libraries, CreateLibrary(r, u, l) PROVE AccountsInvariant'
  <2>1. PICK q : q = Held("creator", u, l, None) BY Zenon
  <2>2. q.at = "creator" /\ q.user = u /\ q.key = l BY <2>1 DEF Held
  <2>3. /\ UNCHANGED <<auth, member>> /\ libs \subseteq libs' /\ libs' \subseteq AllLibraries
        /\ invitation' = invitation /\ DOMAIN req' = Requests
    BY <1>0, <1>1, Zenon DEF CreateLibrary, Holds, AllLibraries
  <2>4. Tables' /\ Grows BY <1>0, <2>3, LibraryStep, Zenon
  <2>5. OfTables(q) /\ q.at \notin Claimed
    BY <1>1, <2>2, Facts, Zenon DEF OfTables, Claimed, CreateLibrary, AllLibraries
  <2>6. OfTables(q)' BY <2>4, <2>5, OthersKeep
  <2>7. req' = [req EXCEPT ![r] = q] BY <1>1, <2>1, Zenon DEF CreateLibrary, Holds
  <2> QED BY <1>s, <2>4, <2>5, <2>6, <2>7, RequestStep, Zenon
<1>2. CASE CreatorJoins(r)
  <2>1. req[r].user \in users BY <1>0, <1>2, Zenon DEF OfTables, CreatorJoins
  <2>2. DOMAIN req' = Requests BY <1>0, <1>2, Zenon DEF CreatorJoins, End
  <2>3. Tables' /\ Grows BY <1>2, <2>1, <2>2, MemberStep, Zenon DEF CreatorJoins
  <2> QED BY <1>s, <1>2, <2>3, EndStep, Zenon DEF CreatorJoins
<1>3. CASE UpdateSave(r)
  <2>1. req[r].key \in AllLibraries BY <1>0, <1>3, Zenon DEF OfTables, UpdateSave
  <2>2. /\ UNCHANGED <<auth, member>> /\ libs \subseteq libs' /\ libs' \subseteq AllLibraries
        /\ invitation' = invitation /\ DOMAIN req' = Requests
    BY <1>0, <1>3, <2>1, Zenon DEF UpdateSave, End
  <2>3. Tables' /\ Grows BY <1>0, <2>2, LibraryStep, Zenon
  <2> QED BY <1>s, <1>3, <2>3, EndStep, Zenon DEF UpdateSave
<1>4. CASE AcceptJoin(r)
  <2>1. PICK q : q = Held("accepted", req[r].user, req[r].key, req[r].row) BY Zenon
  <2>2. /\ q.at = "accepted" /\ q.user = req[r].user /\ q.key = req[r].key /\ q.row = req[r].row
    BY <2>1 DEF Held
  <2>3. /\ req[r].user \in creds /\ req[r].user \in users
        /\ req[r].key \in Invitations /\ req[r].row \in InvitationRow
    BY <1>0, <1>4, Zenon DEF OfTables, AcceptJoin
  <2>4. DOMAIN req' = Requests BY <1>0, <1>4, Zenon DEF AcceptJoin, Step, Holds
  <2>5. Tables' /\ Grows BY <1>4, <2>3, <2>4, MemberStep, Zenon DEF AcceptJoin
  <2>6. OfTables(q) /\ q.at \notin Claimed BY <2>2, <2>3, Zenon DEF OfTables, Claimed
  <2>7. OfTables(q)' BY <2>5, <2>6, OthersKeep
  <2>8. req' = [req EXCEPT ![r] = q] BY <1>4, <2>1, Zenon DEF AcceptJoin, Step, Holds
  <2> QED BY <1>s, <2>5, <2>6, <2>7, <2>8, RequestStep, Zenon
<1>5. CASE AcceptUse(r)
  <2>1. req[r].row \in InvitationRow /\ req[r].key \in Invitations
    BY <1>0, <1>5 DEF OfTables, AcceptUse
  <2>2. PICK new : new = [req[r].row EXCEPT !.status = "used"] BY Zenon
  <2>3. new \in InvitationRow /\ new.lib = req[r].row.lib BY <2>1, <2>2 DEF InvitationRow
  <2>4. /\ UNCHANGED <<auth, libs, member>> /\ DOMAIN req' = Requests /\ End(r)
    BY <1>0, <1>5 DEF AcceptUse, End
  <2>5. \/ invitation' = invitation
        \/ invitation' = [invitation EXCEPT ![req[r].key] = new] /\ req[r].row.lib \in libs
    BY <1>5, <2>2 DEF AcceptUse
  <2>6. /\ invitation' \in [Invitations -> InvitationRow \cup {None}]
        /\ \A i \in Invitations : invitation'[i] # None => invitation'[i].lib \in libs'
    BY <1>0, <2>1, <2>3, <2>4, <2>5, Zenon
  <2>7. Tables' /\ Grows BY <1>0, <2>4, <2>6, LibraryStep, Zenon
  <2> QED BY <1>s, <2>4, <2>7, EndStep, Zenon
<1>6. ASSUME NEW u \in Users, NEW l \in AllLibraries, DeleteLibrary(u, l) PROVE AccountsInvariant'
  <2>1. /\ UNCHANGED <<auth, req>> /\ libs' = libs \ {l} /\ l # Default
        /\ member' = [member EXCEPT ![l] = {}]
        /\ invitation' = [i \in Invitations |-> IF invitation[i] # None /\ invitation[i].lib = l
                                                THEN None ELSE invitation[i]]
    BY <1>6 DEF DeleteLibrary
  <2>2. TypeOK' BY <1>0, <2>1, Zenon DEF TypeOK, auth, SignedIn
  <2>3. NothingOfADeletedLibrary'
    BY <1>0, <2>1, Zenon DEF Tables, NothingOfADeletedLibrary, TypeOK
  <2>4. Tables' /\ Grows
    BY <1>0, <2>1, <2>2, <2>3, Zenon DEF Tables, Grows, Burned, auth, EnabledSecretWasConfirmed,
                                  CodesBelongToSecret
  <2> QED BY <1>s, <2>1, <2>4, TableStep, Zenon
<1>7. ASSUME NEW u \in Users, NEW l \in AllLibraries, NEW i \in Invitations,
             CreateInvitation(u, l, i)
      PROVE  AccountsInvariant'
  <2>1. PICK new : new = [lib |-> l, status |-> "open"] BY Zenon
  <2>2. new \in InvitationRow /\ new.lib = l BY <2>1 DEF InvitationRow
  <2>3. /\ UNCHANGED <<auth, libs, member, req>> /\ l \in libs
        /\ invitation' = [invitation EXCEPT ![i] = new]
    BY <1>7, <2>1, Zenon DEF CreateInvitation
  <2>4. /\ invitation' \in [Invitations -> InvitationRow \cup {None}]
        /\ \A j \in Invitations : invitation'[j] # None => invitation'[j].lib \in libs'
    BY <1>0, <2>2, <2>3, Zenon
  <2>5. Tables' /\ Grows BY <1>0, <2>3, <2>4, LibraryStep, Zenon
  <2> QED BY <1>s, <2>3, <2>5, TableStep
<1> QED BY <1>1, <1>2, <1>3, <1>4, <1>5, <1>6, <1>7

\* The sweep forgets claims of tickets that are too old to be claimed again.
LEMMA SweepKeepsInvariant ==
    ASSUME AccountsInvariant, SweepOnce PROVE AccountsInvariant'
<1>0. TypeOK /\ Tables BY Facts, Zenon
<1>1. PICK gone \in SUBSET {k \in Tickets : Forgettable(k)} :
         spent' = [k \in Tickets |-> IF k \in gone THEN None ELSE spent[k]]
  BY Zenon DEF SweepOnce
<1>2. spent \in [Tickets -> 0..Horizon \cup {None}] /\ age \in [Tickets -> 0..Horizon]
  BY <1>0, Zenon DEF TypeOK
<1>3. spent' \in [Tickets -> 0..Horizon \cup {None}] BY <1>1, <1>2, Zenon
<1>4. \A k \in gone : age[k] >= ClaimTTL
  <2> TAKE k \in gone
  <2>1. k \in Tickets /\ spent[k] # None /\ spent[k] + ClaimTTL <= age[k]
    BY <1>1, Zenon DEF Forgettable
  <2>2. spent[k] \in 0..Horizon /\ age[k] \in 0..Horizon BY <1>2, <2>1, Zenon
  <2>3. spent[k] \in Nat /\ age[k] \in Nat BY <2>2, AccountsAssumption DEF Horizon
  <2> QED BY <2>1, <2>3, AccountsAssumption
<1>5. UNCHANGED <<users, creds, session, ticket, age, mfa, confirmed, tenancy, req>>
  BY Zenon DEF SweepOnce
<1>6. Burned \subseteq Burned' BY <1>1, <1>4, <1>5, Zenon DEF Burned
<1>7. TypeOK' BY <1>0, <1>3, <1>5, Zenon DEF TypeOK, tenancy, SignedIn
<1>8. Tables' /\ Grows
  BY <1>0, <1>5, <1>6, <1>7, Zenon DEF Tables, Grows, tenancy, EnabledSecretWasConfirmed,
        CodesBelongToSecret, NothingOfADeletedLibrary
<1> QED BY <1>5, <1>8, TableStep, Zenon

\* Time passes for tickets only, and not beyond what a request on its way to its claim allows.
LEMMA TickKeepsInvariant ==
    ASSUME AccountsInvariant, Tick PROVE AccountsInvariant'
<1>0. TypeOK /\ Tables BY Facts, Zenon
<1>1. age \in [Tickets -> 0..Horizon] BY <1>0, Zenon DEF TypeOK
<1>2. \A k \in Tickets : age'[k] \in 0..Horizon /\ age'[k] >= age[k] /\ age'[k] <= age[k] + 1
  <2> TAKE k \in Tickets
  <2>1. age[k] \in 0..Horizon BY <1>1, Zenon
  <2>2. age'[k] = IF ticket[k] # None /\ age[k] < Horizon THEN age[k] + 1 ELSE age[k]
    BY Zenon DEF Tick
  <2> QED BY <2>1, <2>2, AccountsAssumption DEF Horizon
<1>3. age' \in [Tickets -> 0..Horizon] BY <1>2 DEF Tick
<1>4. UNCHANGED <<users, creds, session, ticket, spent, mfa, confirmed, tenancy, req>>
  BY Zenon DEF Tick
<1>5. Burned \subseteq Burned'
  <2> SUFFICES ASSUME NEW k \in Tickets, age[k] >= ClaimTTL PROVE age'[k] >= ClaimTTL
    BY <1>4, Zenon DEF Burned
  <2>1. age[k] \in 0..Horizon /\ age'[k] \in 0..Horizon /\ age'[k] >= age[k] BY <1>1, <1>2, Zenon
  <2> QED BY <2>1, AccountsAssumption DEF Horizon
<1>6. TypeOK' BY <1>0, <1>3, <1>4, Zenon DEF TypeOK, tenancy, SignedIn
<1>7. Tables'
  BY <1>0, <1>4, <1>5, <1>6, Zenon DEF Tables, tenancy, EnabledSecretWasConfirmed,
        CodesBelongToSecret, NothingOfADeletedLibrary
<1>8. ASSUME NEW s \in Requests, req[s].at = "claim" PROVE age'[req[s].key] <= req[s].row + Stall
  <2>1. req[s].key \in Tickets /\ req[s].row \in 0..Horizon BY <1>8, Facts, Zenon DEF OfTables
  <2>2. age[req[s].key] < req[s].row + Stall BY <1>8, Zenon DEF Tick
  <2>3. age[req[s].key] \in 0..Horizon /\ age'[req[s].key] \in 0..Horizon
        /\ age'[req[s].key] <= age[req[s].key] + 1
    BY <1>1, <1>2, <2>1, Zenon
  <2> QED BY <2>1, <2>2, <2>3, AccountsAssumption DEF Horizon
<1>9. \A s \in Requests : HoldsWhatItRead(s)'
  <2> TAKE s \in Requests
  <2>1. HoldsWhatItRead(s) BY Zenon DEF AccountsInvariant
  <2> QED BY <1>4, <1>5, <1>8, <2>1, ZenonT(30) DEF HoldsWhatItRead
<1> QED BY <1>7, <1>9, Zenon DEF AccountsInvariant, Tables

\* Every reachable state satisfies the invariant, whatever order the statements of the
\* requests run in and whenever the sweep forgets claims, provided that a verification
\* reaches its claim within the margin (AccountsAssumption).
THEOREM AccountsInvariantHolds == Spec => []AccountsInvariant
<1>1. Init => AccountsInvariant
  <2> SUFFICES ASSUME Init PROVE AccountsInvariant OBVIOUS
  <2>1. SignedIn = {} BY DEF Init, SignedIn
  <2>2. TypeOK BY <2>1, AgesAreNumbers, Zenon DEF Init, TypeOK, AllLibraries
  <2>3. \A r \in Requests : req[r].at = "idle" BY DEF Init, Idle, Held
  <2>4. \A r \in Requests : HoldsWhatItRead(r) BY <2>3, Zenon DEF HoldsWhatItRead
  <2> QED BY <2>2, <2>4 DEF Init, AccountsInvariant, EnabledSecretWasConfirmed,
                            CodesBelongToSecret, NothingOfADeletedLibrary
<1>2. AccountsInvariant /\ [Next]_vars => AccountsInvariant'
  <2> SUFFICES ASSUME AccountsInvariant, [Next]_vars PROVE AccountsInvariant' OBVIOUS
  <2>1. ASSUME NEW r \in Requests, Setup(r) \/ Session(r) \/ SecondFactor(r) \/ Tenancy(r) \/ Refuse(r)
        PROVE  AccountsInvariant'
    <3>1. CASE Setup(r) BY <3>1, ReadsKeepInvariant, SetupKeepsInvariant DEF Setup
    <3>2. CASE Session(r) BY <3>2, ReadsKeepInvariant, SessionsKeepInvariant, Zenon DEF Session
    <3>3. CASE SecondFactor(r) BY <3>3, ReadsKeepInvariant, FactorKeepsInvariant, Zenon DEF SecondFactor
    <3>4. CASE Tenancy(r) BY <3>4, ReadsKeepInvariant, TenancyKeepsInvariant DEF Tenancy
    <3>5. CASE Refuse(r) BY <3>5, ReadsKeepInvariant
    <3> QED BY <2>1, <3>1, <3>2, <3>3, <3>4, <3>5, Zenon
  <2>2. CASE UNCHANGED vars
    <3>1. UNCHANGED <<auth, tenancy, req>> /\ DOMAIN req' = Requests BY <2>2, Facts DEF vars
    <3>2. Tables' /\ Grows BY <3>1, TablesStay
    <3> QED BY <3>1, <3>2, TableStep, Zenon DEF auth
  <2>3. CASE AtOnce
    <3>1. PICK r \in Requests : TRUE BY AccountsAssumption
    <3>2. ASSUME NEW t \in Tokens, Logout(t) PROVE AccountsInvariant'
      BY <3>1, <3>2, SessionsKeepInvariant
    <3>3. ASSUME NEW u \in Users, TOTPDisable(u) \/ \E s \in Secrets : TOTPSetup(u, s)
          PROVE  AccountsInvariant'
      BY <3>1, <3>3, FactorKeepsInvariant
    <3>4. ASSUME NEW u \in Users, NEW l \in AllLibraries,
                 DeleteLibrary(u, l) \/ \E i \in Invitations : CreateInvitation(u, l, i)
          PROVE  AccountsInvariant'
      BY <3>1, <3>4, TenancyKeepsInvariant, Zenon
    <3> QED BY <2>3, <3>2, <3>3, <3>4 DEF AtOnce
  <2>4. CASE SweepOnce BY <2>4, SweepKeepsInvariant
  <2>5. CASE Tick BY <2>5, TickKeepsInvariant
  <2> QED BY <2>1, <2>2, <2>3, <2>4, <2>5, Zenon DEF Next
<1> QED BY <1>1, <1>2, PTL DEF Spec

\* A ticket yields one session at the most, however many requests present it at once: only
\* the request whose insert into mfa_ticket_jtis affected a row carries it on, and the sweep
\* deletes that row when no request can be on its way to another insert.
THEOREM OneSessionPerTicketHolds == Spec => []OneSessionPerTicket
<1>1. AccountsInvariant => OneSessionPerTicket
  BY AccountsAssumption DEF AccountsInvariant, OneSessionPerTicket
<1> QED BY <1>1, AccountsInvariantHolds, PTL

\* The second factor is only ever on for a secret its owner has shown to work, and the
\* recovery codes in a row are those of the secret in it, whatever enrolment, confirmation
\* and use of a code overwrite one another.
THEOREM EnabledSecretIsConfirmed == Spec => [](EnabledSecretWasConfirmed /\ CodesBelongToSecret)
<1>1. AccountsInvariant => EnabledSecretWasConfirmed /\ CodesBelongToSecret
  BY DEF AccountsInvariant
<1> QED BY <1>1, AccountsInvariantHolds, PTL

\* No membership and no invitation outlives its library.
THEOREM NothingOutlivesItsLibrary == Spec => []NothingOfADeletedLibrary
<1>1. AccountsInvariant => NothingOfADeletedLibrary BY DEF AccountsInvariant
<1> QED BY <1>1, AccountsInvariantHolds, PTL

\* The save of a revoked row changes nothing in it.
LEMMA RevokeTwice ==
    ASSUME NEW s \in SessionRow, s.status = "revoked"
    PROVE  [s EXCEPT !.status = "revoked"] = s
BY DEF SessionRow

\* A revoked refresh token never becomes usable again, whatever refresh had read it before.
THEOREM RevokedNeverReturns == Spec => RevokedStaysRevoked
<1>1. AccountsInvariant /\ [Next]_vars =>
         [\A t \in Tokens : session[t] # None /\ session[t].status = "revoked"
                               => session'[t] = session[t]]_vars
  <2> SUFFICES ASSUME AccountsInvariant, Next, NEW t \in Tokens,
                      session[t] # None, session[t].status = "revoked"
               PROVE  session'[t] = session[t]
    OBVIOUS
  <2>0. session \in [Tokens -> SessionRow \cup {None}] /\ session[t] \in SessionRow
    BY Facts, Zenon DEF TypeOK
  <2>1. ASSUME NEW s \in Tokens, session' = [session EXCEPT ![s].status = "revoked"]
        PROVE  session'[t] = session[t]
    <3>1. CASE s # t BY <2>0, <2>1, <3>1
    <3>2. CASE s = t
      <4>1. session'[t] = [session[t] EXCEPT !.status = "revoked"] BY <2>0, <2>1, <3>2
      <4> QED BY <2>0, <4>1, RevokeTwice
    <3> QED BY <3>1, <3>2
  <2>2. ASSUME NEW r \in Requests, RefreshRevoke(r) PROVE session'[t] = session[t]
    <3>1. req[r].row \in Tokens BY <2>2, Facts DEF RefreshRevoke, OfTables
    <3> QED BY <2>1, <2>2, <3>1 DEF RefreshRevoke
  <2>3. ASSUME NEW r \in Requests, NEW s \in Tokens, Issue(r, s) PROVE session'[t] = session[t]
    BY <2>0, <2>3, Zenon DEF Issue
  <2>4. ASSUME NEW s \in Tokens, Logout(s) PROVE session'[t] = session[t]
    BY <2>1, <2>4, Zenon DEF Logout
  <2>5. ASSUME NEW r \in Requests, Setup(r) \/ SecondFactor(r) \/ Tenancy(r) \/ Refuse(r)
        PROVE  session' = session
    <3>1. CASE Setup(r) BY <3>1, Zenon DEF Setup, SetupBegin, SetupSaveUser, SetupSaveCredentials, SetupJoin, auth
    <3>2. CASE SecondFactor(r)
      BY <3>2, Zenon DEF SecondFactor, TOTPConfirmRead, TOTPConfirmSave, VerifyTicket, VerifyClaim, VerifyRead,
                  VerifyCode, VerifyRecovery, auth
    <3>3. CASE Tenancy(r)
      BY <3>3 DEF Tenancy, CreateLibrary, CreatorJoins, UpdateRead, UpdateSave, AcceptRead,
                  AcceptJoin, AcceptUse, auth
    <3>4. CASE Refuse(r) BY <3>4 DEF Refuse, auth
    <3> QED BY <2>5, <3>1, <3>2, <3>3, <3>4, Zenon
  <2>6. ASSUME NEW r \in Requests, Session(r) PROVE session'[t] = session[t]
    <3>1. CASE \E u \in Users : Login(r, u) \/ \E k \in Tickets : LoginTicket(r, u, k)
      BY <3>1, Zenon DEF Login, LoginTicket, auth
    <3>2. CASE \E s \in Tokens : RefreshRead(r, s) BY <3>2, Zenon DEF RefreshRead, auth
    <3> QED BY <2>2, <2>3, <2>6, <3>1, <3>2, Zenon DEF Session
  <2>7. CASE AtOnce
    <3>1. CASE \E u \in Users : TOTPDisable(u) \/ \E s \in Secrets : TOTPSetup(u, s)
      BY <3>1, Zenon DEF TOTPDisable, TOTPSetup
    <3>2. CASE \E u \in Users, l \in AllLibraries :
                  DeleteLibrary(u, l) \/ \E i \in Invitations : CreateInvitation(u, l, i)
      BY <3>2, Zenon DEF DeleteLibrary, CreateInvitation, auth
    <3> QED BY <2>4, <2>7, <3>1, <3>2, Zenon DEF AtOnce
  <2>8. CASE SweepOnce \/ Tick BY <2>8, Zenon DEF SweepOnce, Tick
  <2> QED BY <2>5, <2>6, <2>7, <2>8, Zenon DEF Next
<1> QED BY <1>1, AccountsInvariantHolds, PTL DEF Spec, RevokedStaysRevoked
=============================================================================
