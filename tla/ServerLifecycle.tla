-------------------------- MODULE ServerLifecycle --------------------------
(***************************************************************************)
(* The desktop host (electron/src/main) and the Go server it runs as a     *)
(* child process: runServerLifecycle with its start attempts and respawns  *)
(* (serverLifecycle.ts, serverProcess.ts), the health monitor              *)
(* (healthPoller.ts) and quitting (shutdown.ts and before-quit of          *)
(* index.ts).  One action is one turn of Node's event loop, up to the next *)
(* await; the child process moves on its own.                              *)
(*                                                                         *)
(* What the host knows of a child is what Node's ChildProcess shows it:    *)
(* exitCode becomes non-null when the exit event is delivered, unless the  *)
(* child was terminated by a signal, and killed is true once kill() has    *)
(* delivered any signal.                                                   *)
(***************************************************************************)
EXTENDS Naturals

CONSTANTS
    MaxRespawns,  \* MAX_RESPAWN_ATTEMPTS
    MaxRetries    \* bound: how often the user asks for a retry after Failed

ASSUME LifecycleAssumption == MaxRespawns \in Nat /\ MaxRetries \in Nat

VARIABLES
    phase,     \* where runServerLifecycle is suspended
    first,     \* the attempt in progress is the first one, not a respawn
    child,     \* activeChild, as the operating system and as Node see it
    stray,     \* earlier children that still run
    respawns,  \* respawnCount
    retries,   \* how often the user asked for a retry
    shown,     \* the state of the last event (currentHostingStatus.state)
    monitor,   \* the health monitor
    quit,      \* the quit sequence: before-quit and shutdownServer
    app        \* the Electron process

lvars == <<phase, first, child, stray, respawns, retries, shown, monitor, quit, app>>

\* "spawn": writing the config file; "port": awaiting portPromise; "poll": in
\* pollUntilReady; "catch": cleaning up after a failed attempt; "reap":
\* awaiting the exit of a child that was sent SIGKILL; "answered": the answer
\* that ends the poll is on its way; "readied": the first attempt succeeded,
\* its config file is being removed; "watching": an exit listener is
\* registered; "backoff": the respawn timer runs; "off": the lifecycle promise
\* is settled.
Phases == {"off", "spawn", "port", "poll", "answered", "catch", "reap", "readied",
           "watching", "backoff"}

Shown == {"Starting", "Healthy", "Degraded", "Failed", "Recovering"}

Health == {"healthy", "degraded", "unreachable"}

Child == [os : {"none", "alive", "dead"},  \* the process itself
          how : {"code", "signal", "none"},
          reaped : BOOLEAN,                \* Node delivered its exit event
          killed : BOOLEAN,                \* ChildProcess.killed
          sigkill : BOOLEAN,               \* it was sent SIGKILL
          term : BOOLEAN,                  \* it was sent SIGTERM
          port : BOOLEAN,                  \* it announced its port
          ready : BOOLEAN]                 \* /readyz answers 200

NoChild == [os |-> "none", how |-> "none", reaped |-> FALSE, killed |-> FALSE,
            sigkill |-> FALSE, term |-> FALSE, port |-> FALSE, ready |-> FALSE]

NewChild == [NoChild EXCEPT !.os = "alive"]

Monitor == [on : BOOLEAN, last : Health \cup {"none"}, probe : Health \cup {"none"}]
MonitorOff == [on |-> FALSE, last |-> "none", probe |-> "none"]
MonitorOn == [MonitorOff EXCEPT !.on = TRUE]

\* shutdownServer awaits the exit of the child, or of a stray one; grace is
\* its SIGKILL timer for the child.
QuitSequence == [child : BOOLEAN, stray : BOOLEAN, grace : {"off", "running", "over"}]
NoQuit == [child |-> FALSE, stray |-> FALSE, grace |-> "off"]

---------------------------------------------------------------------------
(* Node's ChildProcess *)

ExitCodeSet(c) == c.reaped /\ c.how = "code"

\* exitCode === null && !killed: the code's test for a child that still runs
SeemsAlive(c) == c.os # "none" /\ ~ExitCodeSet(c) /\ ~c.killed

\* kill(signal) reaches a process whose exit was not yet delivered, a zombie
\* included; only then is killed set.
Terminate(c) ==
    IF c.reaped THEN c ELSE [c EXCEPT !.killed = TRUE, !.term = TRUE]

Kill(c) ==
    IF c.reaped THEN c
    ELSE [c EXCEPT !.killed = TRUE, !.sigkill = TRUE, !.os = "dead", !.ready = FALSE,
                   !.how = IF c.os = "alive" THEN "signal" ELSE @]

---------------------------------------------------------------------------
\* The executable is there, or the lifecycle fails at once.
LifecycleInit ==
    /\ \/ phase = "spawn" /\ shown = "Starting"
       \/ phase = "off" /\ shown = "Failed"
    /\ first = TRUE
    /\ child = NoChild
    /\ stray = 0
    /\ respawns = 0
    /\ retries = 0
    /\ monitor = MonitorOff
    /\ quit = NoQuit
    /\ app = "running"

Hosting == app # "exited"

\* A retry from the error page; the executable may be missing.
Retry ==
    /\ Hosting
    /\ phase = "off"
    /\ shown = "Failed"
    /\ retries < MaxRetries
    /\ retries' = retries + 1
    /\ respawns' = 0
    /\ first' = TRUE
    /\ \/ phase' = "spawn" /\ shown' = "Starting"
       \/ phase' = "off" /\ shown' = "Failed"
    /\ UNCHANGED <<child, stray, monitor, quit, app>>

\* scheduleRespawn, with the child left in state c.
ScheduleRespawn(c) ==
    /\ monitor' = [monitor EXCEPT !.on = FALSE]
    /\ IF respawns >= MaxRespawns
       THEN /\ shown' = "Failed" /\ phase' = "off" /\ UNCHANGED respawns
            /\ child' = IF SeemsAlive(c) THEN Terminate(c) ELSE c
       ELSE /\ shown' = "Recovering" /\ phase' = "backoff" /\ respawns' = respawns + 1
            /\ child' = c

\* What follows the rejection of attempt().
AttemptFailed(c) ==
    IF first
    THEN /\ shown' = "Failed" /\ phase' = "off" /\ child' = c
         /\ UNCHANGED <<respawns, monitor>>
    ELSE ScheduleRespawn(c)

\* The Healthy event, the new monitor and watchChild.
WatchChild ==
    IF ExitCodeSet(child) \/ child.killed
    THEN ScheduleRespawn(child)
    ELSE /\ phase' = "watching" /\ shown' = "Healthy" /\ monitor' = MonitorOn
         /\ UNCHANGED <<respawns, child>>

---------------------------------------------------------------------------
(* One attempt to start the server *)

\* spawnServer, and onChildSpawned.  A spawn error sets exitCode at once.  A
\* previous child whose exit is still to come becomes a stray one.
Spawn ==
    LET pending == child.os # "none" /\ ~child.reaped
    IN  /\ Hosting
        /\ phase = "spawn"
        /\ phase' = "port"
        /\ child' \in {NewChild, [NewChild EXCEPT !.os = "dead", !.how = "code", !.reaped = TRUE]}
        /\ stray' = IF pending THEN stray + 1 ELSE stray
        /\ quit' = [NoQuit EXCEPT !.stray = quit.stray \/ (quit.child /\ pending)]
        /\ UNCHANGED <<first, respawns, retries, shown, monitor, app>>

\* writeServerConfig fails.
ConfigFails ==
    /\ Hosting
    /\ phase = "spawn"
    /\ AttemptFailed(child)
    /\ UNCHANGED <<first, stray, retries, quit, app>>

PortAnnounced ==
    /\ Hosting
    /\ phase = "port"
    /\ child.port
    /\ phase' = "poll"
    /\ UNCHANGED <<first, child, stray, respawns, retries, shown, monitor, quit, app>>

\* Mutant of PortRejected: the exit of a silent child goes unnoticed.
PortNeverRejected == FALSE

\* The child exited before its port was read from stdout.
PortRejected ==
    /\ Hosting
    /\ phase = "port"
    /\ child.reaped
    /\ phase' = "catch"
    /\ UNCHANGED <<first, child, stray, respawns, retries, shown, monitor, quit, app>>

\* Both /healthz and /readyz answer 200.
PollAnswered ==
    /\ Hosting
    /\ phase = "poll"
    /\ child.os = "alive"
    /\ child.ready
    /\ phase' = "answered"
    /\ UNCHANGED <<first, child, stray, respawns, retries, shown, monitor, quit, app>>

\* pollUntilReady resolves.  A respawn goes on at once; the first start still
\* awaits the removal of its config file.
PollSucceeds ==
    /\ Hosting
    /\ phase = "answered"
    /\ IF first
       THEN phase' = "readied" /\ UNCHANGED <<child, respawns, shown, monitor>>
       ELSE WatchChild
    /\ UNCHANGED <<first, stray, retries, quit, app>>

\* The first start's config file is gone.
FirstReady ==
    /\ Hosting
    /\ phase = "readied"
    /\ WatchChild
    /\ UNCHANGED <<first, stray, retries, quit, app>>

\* pollUntilReady rejects: the readiness timeout.  The poll does not notice
\* that the child is gone.
PollTimesOut ==
    /\ Hosting
    /\ phase = "poll"
    /\ phase' = "catch"
    /\ UNCHANGED <<first, child, stray, respawns, retries, shown, monitor, quit, app>>

\* Mutant of CatchAttempt: the failed attempt's child is left running.
CatchAttemptWithoutKill ==
    /\ Hosting
    /\ phase = "catch"
    /\ AttemptFailed(child)
    /\ UNCHANGED <<first, stray, retries, quit, app>>

\* The catch block of attempt(), after the config file is removed.
CatchAttempt ==
    /\ Hosting
    /\ phase = "catch"
    /\ IF SeemsAlive(child)
       THEN phase' = "reap" /\ child' = Kill(child) /\ UNCHANGED <<respawns, shown, monitor>>
       ELSE AttemptFailed(child)
    /\ UNCHANGED <<first, stray, retries, quit, app>>

BackoffExpires ==
    /\ Hosting
    /\ phase = "backoff"
    /\ phase' = "spawn"
    /\ first' = FALSE
    /\ shown' = "Starting"
    /\ UNCHANGED <<child, stray, respawns, retries, monitor, quit, app>>

\* Mutant of ResumeQuit: the wait ends, but nothing quits the application.
ResumeQuitWithoutQuitting ==
    quit' = [quit EXCEPT !.child = FALSE, !.grace = "off"] /\ UNCHANGED app

\* shutdownServer's done(), and the app.quit() that follows it.
ResumeQuit ==
    /\ quit' = [quit EXCEPT !.child = FALSE, !.grace = "off"]
    /\ app' = IF quit.child THEN "exiting" ELSE app

\* Node delivers the child's exit event to whoever listens for it by now: the
\* watcher, the catch block of attempt() and shutdownServer, whose app.quit()
\* finds no child to wait for.
ExitEvent ==
    LET c == [child EXCEPT !.reaped = TRUE]
    IN  /\ Hosting
        /\ child.os = "dead"
        /\ ~child.reaped
        /\ \/ phase = "watching" /\ ScheduleRespawn(c)
           \/ phase = "reap" /\ AttemptFailed(c)
           \/ phase \notin {"watching", "reap"} /\ child' = c
              /\ UNCHANGED <<phase, respawns, shown, monitor>>
        /\ ResumeQuit
        /\ UNCHANGED <<first, stray, retries>>

---------------------------------------------------------------------------
(* The health monitor *)

\* checkHealth: a request may also time out, and the server may die between
\* the two requests.
ProbeResults ==
    IF child.os = "alive"
    THEN {"unreachable", "degraded"} \cup (IF child.ready THEN {"healthy"} ELSE {})
    ELSE {"unreachable"}

Probe ==
    /\ Hosting
    /\ monitor.on
    /\ monitor.probe = "none"
    /\ \E result \in ProbeResults : monitor' = [monitor EXCEPT !.probe = result]
    /\ UNCHANGED <<phase, first, child, stray, respawns, retries, shown, quit, app>>

\* Mutant of Report: a probe that was in flight when the monitor was stopped is
\* still reported.
ReportAfterStop ==
    /\ Hosting
    /\ monitor.probe # "none"
    /\ monitor' = [monitor EXCEPT !.last = monitor.probe, !.probe = "none"]
    /\ shown' = IF monitor.probe \in {monitor.last, "unreachable"} THEN shown
                ELSE IF monitor.probe = "healthy" THEN "Healthy" ELSE "Degraded"
    /\ UNCHANGED <<phase, first, child, stray, respawns, retries, quit, app>>

\* onStateChange, only when the state shifts; unreachable emits no event.  The
\* answer to a probe of a stopped monitor is dropped.
Report ==
    /\ Hosting
    /\ monitor.probe # "none"
    /\ IF monitor.on
       THEN /\ monitor' = [monitor EXCEPT !.last = monitor.probe, !.probe = "none"]
            /\ shown' = IF monitor.probe \in {monitor.last, "unreachable"} THEN shown
                        ELSE IF monitor.probe = "healthy" THEN "Healthy" ELSE "Degraded"
       ELSE monitor' = MonitorOff /\ UNCHANGED shown
    /\ UNCHANGED <<phase, first, child, stray, respawns, retries, quit, app>>

---------------------------------------------------------------------------
(* Quitting *)

\* The before-quit handler, and shutdownServer up to its promise.
BeforeQuit ==
    IF SeemsAlive(child)
    THEN /\ quit' = [quit EXCEPT !.child = TRUE, !.grace = "running"]
         /\ child' = Terminate(child)
         /\ UNCHANGED app
    ELSE app' = "exiting" /\ UNCHANGED <<quit, child>>

\* The user quits, closes the window, or quits once more.
Quit ==
    /\ app = "running"
    /\ BeforeQuit
    /\ UNCHANGED <<phase, first, stray, respawns, retries, shown, monitor>>

\* shutdownServer's timer.
GraceExpires ==
    /\ Hosting
    /\ quit.grace = "running"
    /\ quit' = [quit EXCEPT !.grace = "over"]
    /\ child' = IF SeemsAlive(child) THEN Kill(child) ELSE child
    /\ UNCHANGED <<phase, first, stray, respawns, retries, shown, monitor, app>>

\* The exit event of a stray child: a quit that waited for it is tried again.
StrayExitEvent ==
    /\ stray > 0
    /\ stray' = stray - 1
    /\ IF quit.stray /\ app = "running"
       THEN BeforeQuit
       ELSE UNCHANGED <<child, quit, app>>
    /\ UNCHANGED <<phase, first, respawns, retries, shown, monitor>>

AppExits ==
    /\ app = "exiting"
    /\ app' = "exited"
    /\ monitor' = MonitorOff
    /\ UNCHANGED <<phase, first, child, stray, respawns, retries, shown, quit>>

---------------------------------------------------------------------------
(* The server processes *)

Announce ==
    /\ child.os = "alive"
    /\ ~child.port
    /\ child' = [child EXCEPT !.port = TRUE]
    /\ UNCHANGED <<phase, first, stray, respawns, retries, shown, monitor, quit, app>>

\* The database becomes available or unavailable.
ReadinessShifts ==
    /\ child.os = "alive"
    /\ child.port
    /\ child' = [child EXCEPT !.ready = ~@]
    /\ UNCHANGED <<phase, first, stray, respawns, retries, shown, monitor, quit, app>>

Die ==
    /\ child.os = "alive"
    /\ \E how \in {"code", "signal"} : child' = [child EXCEPT !.os = "dead", !.how = how, !.ready = FALSE]
    /\ UNCHANGED <<phase, first, stray, respawns, retries, shown, monitor, quit, app>>

\* A server told to stop drains and exits with a code; when the host is gone
\* its parent watch ends it.
Stop ==
    /\ child.os = "alive"
    /\ child.term \/ app = "exited"
    /\ child' = [child EXCEPT !.os = "dead", !.how = "code", !.ready = FALSE]
    /\ UNCHANGED <<phase, first, stray, respawns, retries, shown, monitor, quit, app>>

---------------------------------------------------------------------------
HostNext ==
    \/ Retry \/ Spawn \/ ConfigFails \/ PortAnnounced \/ PortRejected
    \/ PollAnswered \/ PollSucceeds \/ FirstReady \/ PollTimesOut \/ CatchAttempt
    \/ BackoffExpires \/ ExitEvent \/ Probe \/ Report
    \/ Quit \/ GraceExpires \/ StrayExitEvent \/ AppExits

ServerNext == Announce \/ ReadinessShifts \/ Die \/ Stop

LifecycleNext == HostNext \/ ServerNext

LifecycleSpec == LifecycleInit /\ [][LifecycleNext]_lvars

\* The event loop runs whatever is ready; a server announces its port or ends,
\* and stops when it is told to.
LifecycleFairness ==
    /\ WF_lvars(Spawn \/ ConfigFails)
    /\ WF_lvars(PortAnnounced \/ PortRejected)
    /\ WF_lvars(PollAnswered \/ PollTimesOut)
    /\ WF_lvars(PollSucceeds)
    /\ WF_lvars(FirstReady)
    /\ WF_lvars(CatchAttempt)
    /\ WF_lvars(BackoffExpires)
    /\ WF_lvars(ExitEvent)
    /\ WF_lvars(GraceExpires)
    /\ WF_lvars(StrayExitEvent)
    /\ WF_lvars(AppExits)
    /\ WF_lvars(Announce)
    /\ WF_lvars(Stop)

FairLifecycle == LifecycleSpec /\ LifecycleFairness

---------------------------------------------------------------------------
(* Properties *)

\* The type of the host's state; respawnCount stays within MAX_RESPAWN_ATTEMPTS.
LifecycleTypeOK ==
    /\ phase \in Phases
    /\ first \in BOOLEAN
    /\ child \in Child
    /\ stray \in Nat
    /\ respawns \in 0 .. MaxRespawns
    /\ retries \in 0 .. MaxRetries
    /\ shown \in Shown
    /\ monitor \in Monitor
    /\ quit \in QuitSequence
    /\ app \in {"running", "exiting", "exited"}

\* A server is spawned only when the one before it is gone, so two servers
\* never share the database, except that a server already told to stop by a
\* quit may still be draining when a late respawn starts the next.
OneServerUnlessQuitting ==
    [][stray' > stray => child.term]_lvars

\* What the window shows is never a leftover of the previous server's health
\* monitor: once a crash was noticed, only a new readiness check leads back to
\* Healthy or Degraded, although a probe may be in flight when it happens.
HealthIsOfCurrentServer ==
    /\ shown \in {"Healthy", "Degraded"} => phase = "watching"
    /\ monitor.on => phase = "watching"

\* What the host knows of its child whenever it is about to start another one:
\* the child is gone or was told to stop.  A kill() that is not shutdownServer's
\* is followed by the wait for the exit, and shutdownServer's timer never kills
\* a child that was not told to stop first.
ChildGoneOrTold ==
    /\ phase \in {"off", "spawn", "backoff"} /\ child.os # "none" => child.reaped \/ child.term
    /\ child.killed => child.reaped \/ child.term \/ phase = "reap"
    /\ quit.grace = "running" => child.reaped \/ child.killed

\* What holds in every state of the host, however the lifecycle, the monitor,
\* the quit sequence and the server interleave (serverLifecycle.ts,
\* healthPoller.ts, shutdown.ts).
LifecycleInvariant == LifecycleTypeOK /\ HealthIsOfCurrentServer /\ ChildGoneOrTold

\* No server is ended by a signal other than the host's own: Node shows the
\* host such an end only by the exit event.
OnlyExitCodes == [](child.how = "signal" => child.killed)

\* A start attempt ends: the first one in Healthy or Failed, a respawn in
\* Healthy, Failed or the next Recovering, unless the application quits.  And a
\* server that dies while it is watched is noticed: the host recovers or gives
\* up, it does not go on showing a healthy server.
AttemptsEnd ==
    OnlyExitCodes =>
        /\ phase \notin {"watching", "backoff", "off"} ~>
               phase \in {"watching", "backoff", "off"} \/ app = "exited"
        /\ phase = "watching" /\ child.os = "dead" ~> phase # "watching" \/ app = "exited"

\* Quitting ends, although the exit of the server it waits for also triggers
\* a respawn, and a respawn may replace the server it waits for.
QuitEnds ==
    OnlyExitCodes => (quit.child \/ quit.stray ~> app = "exited")

---------------------------------------------------------------------------
(* Statements of the comments and documents that the code does not keep *)

Quitting == quit # NoQuit \/ app # "running"

\* serverLifecycle.ts: "Failed - startup timeout, crash before ready, or
\* recovery exhausted": a server that dies during the first start leads to
\* Failed.
CrashBeforeReadyFails ==
    first /\ phase \in {"port", "poll"} /\ child.os = "dead" ~>
        shown = "Failed" \/ Quitting

\* shutdown.ts: "If the grace period expires, sends SIGKILL."
SigkillAfterGrace ==
    quit.child /\ quit.grace = "over" => child.os # "alive" \/ child.sigkill

\* index.ts: "before-quit defers the default quit until the Go server shutdown
\* sequence completes".
QuitWaitsForServer ==
    [][app = "running" /\ app' = "exiting" => child.os # "alive"]_lvars

=============================================================================
