--------------------------- MODULE JobLifecycle ---------------------------
(***************************************************************************)
(* What the job queue promises to whoever enqueues a job, with the rows,   *)
(* leases, workers and restarts hidden: a job is attempted a bounded       *)
(* number of times, one attempt at a time, and once it is completed or     *)
(* given up it stays so.  JobQueue implements this specification.          *)
(***************************************************************************)
EXTENDS Integers

CONSTANTS JobIds, MaxAttempts

VARIABLES status, attempts

lifecycleVars == <<status, attempts>>

Waiting == {"queued", "retrying"}

\* The table outlives the process: it may hold jobs that were cancelled before.
LInit ==
    /\ status \in [JobIds -> {"absent", "dead_letter"}]
    /\ attempts = [j \in JobIds |-> 0]

Move(j, s) == status' = [status EXCEPT ![j] = s]

Submit(j) ==
    /\ status[j] = "absent"
    /\ Move(j, "queued")
    /\ UNCHANGED attempts

\* An attempt starts only while the budget is not spent.
Begin(j) ==
    /\ status[j] \in Waiting
    /\ attempts[j] < MaxAttempts
    /\ Move(j, "running")
    /\ attempts' = [attempts EXCEPT ![j] = @ + 1]

Succeed(j) ==
    /\ status[j] = "running"
    /\ Move(j, "completed")
    /\ UNCHANGED attempts

\* A failed or abandoned attempt is repeated only if another one is allowed.
TryAgain(j) ==
    /\ status[j] = "running"
    /\ attempts[j] < MaxAttempts
    /\ Move(j, "retrying")
    /\ UNCHANGED attempts

\* The budget is spent, the failure is permanent or the job is cancelled.
GiveUp(j) ==
    /\ status[j] \in Waiting \cup {"running"}
    /\ Move(j, "dead_letter")
    /\ UNCHANGED attempts

\* Only successfully completed jobs are ever removed.
Forget(old) ==
    /\ \A j \in old : status[j] = "completed"
    /\ status' = [j \in JobIds |-> IF j \in old THEN "deleted" ELSE status[j]]
    /\ UNCHANGED attempts

LNext ==
    \/ \E j \in JobIds : Submit(j) \/ Begin(j) \/ Succeed(j) \/ TryAgain(j) \/ GiveUp(j)
    \/ \E old \in SUBSET JobIds : Forget(old)

LSpec == LInit /\ [][LNext]_lifecycleVars
=============================================================================
