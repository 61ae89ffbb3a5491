------------------------------ MODULE Pairing ------------------------------
(* Device pairing: an administrator opens a session with a code, a device     *)
(* presents the code and is enrolled provisionally, and a login that carries  *)
(* the device's enrolment grant makes it somebody's.  DELETE requests cancel  *)
(* a session or revoke its device, and a sweep removes what is out of date.   *)
(* Statements outside VerifyAndConsume commit one by one, so all of these     *)
(* interleave between statements.  Codes, labels, addresses, classes and the  *)
(* stored device_id, which no statement reads, are left out: a session stands *)
(* for its code and a verify request for the device id it generated.          *)
EXTENDS Naturals

CONSTANTS
    Sessions,           \* ids of pairing sessions, never used twice
    Verifies,           \* POST /network/pair/verify requests
    Users,              \* each logs in with a grant at most once
    None,
    PairingTTL,         \* 5 minutes
    EnrolmentGrantTTL,  \* 10 minutes
    ProvisionalAge,     \* 1 hour: cutoff1h
    SessionAge,         \* 24 hours: cutoff24h
    Margin,             \* 1 hour: what cutoffGrant adds to the grant's life
    Stall,              \* the longest a request is in flight
    MaxTime             \* bound on the clock

ASSUME PairingAssumption ==
    /\ None \notin Sessions \cup Verifies \cup Users \cup 0..MaxTime
    /\ PairingTTL \in Nat \ {0} /\ EnrolmentGrantTTL \in Nat \ {0}
    /\ ProvisionalAge \in Nat /\ SessionAge \in Nat /\ Margin \in Nat
    /\ Stall \in Nat /\ MaxTime \in Nat
    /\ EnrolmentGrantTTL <= ProvisionalAge
    /\ EnrolmentGrantTTL <= SessionAge
    /\ Stall <= Margin

VARIABLES
    now,        \* the clock
    session,    \* pairing_sessions
    device,     \* paired_devices, by the request that made the row
    spent,      \* enrolment_grant_jtis: the spent_at of each grant
    verify,     \* the verify requests
    login,      \* the logins, from the moment their credentials are accepted
    delete,     \* DELETE /network/pair/{id}: the state it read
    sweep       \* the statement the sweep runs next, and its time

vars == <<now, session, device, spent, verify, login, delete, sweep>>

Time == 0..MaxTime

\* "unborn" before the insert and "gone" after the delete; 'verified' exists only
\* inside VerifyAndConsume.
SessionState == {"unborn", "pending", "consumed", "expired", "gone"}
Terminal == {"consumed", "expired"}

NoDevice == [exists |-> FALSE, session |-> None, created |-> 0, owner |-> None, revoked |-> FALSE]

Provisional(v) == device[v].exists /\ device[v].owner = None

\* The verify requests whose transaction committed.
Enrolled(s) == {v \in Verifies : verify[v].session = s /\ verify[v].pc \in {"enrolled", "granted", "lost"}}

\* The logins that won the claim of a grant.
Claimants(v) == {u \in Users : login[u].grant = v /\ login[u].pc \in {"claimed", "owner", "refused"}}

\* The columns of the pairing tables and what each request in flight has read.
SessionRow == [state : SessionState, expires : 0..(MaxTime + PairingTTL)]
DeviceRow == [exists : BOOLEAN, session : Sessions \cup {None}, created : Time,
              owner : Users \cup {None}, revoked : BOOLEAN]
VerifyRequest == [pc : {"idle", "asked", "enrolled", "granted", "lost", "refused"},
                  session : Sessions \cup {None}, at : Time]
LoginRequest == [pc : {"idle", "verified", "claimed", "owner", "refused", "ignored"},
                 grant : Verifies \cup {None}, at : Time]

TypeOK ==
    /\ now \in Time
    /\ session \in [Sessions -> SessionRow]
    /\ device \in [Verifies -> DeviceRow]
    /\ spent \in [Verifies -> Time \cup {None}]
    /\ verify \in [Verifies -> VerifyRequest]
    /\ login \in [Users -> LoginRequest]
    /\ delete \in [Sessions -> {"idle", "pending", "consumed"}]
    /\ sweep \in [step : 0..4, at : Time]

Init ==
    /\ now = 0
    /\ session = [s \in Sessions |-> [state |-> "unborn", expires |-> 0]]
    /\ device = [v \in Verifies |-> NoDevice]
    /\ spent = [v \in Verifies |-> None]
    /\ verify = [v \in Verifies |-> [pc |-> "idle", session |-> None, at |-> 0]]
    /\ login = [u \in Users |-> [pc |-> "idle", grant |-> None, at |-> 0]]
    /\ delete = [s \in Sessions |-> "idle"]
    /\ sweep = [step |-> 0, at |-> 0]
-----------------------------------------------------------------------------
(* The clock.  A request is answered within Stall of reading the clock.       *)

InFlight == {verify[v].at : v \in {w \in Verifies : verify[w].pc \in {"asked", "enrolled"}}}
            \cup {login[u].at : u \in {w \in Users : login[w].pc \in {"verified", "claimed"}}}

Tick ==
    /\ now < MaxTime
    /\ \A at \in InFlight : now < at + Stall
    /\ now' = now + 1
    /\ UNCHANGED <<session, device, spent, verify, login, delete, sweep>>
-----------------------------------------------------------------------------
(* The administrator opens a session and later may delete it.                 *)

\* The bound on the clock leaves every session the time to be swept.
InitiatePairing(s) ==
    /\ session[s].state = "unborn"
    /\ now + PairingTTL + SessionAge <= MaxTime
    /\ session' = [session EXCEPT ![s] = [state |-> "pending", expires |-> now + PairingTTL]]
    /\ UNCHANGED <<now, device, spent, verify, login, delete, sweep>>

\* FindByID of the DELETE handler: a session that is missing, another
\* administrator's or expired changes nothing.
FindForDelete(s) ==
    /\ delete[s] = "idle"
    /\ session[s].state \in {"pending", "consumed"}
    /\ delete' = [delete EXCEPT ![s] = session[s].state]
    /\ UNCHANGED <<now, session, device, spent, verify, login, sweep>>

RevokeByPairingSessionID(s) ==
    device' = [v \in Verifies |->
        IF device[v].exists /\ device[v].session = s THEN [device[v] EXCEPT !.revoked = TRUE]
                                                     ELSE device[v]]

\* The write of the DELETE handler, chosen by the state that was read.  Save is an
\* upsert: it overwrites whatever the row has become.
DeletePairing(s) ==
    /\ delete[s] # "idle"
    /\ \/ /\ delete[s] = "consumed"
          /\ RevokeByPairingSessionID(s)
          /\ UNCHANGED session
       \/ /\ delete[s] = "pending"
          /\ session' = [session EXCEPT ![s].state = "expired"]
          /\ UNCHANGED device
    /\ delete' = [delete EXCEPT ![s] = "idle"]
    /\ UNCHANGED <<now, spent, verify, login, sweep>>

\* The handler ignores an error of its write and answers 204 all the same.
DeleteFails(s) ==
    /\ delete[s] # "idle"
    /\ delete' = [delete EXCEPT ![s] = "idle"]
    /\ UNCHANGED <<now, session, device, spent, verify, login, sweep>>

\* DELETE /devices/{id} by the owner.
RevokeDevice(v) ==
    /\ device[v].exists /\ device[v].owner # None /\ ~device[v].revoked
    /\ device' = [device EXCEPT ![v].revoked = TRUE]
    /\ UNCHANGED <<now, session, spent, verify, login, delete, sweep>>
-----------------------------------------------------------------------------
(* A device presents a code.                                                  *)

\* The handler reads the clock before the transaction begins.
AskVerify(v, s) ==
    /\ verify[v].pc = "idle"
    /\ session[s].state # "unborn"
    /\ verify' = [verify EXCEPT ![v] = [pc |-> "asked", session |-> s, at |-> now]]
    /\ UNCHANGED <<now, session, device, spent, login, delete, sweep>>

\* The row FindPendingByCodeIndexForUpdate returns; Verify and Consume repeat the
\* two conditions on the locked row, and the unique index on pairing_session_id
\* refuses a second device.
FindPending(v) ==
    LET s == verify[v].session IN
    /\ session[s].state = "pending"
    /\ session[s].expires > verify[v].at
    /\ \A w \in Verifies : device[w].exists => device[w].session # s

\* Mutant: the consumed session is not saved.
VerifyWithoutSave(v) ==
    /\ verify[v].pc = "asked"
    /\ FindPending(v)
    /\ device' = [device EXCEPT ![v] = [NoDevice EXCEPT !.exists = TRUE, !.session = verify[v].session,
                                                        !.created = verify[v].at]]
    /\ verify' = [verify EXCEPT ![v].pc = "enrolled"]
    /\ UNCHANGED <<now, session, spent, login, delete, sweep>>

\* One transaction.  The row lock it holds from the SELECT to the commit keeps every
\* other writer of the session out, so it takes effect at once.
VerifyAndConsume(v) ==
    LET s == verify[v].session IN
    /\ verify[v].pc = "asked"
    /\ FindPending(v)
    /\ session' = [session EXCEPT ![s].state = "consumed"]
    /\ device' = [device EXCEPT ![v] = [NoDevice EXCEPT !.exists = TRUE, !.session = s, !.created = verify[v].at]]
    /\ verify' = [verify EXCEPT ![v].pc = "enrolled"]
    /\ UNCHANGED <<now, spent, login, delete, sweep>>

\* No such row, or an error that rolls the transaction back.
VerifyRefused(v) ==
    /\ verify[v].pc = "asked"
    /\ verify' = [verify EXCEPT ![v].pc = "refused"]
    /\ UNCHANGED <<now, session, device, spent, login, delete, sweep>>

\* The grant is signed with the time of the request and reaches the device, or the
\* signature, the response or the server fails and it never does.
SignGrant(v) ==
    /\ verify[v].pc = "enrolled"
    /\ verify' = [verify EXCEPT ![v].pc = "granted"]
    /\ UNCHANGED <<now, session, device, spent, login, delete, sweep>>

LoseGrant(v) ==
    /\ verify[v].pc = "enrolled"
    /\ verify' = [verify EXCEPT ![v].pc = "lost"]
    /\ UNCHANGED <<now, session, device, spent, login, delete, sweep>>
-----------------------------------------------------------------------------
(* A login carries the grant: applyEnrolmentGrant, three separate statements. *)

GrantLives(v, at) == verify[v].pc = "granted" /\ at < verify[v].at + EnrolmentGrantTTL

\* The credentials are accepted, the clock is read and the grant verified; with a
\* grant that has expired the login goes on without it.
Login(u, v) ==
    /\ login[u].pc = "idle"
    /\ GrantLives(v, now)
    /\ login' = [login EXCEPT ![u] = [pc |-> "verified", grant |-> v, at |-> now]]
    /\ UNCHANGED <<now, session, device, spent, verify, delete, sweep>>

\* INSERT ... ON CONFLICT DO NOTHING: the insert is the claim.
Claim(u) ==
    LET v == login[u].grant IN
    /\ login[u].pc = "verified"
    /\ \/ /\ spent[v] = None
          /\ spent' = [spent EXCEPT ![v] = login[u].at]
          /\ login' = [login EXCEPT ![u].pc = "claimed"]
       \/ /\ spent[v] # None
          /\ login' = [login EXCEPT ![u].pc = "ignored"]
          /\ UNCHANGED spent
    /\ UNCHANGED <<now, session, device, verify, delete, sweep>>

\* The row AssignOwnerByPairingSession updates.
Assignable(w, s) == Provisional(w) /\ device[w].session = s /\ ~device[w].revoked

AssignOwner(u) ==
    LET s == verify[login[u].grant].session IN
    /\ login[u].pc = "claimed"
    /\ \/ \E w \in Verifies :
             /\ Assignable(w, s)
             /\ device' = [device EXCEPT ![w].owner = u]
             /\ login' = [login EXCEPT ![u].pc = "owner"]
       \/ /\ \A w \in Verifies : ~Assignable(w, s)
          /\ login' = [login EXCEPT ![u].pc = "refused"]
          /\ UNCHANGED device
    /\ UNCHANGED <<now, session, spent, verify, delete, sweep>>

\* An error, or the end of the process, between the statements: the login goes on
\* without the device, and a claim that was made stays.
LoginLosesGrant(u) ==
    /\ \/ /\ login[u].pc = "verified"
          /\ login' = [login EXCEPT ![u].pc = "ignored"]
       \/ /\ login[u].pc = "claimed"
          /\ login' = [login EXCEPT ![u].pc = "refused"]
    /\ UNCHANGED <<now, session, device, spent, verify, delete, sweep>>
-----------------------------------------------------------------------------
(* The sweep: SweepOnce runs its statements in order with the time of the     *)
(* tick and returns at the first that fails.                                  *)

SweepTick ==
    /\ sweep.step = 0
    /\ sweep' = [step |-> 1, at |-> now]
    /\ UNCHANGED <<now, session, device, spent, verify, login, delete>>

SweepExpireStaleSessions ==
    /\ sweep.step = 1
    /\ session' = [s \in Sessions |->
          IF session[s].state = "pending" /\ session[s].expires <= sweep.at
          THEN [session[s] EXCEPT !.state = "expired"] ELSE session[s]]
    /\ sweep' = [sweep EXCEPT !.step = 2]
    /\ UNCHANGED <<now, device, spent, verify, login, delete>>

\* Mutant: only consumed sessions are deleted.
RetiredConsumed(s) == session[s].state = "consumed" /\ session[s].expires + SessionAge <= sweep.at

Retired(s) == session[s].state \in Terminal /\ session[s].expires + SessionAge <= sweep.at

\* The foreign key of paired_devices is ON DELETE SET NULL.
SweepDeleteTerminalSessions ==
    /\ sweep.step = 2
    /\ session' = [s \in Sessions |->
          IF Retired(s) THEN [session[s] EXCEPT !.state = "gone"] ELSE session[s]]
    /\ device' = [v \in Verifies |->
          IF device[v].session # None /\ Retired(device[v].session)
          THEN [device[v] EXCEPT !.session = None] ELSE device[v]]
    /\ sweep' = [sweep EXCEPT !.step = 3]
    /\ UNCHANGED <<now, spent, verify, login, delete>>

\* Mutant: the time of the sweep is the cutoff.
AbandonedAtOnce(v) == Provisional(v) /\ device[v].created <= sweep.at

Abandoned(v) == Provisional(v) /\ device[v].created + ProvisionalAge <= sweep.at

SweepDeleteAbandonedDevices ==
    /\ sweep.step = 3
    /\ device' = [v \in Verifies |-> IF Abandoned(v) THEN NoDevice ELSE device[v]]
    /\ sweep' = [sweep EXCEPT !.step = 4]
    /\ UNCHANGED <<now, session, spent, verify, login, delete>>

\* Mutant: the cutoff has no margin.
ForgettableWithGrant(v) == spent[v] # None /\ spent[v] + EnrolmentGrantTTL <= sweep.at

Forgettable(v) == spent[v] # None /\ spent[v] + EnrolmentGrantTTL + Margin <= sweep.at

SweepDeleteSpentGrantJTIs ==
    /\ sweep.step = 4
    /\ spent' = [v \in Verifies |-> IF Forgettable(v) THEN None ELSE spent[v]]
    /\ sweep' = [sweep EXCEPT !.step = 0]
    /\ UNCHANGED <<now, session, device, verify, login, delete>>

SweepFails ==
    /\ sweep.step # 0
    /\ sweep' = [sweep EXCEPT !.step = 0]
    /\ UNCHANGED <<now, session, device, spent, verify, login, delete>>

Sweep ==
    \/ SweepTick \/ SweepExpireStaleSessions \/ SweepDeleteTerminalSessions
    \/ SweepDeleteAbandonedDevices \/ SweepDeleteSpentGrantJTIs
-----------------------------------------------------------------------------
Verify(v) == VerifyAndConsume(v) \/ VerifyRefused(v) \/ SignGrant(v) \/ LoseGrant(v)

ApplyGrant(u) == Claim(u) \/ AssignOwner(u) \/ LoginLosesGrant(u)

Delete(s) == DeletePairing(s) \/ DeleteFails(s)

Next ==
    \/ Tick
    \/ \E s \in Sessions : InitiatePairing(s) \/ FindForDelete(s) \/ Delete(s)
    \/ \E v \in Verifies : Verify(v) \/ RevokeDevice(v) \/ \E s \in Sessions : AskVerify(v, s)
    \/ \E u \in Users : ApplyGrant(u) \/ \E v \in Verifies : Login(u, v)
    \/ Sweep
    \/ SweepFails

\* Time passes and requests are answered.  The sweep's ticker comes round every
\* five minutes for as long as the process lives, and each of its statements
\* succeeds again and again: a failed round is not the last one.
Fairness ==
    /\ WF_vars(Tick)
    /\ \A v \in Verifies : WF_vars(Verify(v))
    /\ \A u \in Users : WF_vars(ApplyGrant(u))
    /\ \A s \in Sessions : WF_vars(Delete(s))
    /\ WF_vars(SweepTick)
    /\ SF_vars(SweepExpireStaleSessions) /\ SF_vars(SweepDeleteTerminalSessions)
    /\ SF_vars(SweepDeleteAbandonedDevices) /\ SF_vars(SweepDeleteSpentGrantJTIs)

Spec == Init /\ [][Next]_vars /\ Fairness
-----------------------------------------------------------------------------
(* A code enrols one device, whatever verify, DELETE and sweep do around it:  *)
(* a pending session has enrolled none, a consumed one exactly one, and one   *)
(* whose 'consumed' a DELETE overwrote is not open again                      *)
(* (PairingVerifier.VerifyAndConsume).                                        *)
OneEnrolmentPerCode ==
    \A s \in Sessions :
        /\ \A v, w \in Enrolled(s) : v = w
        /\ session[s].state = "pending" => Enrolled(s) = {}
        /\ session[s].state = "consumed" => Enrolled(s) # {}

(* A device that holds a grant which is neither expired nor spent finds its   *)
(* provisional row, still tied to the session, when it logs in: the sweep of  *)
(* sessions and devices is never ahead of a grant.  Only a revocation takes   *)
(* the row's use away (applyEnrolmentGrant against SweepOnce).                *)
LiveGrantFindsItsDevice ==
    \A v \in Verifies :
        GrantLives(v, now) /\ spent[v] = None =>
            Provisional(v) /\ device[v].session = verify[v].session

(* Of all logins with one grant, at the same time or after the sweep forgot   *)
(* that it was spent, one wins the claim (applyEnrolmentGrant: "Atomic        *)
(* single-use claim before any durable work").                                *)
SingleUseGrant ==
    \A v \in Verifies : \A t, u \in Claimants(v) : t = u

(* Times read by requests and by the sweep are not ahead of the clock, and    *)
(* no request is in flight for longer than Stall.                             *)
ClockIsAhead ==
    /\ sweep.at <= now
    /\ \A v \in Verifies : /\ verify[v].at <= now
                           /\ verify[v].pc \in {"asked", "enrolled"} => now <= verify[v].at + Stall
    /\ \A u \in Users : /\ login[u].at <= now
                        /\ login[u].pc \in {"verified", "claimed"} => now <= login[u].at + Stall

(* Who asked names a session that was opened, and a session nobody opened has *)
(* enrolled nobody.                                                           *)
CodesAreOfSessions ==
    /\ \A v \in Verifies : verify[v].pc # "idle" =>
          verify[v].session \in Sessions /\ session[verify[v].session].state # "unborn"
    /\ \A s \in Sessions : delete[s] # "idle" => session[s].state # "unborn"

(* A device row is of the request that enrolled it and, while the foreign key *)
(* is set, of a session that was alive then.                                  *)
DevicesAreEnrolled ==
    \A v \in Verifies :
        /\ device[v].exists =>
              /\ verify[v].pc \in {"enrolled", "granted", "lost"}
              /\ device[v].created = verify[v].at
              /\ device[v].session # None =>
                    /\ device[v].session = verify[v].session
                    /\ device[v].created < session[verify[v].session].expires
        /\ device[v].revoked => device[v].exists

(* A login goes on with a grant that was alive when it was verified; a claim  *)
(* is recorded while its login is in flight, and forgotten only when no       *)
(* login with the grant can be.                                               *)
ClaimsAreRecorded ==
    /\ \A u \in Users : login[u].pc # "idle" =>
          /\ login[u].grant \in Verifies
          /\ verify[login[u].grant].at <= login[u].at
          /\ GrantLives(login[u].grant, login[u].at)
          /\ login[u].pc = "claimed" => spent[login[u].grant] = login[u].at
    /\ \A v \in Verifies : spent[v] # None => verify[v].pc = "granted" /\ verify[v].at <= spent[v]
    /\ \A v \in Verifies :
          spent[v] = None /\ Claimants(v) # {} => verify[v].at + EnrolmentGrantTTL + Stall <= now

(* Until it is spent or expires, the grant of an enrolled device has its row: *)
(* LiveGrantFindsItsDevice also for a grant still to be signed, or lost.      *)
RowOutlivesGrant ==
    \A v \in Verifies :
        /\ verify[v].pc \in {"enrolled", "granted", "lost"}
        /\ now < verify[v].at + EnrolmentGrantTTL
        /\ spent[v] = None
        => Provisional(v) /\ device[v].session = verify[v].session

(* What makes a pairing safe at every statement of every request and of the   *)
(* sweep (pairing_verify.go, applyEnrolmentGrant, SweepOnce): one enrolment   *)
(* for a code, one claim for a grant, and a row for every grant that lives.   *)
PairingInvariant ==
    /\ TypeOK
    /\ ClockIsAhead
    /\ CodesAreOfSessions
    /\ OneEnrolmentPerCode
    /\ DevicesAreEnrolled
    /\ ClaimsAreRecorded
    /\ SingleUseGrant
    /\ RowOutlivesGrant

(* A revoked device stays revoked and changes hands no more: one that was     *)
(* revoked before its login is never assigned by the grant it still holds     *)
(* (RevokeByPairingSessionID, AssignOwnerByPairingSession).                   *)
RevokedStaysOut ==
    [][\A v \in Verifies :
          device[v].revoked /\ device'[v].exists =>
              device'[v].revoked /\ device'[v].owner = device[v].owner]_vars

(* Nothing is kept for good by a pairing that came to nothing: a provisional  *)
(* device is claimed or removed, and the row of every session, with the       *)
(* address of its initiator, is deleted (NetworkSweep.SweepOnce).             *)
SweptInTheEnd ==
    /\ \A v \in Verifies : Provisional(v) ~> ~Provisional(v)
    /\ \A s \in Sessions : session[s].state \in {"pending", "consumed", "expired"} ~> session[s].state = "gone"
=============================================================================
