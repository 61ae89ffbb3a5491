------------------------------ MODULE Accounts ------------------------------
(***************************************************************************)
(* Accounts, sessions, the second factor and the libraries a user belongs  *)
(* to: the handlers of transport/http/auth_handlers.go and                 *)
(* library_handlers.go over the tables of auth_repository.go,              *)
(* mfa_ticket_jti_repository.go and library_repository.go.                 *)
(*                                                                         *)
(* No handler opens a transaction, so a step is one statement: a request   *)
(* that reads a row and later saves it may overwrite what another request  *)
(* did in between.  Consecutive reads of rows that no handler changes      *)
(* (users, credentials) share a step with the read that matters.  A save   *)
(* whose error the handler drops ("_ = repo.Save") may fail and the        *)
(* handler goes on.  Every user is created by the setup wizard, so every   *)
(* user has the global role admin, which no check of a role in a library   *)
(* turns away; those roles are left out.  The lifetimes of refresh tokens  *)
(* (30 days) and invitations (7 days) have no clock: an expired one is one *)
(* that no request is accepted with any more, and a request may be refused *)
(* at any step, by a limiter, a wrong code or an error of the database.    *)
(*                                                                         *)
(* MFA tickets have one, because the claim that makes a ticket single-use  *)
(* is forgotten again: the last statement of the network sweep             *)
(* (network_sweep.go:90-97) deletes it an hour later.  All times of a      *)
(* ticket are counted from its signing.                                    *)
(*                                                                         *)
(* A password reset cannot be completed: PasswordResetRequestHandler       *)
(* throws the raw token away (auth_handlers.go:519), so no client holds    *)
(* one to confirm with, and both handlers are left out.                    *)
(***************************************************************************)
EXTENDS Naturals

CONSTANTS
    Users,         \* ids the setup wizard draws
    Requests,      \* concurrent HTTP requests
    Tokens,        \* ids of refresh tokens
    Tickets,       \* jti of MFA tickets
    Secrets,       \* TOTP secrets
    CodesPerSecret,
    Default,       \* the default library, seeded by the migration
    Libraries,     \* ids of further libraries
    Invitations,
    None,
    TicketTTL,     \* the life of an MFA ticket: 5 minutes
    ClaimTTL,      \* how long the sweep keeps its claim: 1 hour
    Stall          \* the longest that a verification takes from its clock to its claim

VARIABLES
    users,         \* rows of users
    creds,         \* users with a row in user_credentials
    session,       \* rows of user_refresh_tokens
    ticket,        \* the user an MFA ticket was signed for
    age,           \* the time since an MFA ticket was signed
    spent,         \* rows of mfa_ticket_jtis: spent_at, as an age of the ticket
    mfa,           \* rows of mfa_totp_settings
    confirmed,     \* secrets whose first code the owner has entered
    libs,          \* rows of libraries
    member,        \* the users with a row in library_memberships
    invitation,    \* rows of library_invitations
    req            \* what each request in flight holds

auth == <<users, creds, session, ticket, age, spent, mfa, confirmed>>

tenancy == <<libs, member, invitation>>

vars == <<auth, tenancy, req>>

AllLibraries == {Default} \cup Libraries

(* The recovery codes generated together with a secret. *)
CodesOf(s) == {s} \X (1..CodesPerSecret)

SessionRow == [user : Users, status : {"active", "revoked"},
               by : Tickets \cup {None}]

MfaRow == [secret : Secrets, codes : SUBSET (Secrets \X (1..CodesPerSecret)), enabled : BOOLEAN]

InvitationRow == [lib : AllLibraries, status : {"open", "used"}]

(* The age from which on a ticket is over and its claim may be gone. *)
Horizon == TicketTTL + ClaimTTL

(* What the sweep calls its wide safety margin is that no verification is  *)
(* still on its way to its claim when the claims of its ticket may go.     *)
ASSUME AccountsAssumption ==
    /\ Requests # {}
    /\ TicketTTL \in Nat /\ ClaimTTL \in Nat /\ Stall \in Nat
    /\ TicketTTL + Stall <= ClaimTTL
    /\ None \notin Nat
    /\ None \notin Users \cup Tickets \cup Tokens
    /\ None \notin SessionRow /\ None \notin MfaRow /\ None \notin InvitationRow

Held(at, user, key, row) == [at |-> at, user |-> user, key |-> key, row |-> row]

Idle == Held("idle", None, None, None)

(* A request goes on to a statement, with what it holds by then. *)
Holds(r, at, user, key, row) == req' = [req EXCEPT ![r] = Held(at, user, key, row)]

Step(r, to) == Holds(r, to, req[r].user, req[r].key, req[r].row)

End(r) == req' = [req EXCEPT ![r] = Idle]

(* The bearer of an access token: whoever was ever given a session. *)
SignedIn == {u \in Users : \E t \in Tokens : session[t] # None /\ session[t].user = u}

(* totp.IsEnabled() of the row that is found. *)
FactorOn == {u \in Users : mfa[u] # None /\ mfa[u].enabled}

-----------------------------------------------------------------------------
(* Setup. *)

(* CountUsers: the wizard runs while there is no user at all. *)
SetupBegin(r, u) ==
    /\ req[r].at = "idle"
    /\ users = {}
    /\ \A o \in Requests : req[o].user # u
    /\ Holds(r, "user", u, None, None)
    /\ UNCHANGED <<auth, tenancy>>

SetupSaveUser(r) ==
    /\ req[r].at = "user"
    /\ users' = users \cup {req[r].user}
    /\ Step(r, "creds")
    /\ UNCHANGED <<creds, session, ticket, age, spent, mfa, confirmed, tenancy>>

SetupSaveCredentials(r) ==
    /\ req[r].at = "creds"
    /\ creds' = creds \cup {req[r].user}
    /\ Step(r, "join")
    /\ UNCHANGED <<users, session, ticket, age, spent, mfa, confirmed, tenancy>>

(* The save of the default membership; its error is dropped. *)
SetupJoin(r) ==
    /\ req[r].at = "join"
    /\ member' \in {member, [member EXCEPT ![Default] = @ \cup {req[r].user}]}
    /\ Step(r, "issue")
    /\ UNCHANGED <<auth, libs, invitation>>
-----------------------------------------------------------------------------
(* Sessions. *)

(* The password is right and the second factor off: on to the session. *)
Login(r, u) ==
    /\ req[r].at = "idle"
    /\ u \in creds
    /\ u \notin FactorOn
    /\ Holds(r, "issue", u, None, None)
    /\ UNCHANGED <<auth, tenancy>>

(* The second factor is on: the answer is a ticket, and no session. *)
LoginTicket(r, u, k) ==
    /\ req[r].at = "idle"
    /\ u \in creds \cap FactorOn
    /\ ticket[k] = None
    /\ ticket' = [ticket EXCEPT ![k] = u]
    /\ UNCHANGED <<users, creds, session, age, spent, mfa, confirmed, tenancy, req>>

(* The last steps of setup, login, verify and refresh: read the            *)
(* memberships for the claims and save a new refresh token.                *)
Issue(r, t) ==
    /\ req[r].at = "issue"
    /\ session[t] = None
    /\ session' = [session EXCEPT ![t] = [user |-> req[r].user, status |-> "active",
                                          by |-> req[r].key]]
    /\ End(r)
    /\ UNCHANGED <<users, creds, ticket, age, spent, mfa, confirmed, tenancy>>

RefreshRead(r, t) ==
    /\ req[r].at = "idle"
    /\ session[t] # None
    /\ session[t].status = "active"
    /\ Holds(r, "rotate", session[t].user, None, t)
    /\ UNCHANGED <<auth, tenancy>>

(* Mutant: the row is saved as it was read, without Revoke. *)
RefreshRevokeForgotten(r) ==
    /\ req[r].at = "rotate"
    /\ session' = [session EXCEPT ![req[r].row].status = "active"]
    /\ Holds(r, "issue", req[r].user, req[r].key, None)
    /\ UNCHANGED <<users, creds, ticket, age, spent, mfa, confirmed, tenancy>>

(* rt.Revoke and its save, whose error is dropped. *)
RefreshRevoke(r) ==
    /\ req[r].at = "rotate"
    /\ session' \in {session, [session EXCEPT ![req[r].row].status = "revoked"]}
    /\ Holds(r, "issue", req[r].user, req[r].key, None)
    /\ UNCHANGED <<users, creds, ticket, age, spent, mfa, confirmed, tenancy>>

(* Logout revokes whatever state the row is in. *)
Logout(t) ==
    /\ session[t] # None
    /\ session' = [session EXCEPT ![t].status = "revoked"]
    /\ UNCHANGED <<users, creds, ticket, age, spent, mfa, confirmed, tenancy, req>>
-----------------------------------------------------------------------------
(* The second factor. *)

(* A new secret and its codes replace whatever enrolment there was. *)
TOTPSetup(u, s) ==
    /\ u \in SignedIn
    /\ s \notin confirmed
    /\ \A o \in Users : mfa[o] # None => mfa[o].secret # s
    /\ mfa' = [mfa EXCEPT ![u] = [secret |-> s, codes |-> CodesOf(s), enabled |-> FALSE]]
    /\ UNCHANGED <<users, creds, session, ticket, age, spent, confirmed, tenancy, req>>

(* The row is read and the code is right for the secret in it. *)
TOTPConfirmRead(r, u) ==
    /\ req[r].at = "idle"
    /\ u \in SignedIn
    /\ mfa[u] # None
    /\ Holds(r, "confirm", u, None, mfa[u])
    /\ confirmed' = confirmed \cup {mfa[u].secret}
    /\ UNCHANGED <<users, creds, session, ticket, age, spent, mfa, tenancy>>

(* The whole row goes back, enabled: an upsert. *)
TOTPConfirmSave(r) ==
    /\ req[r].at = "confirm"
    /\ mfa' = [mfa EXCEPT ![req[r].user] = [req[r].row EXCEPT !.enabled = TRUE]]
    /\ End(r)
    /\ UNCHANGED <<users, creds, session, ticket, age, spent, confirmed, tenancy>>

TOTPDisable(u) ==
    /\ u \in SignedIn
    /\ mfa[u] # None
    /\ mfa' = [mfa EXCEPT ![u] = None]
    /\ UNCHANGED <<users, creds, session, ticket, age, spent, confirmed, tenancy, req>>

(* The signature is ours and ExpiresAt is still to come. *)
VerifyMFATicket(k) == ticket[k] # None /\ age[k] < TicketTTL

(* The request reads the clock, and its ticket is valid. *)
VerifyTicket(r, k) ==
    /\ req[r].at = "idle"
    /\ VerifyMFATicket(k)
    /\ Holds(r, "claim", ticket[k], k, age[k])
    /\ UNCHANGED <<auth, tenancy>>

(* The insert into mfa_ticket_jtis affects a row unless there is one; its  *)
(* spent_at is the time the request has read.                              *)
VerifyClaim(r) ==
    LET k == req[r].key IN
    /\ req[r].at = "claim"
    /\ spent[k] = None
    /\ spent' = [spent EXCEPT ![k] = req[r].row]
    /\ Holds(r, "read", req[r].user, k, None)
    /\ UNCHANGED <<users, creds, session, ticket, age, mfa, confirmed, tenancy>>

VerifyRead(r) ==
    /\ req[r].at = "read"
    /\ req[r].user \in FactorOn
    /\ Holds(r, "factor", req[r].user, req[r].key, mfa[req[r].user])
    /\ UNCHANGED <<auth, tenancy>>

VerifyCode(r) ==
    /\ req[r].at = "factor"
    /\ Holds(r, "issue", req[r].user, req[r].key, None)
    /\ UNCHANGED <<auth, tenancy>>

(* A recovery code: the row that was read goes back enabled and without    *)
(* the code, an upsert whose error is dropped.                             *)
VerifyRecovery(r, c) ==
    LET row == req[r].row IN
    /\ req[r].at = "factor"
    /\ c \in row.codes
    /\ mfa' \in {mfa, [mfa EXCEPT ![req[r].user] =
                          [secret |-> row.secret, codes |-> row.codes \ {c}, enabled |-> TRUE]]}
    /\ Holds(r, "issue", req[r].user, req[r].key, None)
    /\ UNCHANGED <<users, creds, session, ticket, age, spent, confirmed, tenancy>>

(* Mutant: the cutoff is the life of a ticket, without the margin. *)
ForgettableAtExpiry(k) == spent[k] # None /\ spent[k] + TicketTTL <= age[k]

(* spent_at <= cutoffTicket. *)
Forgettable(k) == spent[k] # None /\ spent[k] + ClaimTTL <= age[k]

(* The statement of SweepOnce that forgets claims.  It goes by the time of *)
(* the tick that set it off, so it may leave what has come of age since.   *)
SweepOnce ==
    /\ \E gone \in SUBSET {k \in Tickets : Forgettable(k)} :
          spent' = [k \in Tickets |-> IF k \in gone THEN None ELSE spent[k]]
    /\ UNCHANGED <<users, creds, session, ticket, age, mfa, confirmed, tenancy, req>>

(* Time passes, unless a verification has been on its way to its claim for *)
(* as long as that takes.  Beyond the horizon ages make no difference.     *)
Tick ==
    /\ \A r \in Requests : req[r].at = "claim" => age[req[r].key] < req[r].row + Stall
    /\ age' = [k \in Tickets |->
                  IF ticket[k] # None /\ age[k] < Horizon THEN age[k] + 1 ELSE age[k]]
    /\ UNCHANGED <<users, creds, session, ticket, spent, mfa, confirmed, tenancy, req>>
-----------------------------------------------------------------------------
(* Libraries. *)

CreateLibrary(r, u, l) ==
    /\ req[r].at = "idle"
    /\ u \in SignedIn
    /\ l \notin libs
    /\ \A o \in Requests : req[o].key # l
    /\ libs' = libs \cup {l}
    /\ Holds(r, "creator", u, l, None)
    /\ UNCHANGED <<auth, member, invitation>>

(* The creator's membership: refused when the library is gone again, and   *)
(* the error dropped.                                                      *)
CreatorJoins(r) ==
    /\ req[r].at = "creator"
    /\ req[r].key \in libs
    /\ member' = [member EXCEPT ![req[r].key] = @ \cup {req[r].user}]
    /\ End(r)
    /\ UNCHANGED <<auth, libs, invitation>>

UpdateRead(r, u, l) ==
    /\ req[r].at = "idle"
    /\ u \in SignedIn
    /\ l \in libs
    /\ Holds(r, "update", u, l, None)
    /\ UNCHANGED <<auth, tenancy>>

(* The save is an upsert: it also brings back a library deleted since. *)
UpdateSave(r) ==
    /\ req[r].at = "update"
    /\ libs' = libs \cup {req[r].key}
    /\ End(r)
    /\ UNCHANGED <<auth, member, invitation>>

(* Memberships and invitations go with their library (ON DELETE CASCADE). *)
DeleteLibrary(u, l) ==
    /\ u \in SignedIn
    /\ l \in libs \ {Default}
    /\ libs' = libs \ {l}
    /\ member' = [member EXCEPT ![l] = {}]
    /\ invitation' = [i \in Invitations |->
                         IF invitation[i] # None /\ invitation[i].lib = l
                         THEN None ELSE invitation[i]]
    /\ UNCHANGED <<auth, req>>

(* A global admin invites to any library that has a row. *)
CreateInvitation(u, l, i) ==
    /\ u \in SignedIn
    /\ l \in libs
    /\ invitation[i] = None
    /\ \A o \in Requests : req[o].key # i
    /\ invitation' = [invitation EXCEPT ![i] = [lib |-> l, status |-> "open"]]
    /\ UNCHANGED <<auth, libs, member, req>>

AcceptRead(r, u, i) ==
    /\ req[r].at = "idle"
    /\ u \in SignedIn
    /\ invitation[i] # None
    /\ invitation[i].status = "open"
    /\ Holds(r, "accept", u, i, invitation[i])
    /\ UNCHANGED <<auth, tenancy>>

(* Mutant: the membership is inserted whatever became of the library. *)
AcceptJoinUnreferenced(r) ==
    /\ req[r].at = "accept"
    /\ member' = [member EXCEPT ![req[r].row.lib] = @ \cup {req[r].user}]
    /\ Step(r, "accepted")
    /\ UNCHANGED <<auth, libs, invitation>>

(* The upsert of the membership; its foreign key needs the library. *)
AcceptJoin(r) ==
    LET inv == req[r].row IN
    /\ req[r].at = "accept"
    /\ inv.lib \in libs
    /\ member' = [member EXCEPT ![inv.lib] = @ \cup {req[r].user}]
    /\ Step(r, "accepted")
    /\ UNCHANGED <<auth, libs, invitation>>

(* The upsert of the used invitation; its error is dropped. *)
AcceptUse(r) ==
    LET inv == req[r].row IN
    /\ req[r].at = "accepted"
    /\ invitation' \in {invitation} \cup
          (IF inv.lib \in libs
           THEN {[invitation EXCEPT ![req[r].key] = [inv EXCEPT !.status = "used"]]} ELSE {})
    /\ End(r)
    /\ UNCHANGED <<auth, libs, member>>

(* A request ends early: a limiter, a wrong code, a failed statement whose *)
(* error is reported, or the loss of the client.                           *)
Refuse(r) ==
    /\ req[r].at # "idle"
    /\ End(r)
    /\ UNCHANGED <<auth, tenancy>>
-----------------------------------------------------------------------------
Init ==
    /\ users = {}
    /\ creds = {}
    /\ session = [t \in Tokens |-> None]
    /\ ticket = [k \in Tickets |-> None]
    /\ age = [k \in Tickets |-> 0]
    /\ spent = [k \in Tickets |-> None]
    /\ mfa = [u \in Users |-> None]
    /\ confirmed = {}
    /\ libs = {Default}
    /\ member = [l \in AllLibraries |-> {}]
    /\ invitation = [i \in Invitations |-> None]
    /\ req = [r \in Requests |-> Idle]

Setup(r) ==
    \/ \E u \in Users : SetupBegin(r, u)
    \/ SetupSaveUser(r)
    \/ SetupSaveCredentials(r)
    \/ SetupJoin(r)

Session(r) ==
    \/ \E u \in Users : Login(r, u) \/ \E k \in Tickets : LoginTicket(r, u, k)
    \/ \E t \in Tokens : Issue(r, t) \/ RefreshRead(r, t)
    \/ RefreshRevoke(r)

SecondFactor(r) ==
    \/ \E u \in Users : TOTPConfirmRead(r, u)
    \/ TOTPConfirmSave(r)
    \/ \E k \in Tickets : VerifyTicket(r, k)
    \/ VerifyClaim(r)
    \/ VerifyRead(r)
    \/ VerifyCode(r)
    \/ \E s \in Secrets : \E c \in CodesOf(s) : VerifyRecovery(r, c)

Tenancy(r) ==
    \/ \E u \in Users, l \in Libraries : CreateLibrary(r, u, l)
    \/ CreatorJoins(r)
    \/ \E u \in Users, l \in AllLibraries : UpdateRead(r, u, l)
    \/ UpdateSave(r)
    \/ \E u \in Users, i \in Invitations : AcceptRead(r, u, i)
    \/ AcceptJoin(r)
    \/ AcceptUse(r)

(* Requests of a single statement. *)
AtOnce ==
    \/ \E t \in Tokens : Logout(t)
    \/ \E u \in Users : TOTPDisable(u) \/ \E s \in Secrets : TOTPSetup(u, s)
    \/ \E u \in Users, l \in AllLibraries :
          \/ DeleteLibrary(u, l)
          \/ \E i \in Invitations : CreateInvitation(u, l, i)

Next ==
    \/ \E r \in Requests : Setup(r) \/ Session(r) \/ SecondFactor(r) \/ Tenancy(r) \/ Refuse(r)
    \/ AtOnce
    \/ SweepOnce
    \/ Tick

Spec == Init /\ [][Next]_vars
-----------------------------------------------------------------------------
(* Shapes of the tables, and the order the setup wizard writes them in     *)
(* (auth_handlers.go:185-203): credentials belong to a user that exists,   *)
(* a session to one that can log in.                                       *)
TypeOK ==
    /\ creds \subseteq users /\ users \subseteq Users
    /\ session \in [Tokens -> SessionRow \cup {None}]
    /\ SignedIn \subseteq creds
    /\ ticket \in [Tickets -> creds \cup {None}]
    /\ age \in [Tickets -> 0..Horizon]
    /\ spent \in [Tickets -> 0..Horizon \cup {None}]
    /\ mfa \in [Users -> MfaRow \cup {None}]
    /\ confirmed \subseteq Secrets
    /\ libs \subseteq AllLibraries /\ Default \in libs
    /\ member \in [AllLibraries -> SUBSET users]
    /\ invitation \in [Invitations -> InvitationRow \cup {None}]
    /\ DOMAIN req = Requests

(* A revoked refresh token never becomes usable again, whatever refresh    *)
(* had read it before it was revoked: the saves of RefreshHandler and      *)
(* LogoutHandler only ever set revoked_at (auth_handlers.go:417-443).      *)
RevokedStaysRevoked ==
    [][\A t \in Tokens : session[t] # None /\ session[t].status = "revoked"
                            => session'[t] = session[t]]_vars

(* A ticket yields one session at the most, however many requests present  *)
(* it at once, and also when the sweep has forgotten its claim             *)
(* (mfa_ticket_jti_repository.go:24, network_sweep.go:90-97).              *)
OneSessionPerTicket ==
    \A s, t \in Tokens :
        /\ session[s] # None /\ session[t] # None
        /\ session[s].by = session[t].by /\ session[s].by \in Tickets
        => s = t

(* The second factor is only ever on for a secret its owner has shown to   *)
(* work, also when a new enrolment replaces the row between the check of   *)
(* the code and the save (auth_handlers.go:697-717).                       *)
EnabledSecretWasConfirmed ==
    \A u \in Users : mfa[u] # None /\ mfa[u].enabled => mfa[u].secret \in confirmed

(* The recovery codes in a row are those generated with the secret in it,  *)
(* also when the use of a code overwrites a later enrolment                *)
(* (auth_handlers.go:832-839).                                             *)
CodesBelongToSecret ==
    \A u \in Users : mfa[u] # None => mfa[u].codes \subseteq CodesOf(mfa[u].secret)

(* No membership and no invitation outlives its library, whatever accept   *)
(* or create request was under way when it was deleted                     *)
(* (library_handlers.go:116-119 and 398-418).                              *)
NothingOfADeletedLibrary ==
    /\ \A l \in AllLibraries \ libs : member[l] = {}
    /\ \A i \in Invitations : invitation[i] # None => invitation[i].lib \in libs

(* The tickets that no request can claim any more: claimed, or so old that *)
(* the claim may be forgotten again.                                       *)
Burned == {k \in Tickets : spent[k] # None \/ age[k] >= ClaimTTL}

(* What a request holds at each of its steps: the rows it has read, which  *)
(* may be stale but are rows that were in the table, the ticket it is      *)
(* about to claim, which was valid no longer ago than Stall, and the one   *)
(* it has claimed, which no other request and no session has.              *)
HoldsWhatItRead(r) ==
    LET q == req[r] IN
    /\ q.at \in {"user", "creds"} => q.user \in Users
    /\ q.at = "creds" => q.user \in users
    /\ q.at \notin {"idle", "user", "creds"} => q.user \in creds
    /\ q.at = "rotate" => q.row \in Tokens /\ session[q.row] # None
    /\ q.at \in {"confirm", "factor"} =>
          q.row \in MfaRow /\ q.row.secret \in confirmed /\ q.row.codes \subseteq CodesOf(q.row.secret)
    /\ q.at \in {"creator", "update"} => q.key \in AllLibraries
    /\ q.at \in {"accept", "accepted"} => q.key \in Invitations /\ q.row \in InvitationRow
    /\ q.at \in {"user", "creds", "join", "rotate"} => q.key = None
    /\ q.at = "claim" =>
          q.key \in Tickets /\ q.row \in 0..Horizon /\ q.row < TicketTTL /\ age[q.key] <= q.row + Stall
    /\ q.at \in {"read", "factor", "issue"} =>
          \/ q.at = "issue" /\ q.key = None
          \/ /\ q.key \in Burned
             /\ \A t \in Tokens : session[t] # None => session[t].by # q.key
             /\ \A o \in Requests \ {r} :
                   req[o].at \in {"read", "factor", "issue"} => req[o].key # q.key

(* The invariant every statement keeps.  Besides the properties above: a   *)
(* session's ticket can be claimed by nobody any more, although the sweep  *)
(* may have deleted its claim, and two sessions have two tickets           *)
(* (auth_handlers.go, the handlers of login, refresh and the second        *)
(* factor; library_handlers.go; network_sweep.go:90-97).                   *)
AccountsInvariant ==
    /\ TypeOK
    /\ \A r \in Requests : HoldsWhatItRead(r)
    /\ \A t \in Tokens : session[t] # None /\ session[t].by # None =>
          /\ session[t].by \in Burned
          /\ \A s \in Tokens \ {t} : session[s] # None => session[s].by # session[t].by
    /\ EnabledSecretWasConfirmed
    /\ CodesBelongToSecret
    /\ NothingOfADeletedLibrary

=============================================================================
