---------------------------- MODULE PairingProofs ----------------------------
(* Proofs of the safety of device pairing for every number of sessions,       *)
(* devices and users and every choice of the times, as far as the named       *)
(* assumption of Pairing relates them.                                        *)
EXTENDS Pairing, TLAPS

(* The states after a step, variable by variable: what setting one column of  *)
(* one row leaves alone.                                                      *)

LEMMA SessionMoves ==
    ASSUME session \in [Sessions -> SessionRow], NEW s \in Sessions, NEW x \in SessionState,
           NEW f, f = [session EXCEPT ![s].state = x]
    PROVE  /\ f \in [Sessions -> SessionRow]
           /\ f[s].state = x
           /\ \A t \in Sessions : /\ f[t].expires = session[t].expires
                                  /\ t # s => f[t].state = session[t].state
  BY DEF SessionRow, SessionState

LEMMA SessionExpires ==
    ASSUME session \in [Sessions -> SessionRow], NEW s \in Sessions, session[s].state # "unborn",
           session' = [session EXCEPT ![s].state = "expired"]
    PROVE  /\ session' \in [Sessions -> SessionRow]
           /\ \A t \in Sessions :
                 /\ session'[t].expires = session[t].expires
                 /\ \/ session'[t].state = session[t].state
                    \/ session'[t].state = "expired" /\ session[t].state # "unborn"
<1>1. "expired" \in SessionState
  BY DEF SessionState
<1>2. /\ session' \in [Sessions -> SessionRow]
      /\ session'[s].state = "expired"
      /\ \A t \in Sessions : /\ session'[t].expires = session[t].expires
                             /\ t # s => session'[t].state = session[t].state
  BY <1>1, SessionMoves
<1> QED
  BY <1>2

LEMMA VerifyMoves ==
    ASSUME verify \in [Verifies -> VerifyRequest], NEW v \in Verifies,
           NEW x \in {"enrolled", "granted", "lost", "refused"},
           NEW f, f = [verify EXCEPT ![v].pc = x]
    PROVE  /\ f \in [Verifies -> VerifyRequest]
           /\ f[v].pc = x
           /\ \A w \in Verifies : /\ f[w].session = verify[w].session
                                  /\ f[w].at = verify[w].at
                                  /\ w # v => f[w].pc = verify[w].pc
  BY DEF VerifyRequest

LEMMA LoginMoves ==
    ASSUME login \in [Users -> LoginRequest], NEW u \in Users,
           NEW x \in {"claimed", "owner", "refused", "ignored"},
           NEW f, f = [login EXCEPT ![u].pc = x]
    PROVE  /\ f \in [Users -> LoginRequest]
           /\ f[u].pc = x
           /\ \A t \in Users : /\ f[t].grant = login[t].grant
                               /\ f[t].at = login[t].at
                               /\ t # u => f[t].pc = login[t].pc
  BY DEF LoginRequest

LEMMA RowRevoked ==
    ASSUME NEW r \in DeviceRow, NEW q, q = [r EXCEPT !.revoked = TRUE]
    PROVE  /\ q \in DeviceRow
           /\ q.exists = r.exists /\ q.session = r.session /\ q.created = r.created
           /\ q.owner = r.owner /\ q.revoked = TRUE
  BY Zenon DEF DeviceRow

LEMMA RowOwned ==
    ASSUME NEW r \in DeviceRow, NEW u \in Users, NEW q, q = [r EXCEPT !.owner = u]
    PROVE  /\ q \in DeviceRow
           /\ q.exists = r.exists /\ q.session = r.session /\ q.created = r.created
           /\ q.owner = u /\ q.revoked = r.revoked
  BY DEF DeviceRow

LEMMA RowCut ==
    ASSUME NEW r \in DeviceRow, NEW q, q = [r EXCEPT !.session = None]
    PROVE  /\ q \in DeviceRow
           /\ q.exists = r.exists /\ q.session = None /\ q.created = r.created
           /\ q.owner = r.owner /\ q.revoked = r.revoked
  BY DEF DeviceRow

LEMMA NoRow ==
    /\ NoDevice \in DeviceRow
    /\ ~NoDevice.exists /\ ~NoDevice.revoked
  BY PairingAssumption DEF NoDevice, DeviceRow, Time
-----------------------------------------------------------------------------
(* The initial state, and one lemma for each action.                          *)

LEMMA InitKeeps == Init => PairingInvariant
<1> SUFFICES ASSUME Init PROVE PairingInvariant
  OBVIOUS
<1> USE PairingAssumption DEF Init
<1>1. TypeOK
  BY NoRow DEF TypeOK, Time, SessionState, SessionRow, VerifyRequest, LoginRequest
<1>2. ClockIsAhead
  BY DEF ClockIsAhead
<1>3. CodesAreOfSessions
  BY DEF CodesAreOfSessions
<1>4. OneEnrolmentPerCode
  BY Zenon DEF OneEnrolmentPerCode, Enrolled
<1>5. DevicesAreEnrolled
  BY NoRow DEF DevicesAreEnrolled
<1>6. ClaimsAreRecorded
  BY DEF ClaimsAreRecorded, Claimants
<1>7. SingleUseGrant
  BY DEF SingleUseGrant, Claimants
<1>8. RowOutlivesGrant
  BY DEF RowOutlivesGrant
<1> QED
  BY <1>1, <1>2, <1>3, <1>4, <1>5, <1>6, <1>7, <1>8 DEF PairingInvariant

LEMMA TickKeeps ==
    ASSUME PairingInvariant, Tick
    PROVE  PairingInvariant'
<1> USE PairingAssumption DEF PairingInvariant, Tick
<1>1. TypeOK'
  BY DEF TypeOK, Time
<1>2. ClockIsAhead'
  BY SMTT(30) DEF ClockIsAhead, TypeOK, Time, InFlight, VerifyRequest, LoginRequest
<1>3. (CodesAreOfSessions /\ OneEnrolmentPerCode /\ DevicesAreEnrolled /\ SingleUseGrant)'
  BY DEF CodesAreOfSessions, OneEnrolmentPerCode, Enrolled, DevicesAreEnrolled, SingleUseGrant, Claimants
<1>4. ClaimsAreRecorded'
  BY DEF ClaimsAreRecorded, Claimants, GrantLives, TypeOK, Time, VerifyRequest
<1>5. RowOutlivesGrant'
  BY DEF RowOutlivesGrant, TypeOK, Time, Provisional, VerifyRequest
<1> QED
  BY <1>1, <1>2, <1>3, <1>4, <1>5

LEMMA InitiatePairingKeeps ==
    ASSUME PairingInvariant, NEW s \in Sessions, InitiatePairing(s)
    PROVE  PairingInvariant'
<1> USE PairingAssumption DEF PairingInvariant, InitiatePairing
<1>1. /\ session' \in [Sessions -> SessionRow]
      /\ session'[s].state = "pending"
      /\ \A t \in Sessions \ {s} : session'[t] = session[t]
  BY DEF TypeOK, Time, SessionRow, SessionState
<1>2. \A v \in Verifies : verify[v].session = s => verify[v].pc = "idle"
  BY DEF CodesAreOfSessions
<1>3. TypeOK'
  <2>1. (session \in [Sessions -> SessionRow])'
    BY <1>1
  <2> QED
    BY <2>1 DEF TypeOK
<1>4. CodesAreOfSessions'
  BY <1>1 DEF CodesAreOfSessions
<1>5. OneEnrolmentPerCode'
  <2> SUFFICES ASSUME NEW t \in Sessions
               PROVE  /\ \A v, w \in Enrolled(t) : v = w
                      /\ session'[t].state = "pending" => Enrolled(t) = {}
                      /\ session'[t].state = "consumed" => Enrolled(t) # {}
    BY DEF OneEnrolmentPerCode, Enrolled
  <2>1. CASE t = s
    BY <2>1, <1>1, <1>2 DEF Enrolled
  <2>2. CASE t # s
    BY <2>2, <1>1 DEF OneEnrolmentPerCode
  <2> QED
    BY <2>1, <2>2
<1>6. DevicesAreEnrolled'
  BY <1>1, <1>2 DEF DevicesAreEnrolled, CodesAreOfSessions
<1>7. (ClockIsAhead /\ ClaimsAreRecorded /\ SingleUseGrant /\ RowOutlivesGrant)'
  BY DEF ClockIsAhead, ClaimsAreRecorded, SingleUseGrant, RowOutlivesGrant, Claimants, GrantLives, Provisional
<1> QED
  BY <1>3, <1>4, <1>5, <1>6, <1>7

LEMMA FindForDeleteKeeps ==
    ASSUME PairingInvariant, NEW s \in Sessions, FindForDelete(s)
    PROVE  PairingInvariant'
<1> USE PairingAssumption DEF PairingInvariant, FindForDelete
<1>1. TypeOK'
  <2>1. (delete \in [Sessions -> {"idle", "pending", "consumed"}])'
    BY DEF TypeOK, SessionRow, SessionState
  <2> QED
    BY <2>1 DEF TypeOK
<1>2. CodesAreOfSessions'
  BY DEF CodesAreOfSessions, TypeOK, SessionState
<1>3. (ClockIsAhead /\ OneEnrolmentPerCode /\ DevicesAreEnrolled /\ ClaimsAreRecorded /\ SingleUseGrant /\ RowOutlivesGrant)'
  BY DEF ClockIsAhead, OneEnrolmentPerCode, DevicesAreEnrolled, ClaimsAreRecorded, SingleUseGrant, RowOutlivesGrant, Enrolled, Claimants, GrantLives, Provisional
<1> QED
  BY <1>1, <1>2, <1>3

LEMMA DeletePairingKeeps ==
    ASSUME PairingInvariant, NEW s \in Sessions, DeletePairing(s)
    PROVE  PairingInvariant'
<1> USE PairingAssumption DEF PairingInvariant, DeletePairing, RevokeByPairingSessionID
<1>1. /\ session' \in [Sessions -> SessionRow]
      /\ \A t \in Sessions :
            /\ session'[t].expires = session[t].expires
            /\ \/ session'[t].state = session[t].state
               \/ session'[t].state = "expired" /\ session[t].state # "unborn"
  <2>1. CASE UNCHANGED session
    BY <2>1 DEF TypeOK
  <2>2. CASE session' = [session EXCEPT ![s].state = "expired"]
    <3>1. session \in [Sessions -> SessionRow] /\ session[s].state # "unborn"
      BY DEF TypeOK, CodesAreOfSessions
    <3> QED
      BY <2>2, <3>1, SessionExpires, Zenon
  <2> QED
    BY <2>1, <2>2
<1>2. /\ device' \in [Verifies -> DeviceRow]
      /\ \A v \in Verifies : /\ device'[v].exists = device[v].exists
                             /\ device'[v].session = device[v].session
                             /\ device'[v].created = device[v].created
                             /\ device'[v].owner = device[v].owner
  <2>1. CASE UNCHANGED device
    BY <2>1 DEF TypeOK
  <2>2. CASE RevokeByPairingSessionID(s)
    <3>1. ASSUME NEW v \in Verifies
          PROVE  /\ device'[v] \in DeviceRow
                 /\ device'[v].exists = device[v].exists
                 /\ device'[v].session = device[v].session
                 /\ device'[v].created = device[v].created
                 /\ device'[v].owner = device[v].owner
      <4>1. device[v] \in DeviceRow
        BY DEF TypeOK
      <4> PICK q : q = [device[v] EXCEPT !.revoked = TRUE]
        BY Zenon
      <4>2. /\ q \in DeviceRow
            /\ q.exists = device[v].exists /\ q.session = device[v].session
            /\ q.created = device[v].created /\ q.owner = device[v].owner
        BY <4>1, RowRevoked, Zenon
      <4>3. CASE device[v].exists /\ device[v].session = s
        <5>1. device'[v] = q
          BY <2>2, <4>3
        <5> QED
          BY <4>2, <4>3, <5>1, Zenon
      <4>4. CASE ~(device[v].exists /\ device[v].session = s)
        <5>1. device'[v] = device[v]
          BY <2>2, <4>4
        <5> QED
          BY <4>1, <5>1
      <4> QED
        BY <4>3, <4>4
    <3>2. device' = [v \in Verifies |-> device'[v]]
      BY <2>2
    <3> QED
      BY <3>1, <3>2
  <2> QED
    BY <2>1, <2>2
<1>3. \A v \in Verifies : device'[v].revoked => device'[v].exists
  <2>1. CASE UNCHANGED device
    BY <2>1 DEF DevicesAreEnrolled
  <2>2. CASE RevokeByPairingSessionID(s)
    <3> SUFFICES ASSUME NEW v \in Verifies, ~device[v].exists
                 PROVE  ~device'[v].revoked
      BY <1>2
    <3>1. device'[v] = device[v]
      BY <2>2
    <3> QED
      BY <3>1 DEF DevicesAreEnrolled
  <2> QED
    BY <2>1, <2>2
<1>4. TypeOK'
  <2>1. (session \in [Sessions -> SessionRow])'
    BY <1>1
  <2>2. (device \in [Verifies -> DeviceRow])'
    BY <1>2
  <2>3. (delete \in [Sessions -> {"idle", "pending", "consumed"}])'
    BY DEF TypeOK, SessionRow, SessionState
  <2> QED
    BY <2>1, <2>2, <2>3 DEF TypeOK
<1>5. CodesAreOfSessions'
  <2>1. \A t \in Sessions : delete'[t] # "idle" => delete[t] # "idle"
    BY DEF TypeOK
  <2>2. \A t \in Sessions : session[t].state # "unborn" => session'[t].state # "unborn"
    BY <1>1
  <2> QED
    BY <2>1, <2>2 DEF CodesAreOfSessions
<1>6. OneEnrolmentPerCode'
  <2> SUFFICES ASSUME NEW t \in Sessions
               PROVE  /\ \A v, w \in Enrolled(t) : v = w
                      /\ session'[t].state = "pending" => Enrolled(t) = {}
                      /\ session'[t].state = "consumed" => Enrolled(t) # {}
    BY DEF OneEnrolmentPerCode, Enrolled
  <2> QED
    BY <1>1 DEF OneEnrolmentPerCode
<1>7. DevicesAreEnrolled'
  <2> SUFFICES ASSUME NEW v \in Verifies, device[v].exists
               PROVE  /\ verify[v].pc \in {"enrolled", "granted", "lost"}
                      /\ device[v].created = verify[v].at
                      /\ device[v].session # None =>
                            /\ device[v].session = verify[v].session
                            /\ device[v].created < session'[verify[v].session].expires
    BY <1>2, <1>3 DEF DevicesAreEnrolled
  <2> QED
    BY <1>1 DEF DevicesAreEnrolled, CodesAreOfSessions
<1>8. RowOutlivesGrant'
  <2>1. UNCHANGED <<now, spent, verify>>
    OBVIOUS
  <2> HIDE DEF DeletePairing, RevokeByPairingSessionID
  <2> QED
    BY <2>1, <1>2 DEF RowOutlivesGrant, Provisional
<1>9. (ClockIsAhead /\ ClaimsAreRecorded /\ SingleUseGrant)'
  BY DEF ClockIsAhead, ClaimsAreRecorded, SingleUseGrant, Claimants, GrantLives
<1> QED
  BY <1>4, <1>5, <1>6, <1>7, <1>8, <1>9

LEMMA DeleteFailsKeeps ==
    ASSUME PairingInvariant, NEW s \in Sessions, DeleteFails(s)
    PROVE  PairingInvariant'
<1> USE PairingAssumption DEF PairingInvariant, DeleteFails
<1>1. TypeOK'
  <2>1. (delete \in [Sessions -> {"idle", "pending", "consumed"}])'
    BY DEF TypeOK, SessionRow, SessionState
  <2> QED
    BY <2>1 DEF TypeOK
<1>2. CodesAreOfSessions'
  BY DEF CodesAreOfSessions, TypeOK, SessionState
<1>3. (ClockIsAhead /\ OneEnrolmentPerCode /\ DevicesAreEnrolled /\ ClaimsAreRecorded /\ SingleUseGrant /\ RowOutlivesGrant)'
  BY DEF ClockIsAhead, OneEnrolmentPerCode, DevicesAreEnrolled, ClaimsAreRecorded, SingleUseGrant, RowOutlivesGrant, Enrolled, Claimants, GrantLives, Provisional
<1> QED
  BY <1>1, <1>2, <1>3

LEMMA RevokeDeviceKeeps ==
    ASSUME PairingInvariant, NEW v \in Verifies, RevokeDevice(v)
    PROVE  PairingInvariant'
<1> USE PairingAssumption DEF PairingInvariant, RevokeDevice
<1>1. /\ device' \in [Verifies -> DeviceRow]
      /\ device'[v].exists = device[v].exists
      /\ device'[v].session = device[v].session
      /\ device'[v].created = device[v].created
      /\ device'[v].owner = device[v].owner
      /\ \A x \in Verifies \ {v} : device'[x] = device[x]
  <2>1. device \in [Verifies -> DeviceRow]
    BY DEF TypeOK
  <2> PICK q : q = [device[v] EXCEPT !.revoked = TRUE]
    BY Zenon
  <2>2. /\ q \in DeviceRow
        /\ q.exists = device[v].exists /\ q.session = device[v].session
        /\ q.created = device[v].created /\ q.owner = device[v].owner
    BY <2>1, RowRevoked, Zenon
  <2>3. device' = [device EXCEPT ![v] = q]
    BY Zenon
  <2> QED
    BY <2>1, <2>2, <2>3, Zenon
<1>2. TypeOK'
  <2>1. (device \in [Verifies -> DeviceRow])'
    BY <1>1
  <2> QED
    BY <2>1 DEF TypeOK
<1>3. DevicesAreEnrolled'
  BY <1>1 DEF DevicesAreEnrolled
<1>4. RowOutlivesGrant'
  BY <1>1 DEF RowOutlivesGrant, Provisional
<1>5. (ClockIsAhead /\ CodesAreOfSessions /\ OneEnrolmentPerCode /\ ClaimsAreRecorded /\ SingleUseGrant)'
  BY DEF ClockIsAhead, CodesAreOfSessions, OneEnrolmentPerCode, ClaimsAreRecorded, SingleUseGrant, Enrolled, Claimants, GrantLives
<1> QED
  BY <1>2, <1>3, <1>4, <1>5

LEMMA AskVerifyKeeps ==
    ASSUME PairingInvariant, NEW v \in Verifies, NEW s \in Sessions, AskVerify(v, s)
    PROVE  PairingInvariant'
<1> USE PairingAssumption DEF PairingInvariant, AskVerify
<1>1. TypeOK'
  <2>1. (verify \in [Verifies -> VerifyRequest])'
    BY DEF TypeOK, VerifyRequest, Time
  <2> QED
    BY <2>1 DEF TypeOK
<1>2. ClockIsAhead'
  BY DEF ClockIsAhead, TypeOK, VerifyRequest, LoginRequest, Time
<1>3. CodesAreOfSessions'
  BY DEF CodesAreOfSessions, TypeOK, SessionState
<1>4. OneEnrolmentPerCode'
  BY DEF OneEnrolmentPerCode, Enrolled, CodesAreOfSessions, TypeOK, SessionState
<1>5. DevicesAreEnrolled'
  BY DEF DevicesAreEnrolled, TypeOK, Time, SessionState, NoDevice
<1>6. ClaimsAreRecorded'
  BY DEF ClaimsAreRecorded, Claimants, GrantLives, TypeOK, VerifyRequest, LoginRequest, Time
<1>7. RowOutlivesGrant'
  BY DEF RowOutlivesGrant, Provisional, TypeOK, Time, NoDevice
<1>8. (SingleUseGrant)'
  BY DEF SingleUseGrant, Claimants
<1> QED
  BY <1>1, <1>2, <1>3, <1>4, <1>5, <1>6, <1>7, <1>8

LEMMA VerifyAndConsumeKeeps ==
    ASSUME PairingInvariant, NEW v \in Verifies, VerifyAndConsume(v)
    PROVE  PairingInvariant'
<1> USE PairingAssumption DEF PairingInvariant, VerifyAndConsume, FindPending
<1>1. TypeOK'
  <2>1. (session \in [Sessions -> SessionRow])'
    BY SessionMoves DEF TypeOK, SessionState, VerifyRequest, CodesAreOfSessions
  <2>2. (device \in [Verifies -> DeviceRow])'
    BY Zenon DEF TypeOK, DeviceRow, NoDevice, VerifyRequest
  <2>3. (verify \in [Verifies -> VerifyRequest])'
    BY VerifyMoves, SMTT(30) DEF TypeOK
  <2> QED
    BY <2>1, <2>2, <2>3 DEF TypeOK
<1>2. ClockIsAhead'
  BY DEF ClockIsAhead, TypeOK, VerifyRequest, LoginRequest, Time
<1>3. CodesAreOfSessions'
  BY DEF CodesAreOfSessions, TypeOK, SessionState
<1>4. OneEnrolmentPerCode'
  BY DEF OneEnrolmentPerCode, Enrolled, CodesAreOfSessions, TypeOK, SessionState
<1>5. DevicesAreEnrolled'
  BY DEF DevicesAreEnrolled, TypeOK, Time, SessionState, NoDevice
<1>6. ClaimsAreRecorded'
  BY DEF ClaimsAreRecorded, Claimants, GrantLives, TypeOK, VerifyRequest, LoginRequest, Time
<1>7. RowOutlivesGrant'
  BY DEF RowOutlivesGrant, Provisional, TypeOK, Time, NoDevice
<1>8. (SingleUseGrant)'
  BY DEF SingleUseGrant, Claimants
<1> QED
  BY <1>1, <1>2, <1>3, <1>4, <1>5, <1>6, <1>7, <1>8

LEMMA VerifyRefusedKeeps ==
    ASSUME PairingInvariant, NEW v \in Verifies, VerifyRefused(v)
    PROVE  PairingInvariant'
<1> USE PairingAssumption DEF PairingInvariant, VerifyRefused
<1>1. TypeOK'
  <2>1. (verify \in [Verifies -> VerifyRequest])'
    BY VerifyMoves DEF TypeOK
  <2> QED
    BY <2>1 DEF TypeOK
<1>2. ClockIsAhead'
  BY DEF ClockIsAhead, TypeOK, VerifyRequest, LoginRequest, Time
<1>3. CodesAreOfSessions'
  BY DEF CodesAreOfSessions, TypeOK, SessionState
<1>4. OneEnrolmentPerCode'
  BY DEF OneEnrolmentPerCode, Enrolled, CodesAreOfSessions, TypeOK, SessionState
<1>5. DevicesAreEnrolled'
  BY DEF DevicesAreEnrolled, TypeOK, Time, SessionState, NoDevice
<1>6. ClaimsAreRecorded'
  BY DEF ClaimsAreRecorded, Claimants, GrantLives, TypeOK, VerifyRequest, LoginRequest, Time
<1>7. RowOutlivesGrant'
  BY DEF RowOutlivesGrant, Provisional, TypeOK, Time, NoDevice
<1>8. (SingleUseGrant)'
  BY DEF SingleUseGrant, Claimants
<1> QED
  BY <1>1, <1>2, <1>3, <1>4, <1>5, <1>6, <1>7, <1>8

LEMMA SignGrantKeeps ==
    ASSUME PairingInvariant, NEW v \in Verifies, SignGrant(v)
    PROVE  PairingInvariant'
<1> USE PairingAssumption DEF PairingInvariant, SignGrant
<1>1. TypeOK'
  <2>1. (verify \in [Verifies -> VerifyRequest])'
    BY VerifyMoves DEF TypeOK
  <2> QED
    BY <2>1 DEF TypeOK
<1>2. ClockIsAhead'
  BY DEF ClockIsAhead, TypeOK, VerifyRequest, LoginRequest, Time
<1>3. CodesAreOfSessions'
  BY DEF CodesAreOfSessions, TypeOK, SessionState
<1>4. OneEnrolmentPerCode'
  BY DEF OneEnrolmentPerCode, Enrolled, CodesAreOfSessions, TypeOK, SessionState
<1>5. DevicesAreEnrolled'
  BY DEF DevicesAreEnrolled, TypeOK, Time, SessionState, NoDevice
<1>6. ClaimsAreRecorded'
  BY DEF ClaimsAreRecorded, Claimants, GrantLives, TypeOK, VerifyRequest, LoginRequest, Time
<1>7. RowOutlivesGrant'
  BY DEF RowOutlivesGrant, Provisional, TypeOK, Time, NoDevice
<1>8. (SingleUseGrant)'
  BY DEF SingleUseGrant, Claimants
<1> QED
  BY <1>1, <1>2, <1>3, <1>4, <1>5, <1>6, <1>7, <1>8

LEMMA LoseGrantKeeps ==
    ASSUME PairingInvariant, NEW v \in Verifies, LoseGrant(v)
    PROVE  PairingInvariant'
<1> USE PairingAssumption DEF PairingInvariant, LoseGrant
<1>1. TypeOK'
  <2>1. (verify \in [Verifies -> VerifyRequest])'
    BY VerifyMoves DEF TypeOK
  <2> QED
    BY <2>1 DEF TypeOK
<1>2. ClockIsAhead'
  BY DEF ClockIsAhead, TypeOK, VerifyRequest, LoginRequest, Time
<1>3. CodesAreOfSessions'
  BY DEF CodesAreOfSessions, TypeOK, SessionState
<1>4. OneEnrolmentPerCode'
  BY DEF OneEnrolmentPerCode, Enrolled, CodesAreOfSessions, TypeOK, SessionState
<1>5. DevicesAreEnrolled'
  BY DEF DevicesAreEnrolled, TypeOK, Time, SessionState, NoDevice
<1>6. ClaimsAreRecorded'
  BY DEF ClaimsAreRecorded, Claimants, GrantLives, TypeOK, VerifyRequest, LoginRequest, Time
<1>7. RowOutlivesGrant'
  BY DEF RowOutlivesGrant, Provisional, TypeOK, Time, NoDevice
<1>8. (SingleUseGrant)'
  BY DEF SingleUseGrant, Claimants
<1> QED
  BY <1>1, <1>2, <1>3, <1>4, <1>5, <1>6, <1>7, <1>8

LEMMA LoginKeeps ==
    ASSUME PairingInvariant, NEW u \in Users, NEW v \in Verifies, Login(u, v)
    PROVE  PairingInvariant'
<1> USE PairingAssumption DEF PairingInvariant, Login, GrantLives
<1>1. /\ login' \in [Users -> LoginRequest]
      /\ login'[u].pc = "verified" /\ login'[u].grant = v /\ login'[u].at = now
      /\ login[u].pc = "idle"
      /\ \A t \in Users \ {u} : login'[t] = login[t]
  BY DEF TypeOK, LoginRequest, Time
<1>2. \A w \in Verifies : Claimants(w)' = Claimants(w)
  BY <1>1 DEF Claimants
<1>3. TypeOK'
  <2>1. (login \in [Users -> LoginRequest])'
    BY <1>1
  <2> QED
    BY <2>1 DEF TypeOK
<1>4. ClockIsAhead'
  BY <1>1 DEF ClockIsAhead, TypeOK, Time
<1>5. ClaimsAreRecorded'
  <2>1. verify[v].at <= now
    BY DEF ClockIsAhead
  <2> QED
    BY <2>1, <1>1, <1>2 DEF ClaimsAreRecorded, GrantLives
<1>6. SingleUseGrant'
  BY <1>2 DEF SingleUseGrant
<1>7. (CodesAreOfSessions /\ OneEnrolmentPerCode /\ DevicesAreEnrolled /\ RowOutlivesGrant)'
  BY DEF CodesAreOfSessions, OneEnrolmentPerCode, DevicesAreEnrolled, RowOutlivesGrant, Enrolled, Provisional
<1> QED
  BY <1>3, <1>4, <1>5, <1>6, <1>7

LEMMA ClaimKeeps ==
    ASSUME PairingInvariant, NEW u \in Users, Claim(u)
    PROVE  PairingInvariant'
<1> USE PairingAssumption DEF PairingInvariant, Claim
<1>1. /\ login[u].grant \in Verifies
      /\ verify[login[u].grant].at <= login[u].at
      /\ GrantLives(login[u].grant, login[u].at)
      /\ now <= login[u].at + Stall
  BY DEF ClaimsAreRecorded, ClockIsAhead
<1>2. TypeOK'
  <2>1. (spent \in [Verifies -> Time \cup {None}])'
    BY <1>1 DEF TypeOK, LoginRequest
  <2>2. (login \in [Users -> LoginRequest])'
    BY LoginMoves DEF TypeOK
  <2> QED
    BY <2>1, <2>2 DEF TypeOK
<1>3. ClockIsAhead'
  <2>1. \A t \in Users : /\ login'[t].at = login[t].at
                         /\ login'[t].pc \in {"verified", "claimed"} => login[t].pc \in {"verified", "claimed"}
    BY LoginMoves DEF TypeOK
  <2> QED
    BY <2>1 DEF ClockIsAhead
<1>4. ClaimsAreRecorded'
  <2>1. CASE spent[login[u].grant] = None
    <3> DEFINE g == login[u].grant
    <3>1. /\ login'[u].pc = "claimed"
          /\ \A t \in Users : /\ login'[t].grant = login[t].grant /\ login'[t].at = login[t].at
                              /\ t # u => login'[t].pc = login[t].pc
      BY <2>1, LoginMoves DEF TypeOK
    <3>2. /\ spent'[g] = login[u].at
          /\ \A w \in Verifies \ {g} : spent'[w] = spent[w]
      BY <2>1, <1>1 DEF TypeOK
    <3>3. login[u].at # None
      BY PairingAssumption DEF TypeOK, LoginRequest, Time
    <3>4. \A t \in Users : login[t].pc = "claimed" => login[t].grant # g
      BY <2>1, PairingAssumption DEF ClaimsAreRecorded, TypeOK, LoginRequest, Time
    <3>5. \A w \in Verifies \ {g} : Claimants(w)' = Claimants(w)
      BY <3>1 DEF Claimants
    <3> QED
      BY <3>1, <3>2, <3>3, <3>4, <3>5, <1>1 DEF ClaimsAreRecorded, GrantLives
  <2>2. CASE spent[login[u].grant] # None
    <3>1. /\ login'[u].pc = "ignored" /\ UNCHANGED spent
          /\ \A t \in Users : /\ login'[t].grant = login[t].grant /\ login'[t].at = login[t].at
                              /\ t # u => login'[t].pc = login[t].pc
      BY <2>2, LoginMoves DEF TypeOK
    <3>2. \A w \in Verifies : Claimants(w)' = Claimants(w)
      BY <3>1 DEF Claimants
    <3> QED
      BY <3>1, <3>2 DEF ClaimsAreRecorded, GrantLives
  <2> QED
    BY <2>1, <2>2
<1>5. SingleUseGrant'
  <2>1. CASE spent[login[u].grant] = None
    <3> PICK g : g = login[u].grant
      OBVIOUS
    <3>1. /\ login'[u].pc = "claimed"
          /\ \A t \in Users : /\ login'[t].grant = login[t].grant
                              /\ t # u => login'[t].pc = login[t].pc
      BY <2>1, LoginMoves DEF TypeOK
    <3>2. Claimants(g) = {}
      BY <2>1, <1>1 DEF ClaimsAreRecorded, GrantLives, TypeOK, VerifyRequest, LoginRequest, Time
    <3>3. Claimants(g)' = {u}
      BY <3>1, <3>2 DEF Claimants
    <3>4. \A w \in Verifies \ {g} : Claimants(w)' = Claimants(w)
      BY <3>1 DEF Claimants
    <3>5. ASSUME NEW w \in Verifies, NEW t \in Claimants(w)', NEW x \in Claimants(w)'
          PROVE  t = x
      <4>1. CASE w = g
        BY <3>3, <4>1
      <4>2. CASE w # g
        BY <3>4, <4>2 DEF SingleUseGrant
      <4> QED
        BY <4>1, <4>2
    <3> QED
      BY <3>5 DEF SingleUseGrant
  <2>2. CASE spent[login[u].grant] # None
    <3>1. /\ login'[u].pc = "ignored"
          /\ \A t \in Users : /\ login'[t].grant = login[t].grant
                              /\ t # u => login'[t].pc = login[t].pc
      BY <2>2, LoginMoves DEF TypeOK
    <3>2. \A w \in Verifies : Claimants(w)' = Claimants(w)
      BY <3>1 DEF Claimants
    <3> QED
      BY <3>2 DEF SingleUseGrant
  <2> QED
    BY <2>1, <2>2
<1>6. RowOutlivesGrant'
  <2>1. \A w \in Verifies : spent'[w] = None => spent[w] = None
    BY <1>1, PairingAssumption DEF TypeOK, LoginRequest
  <2> QED
    BY <2>1 DEF RowOutlivesGrant, Provisional
<1>7. (CodesAreOfSessions /\ OneEnrolmentPerCode /\ DevicesAreEnrolled)'
  BY DEF CodesAreOfSessions, OneEnrolmentPerCode, DevicesAreEnrolled, Enrolled
<1> QED
  BY <1>2, <1>3, <1>4, <1>5, <1>6, <1>7

LEMMA AssignOwnerKeeps ==
    ASSUME PairingInvariant, NEW u \in Users, AssignOwner(u)
    PROVE  PairingInvariant'
<1> USE PairingAssumption DEF PairingInvariant, AssignOwner, Assignable, Provisional
<1>1. /\ login' \in [Users -> LoginRequest]
      /\ login[u].pc = "claimed" /\ login'[u].pc \in {"owner", "refused"}
      /\ \A t \in Users : /\ login'[t].grant = login[t].grant /\ login'[t].at = login[t].at
                          /\ t # u => login'[t].pc = login[t].pc
  BY LoginMoves DEF TypeOK
<1>2. \A w \in Verifies : Claimants(w)' = Claimants(w)
  BY <1>1 DEF Claimants
<1>3. \/ UNCHANGED device
      \/ \E w \in Verifies :
            /\ Assignable(w, verify[login[u].grant].session)
            /\ device' \in [Verifies -> DeviceRow]
            /\ device'[w].exists = device[w].exists
            /\ device'[w].session = device[w].session
            /\ device'[w].created = device[w].created
            /\ device'[w].revoked = device[w].revoked
            /\ \A x \in Verifies \ {w} : device'[x] = device[x]
  <2>1. ASSUME NEW w \in Verifies, device' = [device EXCEPT ![w].owner = u]
        PROVE  /\ device' \in [Verifies -> DeviceRow]
               /\ device'[w].exists = device[w].exists
               /\ device'[w].session = device[w].session
               /\ device'[w].created = device[w].created
               /\ device'[w].revoked = device[w].revoked
               /\ \A x \in Verifies \ {w} : device'[x] = device[x]
    <3>1. device \in [Verifies -> DeviceRow]
      BY DEF TypeOK
    <3> PICK q : q = [device[w] EXCEPT !.owner = u]
      BY Zenon
    <3>2. /\ q \in DeviceRow
          /\ q.exists = device[w].exists /\ q.session = device[w].session
          /\ q.created = device[w].created /\ q.revoked = device[w].revoked
      BY <3>1, RowOwned
    <3>3. device' = [device EXCEPT ![w] = q]
      BY <2>1
    <3> QED
      BY <3>1, <3>2, <3>3
  <2> QED
    BY <2>1
<1>4. TypeOK'
  <2>1. (device \in [Verifies -> DeviceRow])'
    BY <1>3 DEF TypeOK
  <2>2. (login \in [Users -> LoginRequest])'
    BY <1>1
  <2> QED
    BY <2>1, <2>2 DEF TypeOK
<1>5. ClockIsAhead'
  BY <1>1 DEF ClockIsAhead
<1>6. DevicesAreEnrolled'
  BY <1>3 DEF DevicesAreEnrolled
<1>7. ClaimsAreRecorded'
  BY <1>1, <1>2 DEF ClaimsAreRecorded, GrantLives
<1>8. SingleUseGrant'
  BY <1>2 DEF SingleUseGrant
<1>9. RowOutlivesGrant'
  <2>1. /\ login[u].grant \in Verifies
        /\ verify[login[u].grant].pc = "granted"
        /\ spent[login[u].grant] # None
        /\ verify[login[u].grant].session \in Sessions
    BY PairingAssumption DEF ClaimsAreRecorded, GrantLives, CodesAreOfSessions, TypeOK, LoginRequest, Time
  <2>2. ASSUME NEW w \in Verifies, Assignable(w, verify[login[u].grant].session)
        PROVE  w = login[u].grant
    <3>1. /\ verify[w].pc \in {"enrolled", "granted", "lost"}
          /\ verify[w].session = verify[login[u].grant].session
      BY <2>1, <2>2, PairingAssumption DEF DevicesAreEnrolled
    <3> QED
      BY <2>1, <3>1 DEF OneEnrolmentPerCode, Enrolled
  <2> QED
    BY <2>1, <2>2, <1>3 DEF RowOutlivesGrant, Provisional
<1>10. (CodesAreOfSessions /\ OneEnrolmentPerCode)'
  BY DEF CodesAreOfSessions, OneEnrolmentPerCode, Enrolled
<1> QED
  BY <1>4, <1>5, <1>6, <1>7, <1>8, <1>9, <1>10

LEMMA LoginLosesGrantKeeps ==
    ASSUME PairingInvariant, NEW u \in Users, LoginLosesGrant(u)
    PROVE  PairingInvariant'
<1> USE PairingAssumption DEF PairingInvariant, LoginLosesGrant
<1>1. /\ login' \in [Users -> LoginRequest]
      /\ \/ login[u].pc = "verified" /\ login'[u].pc = "ignored"
         \/ login[u].pc = "claimed" /\ login'[u].pc = "refused"
      /\ \A t \in Users : /\ login'[t].grant = login[t].grant /\ login'[t].at = login[t].at
                          /\ t # u => login'[t].pc = login[t].pc
  BY LoginMoves DEF TypeOK
<1>2. \A w \in Verifies : Claimants(w)' = Claimants(w)
  BY <1>1 DEF Claimants
<1>3. TypeOK'
  <2>1. (login \in [Users -> LoginRequest])'
    BY <1>1
  <2> QED
    BY <2>1 DEF TypeOK
<1>4. ClockIsAhead'
  BY <1>1 DEF ClockIsAhead
<1>5. ClaimsAreRecorded'
  BY <1>1, <1>2 DEF ClaimsAreRecorded, GrantLives
<1>6. SingleUseGrant'
  BY <1>2 DEF SingleUseGrant
<1>7. (CodesAreOfSessions /\ OneEnrolmentPerCode /\ DevicesAreEnrolled /\ RowOutlivesGrant)'
  BY DEF CodesAreOfSessions, OneEnrolmentPerCode, DevicesAreEnrolled, RowOutlivesGrant, Enrolled, Provisional
<1> QED
  BY <1>3, <1>4, <1>5, <1>6, <1>7

LEMMA SweepTickKeeps ==
    ASSUME PairingInvariant, SweepTick
    PROVE  PairingInvariant'
<1> USE PairingAssumption DEF PairingInvariant, SweepTick
<1>1. TypeOK'
  <2>1. (sweep \in [step : 0..4, at : Time])'
    BY DEF TypeOK
  <2> QED
    BY <2>1 DEF TypeOK
<1>2. ClockIsAhead'
  BY DEF ClockIsAhead, TypeOK, VerifyRequest, LoginRequest, Time
<1>3. (CodesAreOfSessions /\ OneEnrolmentPerCode /\ DevicesAreEnrolled /\ ClaimsAreRecorded /\ SingleUseGrant /\ RowOutlivesGrant)'
  BY DEF CodesAreOfSessions, OneEnrolmentPerCode, DevicesAreEnrolled, ClaimsAreRecorded, SingleUseGrant, RowOutlivesGrant, Enrolled, Claimants, GrantLives, Provisional
<1> QED
  BY <1>1, <1>2, <1>3

LEMMA SweepExpireStaleSessionsKeeps ==
    ASSUME PairingInvariant, SweepExpireStaleSessions
    PROVE  PairingInvariant'
<1> USE PairingAssumption DEF PairingInvariant, SweepExpireStaleSessions
<1>1. /\ session' \in [Sessions -> SessionRow]
      /\ \A t \in Sessions :
            /\ session'[t].expires = session[t].expires
            /\ \/ session'[t].state = session[t].state
               \/ session'[t].state = "expired" /\ session[t].state = "pending"
  BY DEF TypeOK, SessionRow, SessionState
<1>2. TypeOK'
  <2>1. (session \in [Sessions -> SessionRow])'
    BY <1>1
  <2>2. (sweep \in [step : 0..4, at : Time])'
    BY DEF TypeOK
  <2> QED
    BY <2>1, <2>2 DEF TypeOK
<1>3. ClockIsAhead'
  BY DEF ClockIsAhead, TypeOK, VerifyRequest, LoginRequest, Time
<1>4. CodesAreOfSessions'
  BY <1>1 DEF CodesAreOfSessions
<1>5. OneEnrolmentPerCode'
  <2> SUFFICES ASSUME NEW t \in Sessions
               PROVE  /\ \A v, w \in Enrolled(t) : v = w
                      /\ session'[t].state = "pending" => Enrolled(t) = {}
                      /\ session'[t].state = "consumed" => Enrolled(t) # {}
    BY DEF OneEnrolmentPerCode, Enrolled
  <2> QED
    BY <1>1 DEF OneEnrolmentPerCode
<1>6. DevicesAreEnrolled'
  BY <1>1 DEF DevicesAreEnrolled, CodesAreOfSessions
<1>7. (ClaimsAreRecorded /\ SingleUseGrant /\ RowOutlivesGrant)'
  BY DEF ClaimsAreRecorded, SingleUseGrant, RowOutlivesGrant, Claimants, GrantLives, Provisional
<1> QED
  BY <1>2, <1>3, <1>4, <1>5, <1>6, <1>7

LEMMA SweepDeleteTerminalSessionsKeeps ==
    ASSUME PairingInvariant, SweepDeleteTerminalSessions
    PROVE  PairingInvariant'
<1> USE PairingAssumption DEF PairingInvariant, SweepDeleteTerminalSessions, Retired
<1>1. /\ session' \in [Sessions -> SessionRow]
      /\ \A t \in Sessions :
            /\ session'[t].expires = session[t].expires
            /\ \/ session'[t].state = session[t].state
               \/ session'[t].state = "gone" /\ session[t].state # "unborn"
  BY DEF TypeOK, SessionRow, SessionState, Terminal
<1>2. /\ device' \in [Verifies -> DeviceRow]
      /\ \A v \in Verifies : /\ device'[v].exists = device[v].exists
                             /\ device'[v].created = device[v].created
                             /\ device'[v].owner = device[v].owner
                             /\ device'[v].revoked = device[v].revoked
                             /\ \/ device'[v].session = device[v].session
                                \/ /\ device'[v].session = None
                                   /\ device[v].session # None /\ Retired(device[v].session)
  <2>1. ASSUME NEW v \in Verifies
        PROVE  /\ device'[v] \in DeviceRow
               /\ device'[v].exists = device[v].exists
               /\ device'[v].created = device[v].created
               /\ device'[v].owner = device[v].owner
               /\ device'[v].revoked = device[v].revoked
               /\ \/ device'[v].session = device[v].session
                  \/ /\ device'[v].session = None
                     /\ device[v].session # None /\ Retired(device[v].session)
    <3>1. device[v] \in DeviceRow
      BY DEF TypeOK
    <3> PICK q : q = [device[v] EXCEPT !.session = None]
      BY Zenon
    <3>2. /\ q \in DeviceRow
          /\ q.exists = device[v].exists /\ q.session = None /\ q.created = device[v].created
          /\ q.owner = device[v].owner /\ q.revoked = device[v].revoked
      BY <3>1, RowCut
    <3>3. \/ device'[v] = device[v]
          \/ device'[v] = q /\ device[v].session # None /\ Retired(device[v].session)
      OBVIOUS
    <3> QED
      BY <3>1, <3>2, <3>3
  <2>2. device' = [v \in Verifies |-> device'[v]]
    OBVIOUS
  <2> QED
    BY <2>1, <2>2
<1>3. TypeOK'
  <2>1. (session \in [Sessions -> SessionRow])'
    BY <1>1
  <2>2. (device \in [Verifies -> DeviceRow])'
    BY <1>2
  <2>3. (sweep \in [step : 0..4, at : Time])'
    BY DEF TypeOK
  <2> QED
    BY <2>1, <2>2, <2>3 DEF TypeOK
<1>4. ClockIsAhead'
  BY DEF ClockIsAhead, TypeOK, VerifyRequest, LoginRequest, Time
<1>5. CodesAreOfSessions'
  BY <1>1 DEF CodesAreOfSessions
<1>6. OneEnrolmentPerCode'
  <2> SUFFICES ASSUME NEW t \in Sessions
               PROVE  /\ \A v, w \in Enrolled(t) : v = w
                      /\ session'[t].state = "pending" => Enrolled(t) = {}
                      /\ session'[t].state = "consumed" => Enrolled(t) # {}
    BY DEF OneEnrolmentPerCode, Enrolled
  <2> QED
    BY <1>1 DEF OneEnrolmentPerCode
<1>7. DevicesAreEnrolled'
  BY <1>1, <1>2 DEF DevicesAreEnrolled, CodesAreOfSessions
<1>8. RowOutlivesGrant'
  <2> SUFFICES ASSUME NEW v \in Verifies,
                      verify[v].pc \in {"enrolled", "granted", "lost"},
                      now < verify[v].at + EnrolmentGrantTTL, spent[v] = None
               PROVE  device'[v].exists /\ device'[v].owner = None /\ device'[v].session = verify[v].session
    BY DEF RowOutlivesGrant, Provisional
  <2>1. /\ device[v].exists /\ device[v].owner = None /\ device[v].session = verify[v].session
        /\ verify[v].session \in Sessions
    BY DEF RowOutlivesGrant, Provisional, CodesAreOfSessions
  <2>2. verify[v].at < session[verify[v].session].expires
    BY <2>1, PairingAssumption DEF DevicesAreEnrolled
  <2>3. ~Retired(verify[v].session)
    BY <2>1, <2>2, PairingAssumption DEF Retired, ClockIsAhead, TypeOK, VerifyRequest, SessionRow, Time
  <2> QED
    BY <2>1, <2>3, <1>2
<1>9. (ClaimsAreRecorded /\ SingleUseGrant)'
  BY DEF ClaimsAreRecorded, SingleUseGrant, Claimants, GrantLives
<1> QED
  BY <1>3, <1>4, <1>5, <1>6, <1>7, <1>8, <1>9

LEMMA SweepDeleteAbandonedDevicesKeeps ==
    ASSUME PairingInvariant, SweepDeleteAbandonedDevices
    PROVE  PairingInvariant'
<1> USE PairingAssumption DEF PairingInvariant, SweepDeleteAbandonedDevices
<1>1. /\ device' \in [Verifies -> DeviceRow]
      /\ \A v \in Verifies : device'[v] = device[v] \/ (device'[v] = NoDevice /\ Abandoned(v))
  <2>1. \A v \in Verifies : device[v] \in DeviceRow
    BY DEF TypeOK
  <2>2. ASSUME NEW v \in Verifies
        PROVE  device'[v] = device[v] \/ (device'[v] = NoDevice /\ Abandoned(v))
    <3>1. CASE Abandoned(v)
      BY <3>1
    <3>2. CASE ~Abandoned(v)
      BY <3>2
    <3> QED
      BY <3>1, <3>2
  <2>3. device' = [v \in Verifies |-> device'[v]]
    OBVIOUS
  <2>4. \A v \in Verifies : device'[v] \in DeviceRow
    BY <2>1, <2>2, NoRow
  <2>5. device' \in [Verifies -> DeviceRow]
    BY <2>3, <2>4
  <2> QED
    BY <2>2, <2>5
<1>2. TypeOK'
  <2>1. (device \in [Verifies -> DeviceRow])'
    BY <1>1
  <2>2. (sweep \in [step : 0..4, at : Time])'
    BY DEF TypeOK
  <2> QED
    BY <2>1, <2>2 DEF TypeOK
<1>3. ClockIsAhead'
  BY DEF ClockIsAhead, TypeOK, VerifyRequest, LoginRequest, Time
<1>4. DevicesAreEnrolled'
  BY <1>1, NoRow DEF DevicesAreEnrolled
<1>5. RowOutlivesGrant'
  <2>1. \A v \in Verifies : Abandoned(v) => verify[v].at + EnrolmentGrantTTL <= now
    BY PairingAssumption DEF Abandoned, Provisional, DevicesAreEnrolled, ClockIsAhead, TypeOK, VerifyRequest, Time
  <2> QED
    BY <2>1, <1>1 DEF RowOutlivesGrant, Provisional, TypeOK, VerifyRequest, Time
<1>6. (CodesAreOfSessions /\ OneEnrolmentPerCode /\ ClaimsAreRecorded /\ SingleUseGrant)'
  BY DEF CodesAreOfSessions, OneEnrolmentPerCode, ClaimsAreRecorded, SingleUseGrant, Enrolled, Claimants, GrantLives
<1> QED
  BY <1>2, <1>3, <1>4, <1>5, <1>6

LEMMA SweepDeleteSpentGrantJTIsKeeps ==
    ASSUME PairingInvariant, SweepDeleteSpentGrantJTIs
    PROVE  PairingInvariant'
<1> USE PairingAssumption DEF PairingInvariant, SweepDeleteSpentGrantJTIs, Forgettable
<1>1. \A v \in Verifies :
        \/ spent'[v] = spent[v]
        \/ /\ spent'[v] = None /\ spent[v] # None
           /\ spent[v] + EnrolmentGrantTTL + Margin <= now
           /\ verify[v].at + EnrolmentGrantTTL + Stall <= now
  BY DEF ClaimsAreRecorded, ClockIsAhead, TypeOK, VerifyRequest, Time
<1>2. TypeOK'
  <2>1. (spent \in [Verifies -> Time \cup {None}])'
    BY DEF TypeOK, LoginRequest, Time
  <2>2. (sweep \in [step : 0..4, at : Time])'
    BY DEF TypeOK
  <2> QED
    BY <2>1, <2>2 DEF TypeOK
<1>3. ClockIsAhead'
  BY DEF ClockIsAhead, TypeOK, VerifyRequest, LoginRequest, Time
<1>4. ClaimsAreRecorded'
  <2>1. ASSUME NEW u \in Users, login[u].pc = "claimed"
        PROVE  spent'[login[u].grant] = login[u].at
    <3>1. /\ login[u].grant \in Verifies /\ spent[login[u].grant] = login[u].at
          /\ now <= login[u].at + Stall /\ login[u].at \in Nat
      BY <2>1 DEF ClaimsAreRecorded, ClockIsAhead, TypeOK, LoginRequest, Time
    <3>2. ~(login[u].at + EnrolmentGrantTTL + Margin <= now)
      BY <3>1 DEF TypeOK, Time
    <3> QED
      BY <3>1, <3>2, <1>1
  <2> QED
    BY <2>1, <1>1 DEF ClaimsAreRecorded, Claimants, GrantLives
<1>5. RowOutlivesGrant'
  BY <1>1 DEF RowOutlivesGrant, Provisional, TypeOK, VerifyRequest, Time
<1>6. (CodesAreOfSessions /\ OneEnrolmentPerCode /\ DevicesAreEnrolled /\ SingleUseGrant)'
  BY DEF CodesAreOfSessions, OneEnrolmentPerCode, DevicesAreEnrolled, SingleUseGrant, Enrolled, Claimants
<1> QED
  BY <1>2, <1>3, <1>4, <1>5, <1>6

LEMMA SweepFailsKeeps ==
    ASSUME PairingInvariant, SweepFails
    PROVE  PairingInvariant'
<1> USE PairingAssumption DEF PairingInvariant, SweepFails
<1>1. TypeOK'
  <2>1. (sweep \in [step : 0..4, at : Time])'
    BY DEF TypeOK
  <2> QED
    BY <2>1 DEF TypeOK
<1>2. ClockIsAhead'
  BY DEF ClockIsAhead, TypeOK, VerifyRequest, LoginRequest, Time
<1>3. (CodesAreOfSessions /\ OneEnrolmentPerCode /\ DevicesAreEnrolled /\ ClaimsAreRecorded /\ SingleUseGrant /\ RowOutlivesGrant)'
  BY SMTT(30) DEF CodesAreOfSessions, OneEnrolmentPerCode, DevicesAreEnrolled, ClaimsAreRecorded, SingleUseGrant, RowOutlivesGrant, Enrolled, Claimants, GrantLives, Provisional
<1> QED
  BY <1>1, <1>2, <1>3

LEMMA StutterKeeps ==
    ASSUME PairingInvariant, UNCHANGED vars
    PROVE  PairingInvariant'
  BY DEF PairingInvariant, vars, TypeOK, ClockIsAhead, CodesAreOfSessions, OneEnrolmentPerCode, Enrolled,
         DevicesAreEnrolled, ClaimsAreRecorded, Claimants, GrantLives, SingleUseGrant, RowOutlivesGrant,
         Provisional
-----------------------------------------------------------------------------
(* The invariant is inductive: whatever DELETE, verify, login and sweep do    *)
(* between each other's statements, every state of a pairing is safe.         *)
THEOREM PairingInvariantHolds == Spec => []PairingInvariant
<1>1. Init => PairingInvariant
  BY InitKeeps
<1>2. PairingInvariant /\ [Next]_vars => PairingInvariant'
  <2> SUFFICES ASSUME PairingInvariant, [Next]_vars
               PROVE  PairingInvariant'
    OBVIOUS
  <2>1. CASE Tick
    BY <2>1, TickKeeps
  <2>2. ASSUME NEW s \in Sessions, InitiatePairing(s) \/ FindForDelete(s) \/ Delete(s)
        PROVE  PairingInvariant'
    BY <2>2, InitiatePairingKeeps, FindForDeleteKeeps, DeletePairingKeeps, DeleteFailsKeeps DEF Delete
  <2>3. ASSUME NEW v \in Verifies, Verify(v)
        PROVE  PairingInvariant'
    BY <2>3, VerifyAndConsumeKeeps, VerifyRefusedKeeps, SignGrantKeeps, LoseGrantKeeps DEF Verify
  <2>4. ASSUME NEW v \in Verifies, RevokeDevice(v) \/ \E s \in Sessions : AskVerify(v, s)
        PROVE  PairingInvariant'
    BY <2>4, RevokeDeviceKeeps, AskVerifyKeeps
  <2>5. ASSUME NEW u \in Users, ApplyGrant(u) \/ \E v \in Verifies : Login(u, v)
        PROVE  PairingInvariant'
    BY <2>5, ClaimKeeps, AssignOwnerKeeps, LoginLosesGrantKeeps, LoginKeeps DEF ApplyGrant
  <2>6. CASE Sweep \/ SweepFails
    BY <2>6, SweepTickKeeps, SweepExpireStaleSessionsKeeps, SweepDeleteTerminalSessionsKeeps,
       SweepDeleteAbandonedDevicesKeeps, SweepDeleteSpentGrantJTIsKeeps, SweepFailsKeeps DEF Sweep
  <2>7. CASE UNCHANGED vars
    BY <2>7, StutterKeeps
  <2> QED
    BY <2>1, <2>2, <2>3, <2>4, <2>5, <2>6, <2>7 DEF Next
<1> QED
  BY <1>1, <1>2, PTL DEF Spec

(* A code enrols at most one device: the row lock and the unique index of     *)
(* VerifyAndConsume suffice although DELETE writes back a state it read       *)
(* before, and the sweep expires and deletes sessions.                        *)
THEOREM CodeEnrolsOneDevice == Spec => []OneEnrolmentPerCode
<1>1. PairingInvariant => OneEnrolmentPerCode
  BY DEF PairingInvariant
<1> QED
  BY <1>1, PairingInvariantHolds, PTL

(* A grant is claimed once, also after its record was swept: the margin of    *)
(* the cutoff covers every login still in flight.                             *)
THEOREM GrantIsClaimedOnce == Spec => []SingleUseGrant
<1>1. PairingInvariant => SingleUseGrant
  BY DEF PairingInvariant
<1> QED
  BY <1>1, PairingInvariantHolds, PTL

(* The sweep is never ahead of a grant: while a grant can still be used, the  *)
(* device it is for has its row and the row its session.                      *)
THEOREM GrantFindsItsDevice == Spec => []LiveGrantFindsItsDevice
<1>1. PairingInvariant => LiveGrantFindsItsDevice
  BY DEF PairingInvariant, RowOutlivesGrant, LiveGrantFindsItsDevice, GrantLives
<1> QED
  BY <1>1, PairingInvariantHolds, PTL

(* A revoked device stays revoked and changes hands no more, although the     *)
(* grant it holds may still be claimed: no statement but the assignment       *)
(* writes an owner, and it passes over a revoked row.                         *)
THEOREM RevocationIsFinal == Spec => RevokedStaysOut
<1>1. ASSUME PairingInvariant, [Next]_vars, NEW v \in Verifies, device[v].revoked, device'[v].exists
      PROVE  device'[v].revoked /\ device'[v].owner = device[v].owner
  <2>0. /\ device \in [Verifies -> DeviceRow] /\ device[v] \in DeviceRow
        /\ device[v].exists /\ verify[v].pc # "asked"
    BY <1>1 DEF PairingInvariant, TypeOK, DevicesAreEnrolled
  <2>1. CASE UNCHANGED device
    BY <1>1, <2>1
  <2>2. ASSUME NEW s \in Sessions, RevokeByPairingSessionID(s)
        PROVE  device'[v].revoked /\ device'[v].owner = device[v].owner
    <3> PICK q : q = [device[v] EXCEPT !.revoked = TRUE]
      BY Zenon
    <3>1. q.revoked /\ q.owner = device[v].owner
      BY <2>0, RowRevoked
    <3>2. device'[v] = q \/ device'[v] = device[v]
      BY <2>2 DEF RevokeByPairingSessionID
    <3> QED
      BY <1>1, <3>1, <3>2, Zenon
  <2>3. ASSUME NEW w \in Verifies, RevokeDevice(w)
        PROVE  device'[v].revoked /\ device'[v].owner = device[v].owner
    <3>1. w # v
      BY <1>1, <2>3 DEF RevokeDevice
    <3> QED
      BY <1>1, <2>0, <2>3, <3>1 DEF RevokeDevice
  <2>4. ASSUME NEW w \in Verifies, VerifyAndConsume(w)
        PROVE  device'[v].revoked /\ device'[v].owner = device[v].owner
    <3>1. w # v
      BY <2>0, <2>4 DEF VerifyAndConsume
    <3> QED
      BY <1>1, <2>0, <2>4, <3>1 DEF VerifyAndConsume
  <2>5. ASSUME NEW u \in Users, AssignOwner(u)
        PROVE  device'[v].revoked /\ device'[v].owner = device[v].owner
    <3>1. device'[v] = device[v]
      BY <1>1, <2>0, <2>5 DEF AssignOwner, Assignable
    <3> QED
      BY <1>1, <3>1
  <2>6. CASE SweepDeleteTerminalSessions
    <3> PICK q : q = [device[v] EXCEPT !.session = None]
      BY Zenon
    <3>1. q.revoked = device[v].revoked /\ q.owner = device[v].owner
      BY <2>0, RowCut
    <3>2. device'[v] = q \/ device'[v] = device[v]
      BY <2>6 DEF SweepDeleteTerminalSessions
    <3> QED
      BY <1>1, <3>1, <3>2, Zenon
  <2>7. CASE SweepDeleteAbandonedDevices
    <3>1. device'[v] = NoDevice \/ device'[v] = device[v]
      BY <2>7 DEF SweepDeleteAbandonedDevices
    <3> QED
      BY <1>1, <3>1, NoRow
  <2> QED
    BY <1>1, <2>1, <2>2, <2>3, <2>4, <2>5, <2>6, <2>7
    DEF Next, vars, Tick, InitiatePairing, FindForDelete, Delete, DeletePairing, DeleteFails, AskVerify,
        Verify, VerifyRefused, SignGrant, LoseGrant, ApplyGrant, Login, Claim, LoginLosesGrant,
        Sweep, SweepTick, SweepExpireStaleSessions, SweepDeleteSpentGrantJTIs, SweepFails
<1>2. PairingInvariant /\ [Next]_vars =>
        [\A v \in Verifies : device[v].revoked /\ device'[v].exists =>
             device'[v].revoked /\ device'[v].owner = device[v].owner]_vars
  BY <1>1
<1> QED
  BY <1>2, PairingInvariantHolds, PTL DEF Spec, RevokedStaysOut
=============================================================================
