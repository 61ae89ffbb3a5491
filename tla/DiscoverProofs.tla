--------------------------- MODULE DiscoverProofs ---------------------------
(***************************************************************************)
(* Proofs about the discover endpoints, for any number of covers, works    *)
(* and concurrent requests and any limits: the limiter counts its waiters  *)
(* exactly, files are whole, and an eviction pass leaves nothing over.     *)
(*                                                                         *)
(* The lemmas StepEvictions, StepWaiters and StepFiles each take one part  *)
(* of DiscoverInvariant through all actions.                               *)
(***************************************************************************)
EXTENDS Discover, FiniteSetTheorems, TLAPS

(* A step of r leaves the other requests where they are. *)
Moves(r) ==
    /\ req' \in [Requests -> Request]
    /\ \A p \in Requests \ {r} : req'[p] = req[p]

Inside == {"total", "choose", "remove", "delete", "unlock"}

(* Types but that of the counter, which WaitersAreCounted gives. *)
Types ==
    /\ row \in [Covers -> {"none", "missing", "image"}]
    /\ file \in [Covers -> {"none", "whole", "torn"}]
    /\ temp \in [Requests \cup Covers -> {"none", "whole", "torn"}]
    /\ work \in [Works -> {"none", "fresh", "stale"}]
    /\ skipped \in BOOLEAN
    /\ req \in [Requests -> Request]
    /\ \A r \in Requests : mu = r <=> req[r].at \in Inside

(* A step of r that has nothing to do with an eviction pass. *)
Outer(r) ==
    /\ Moves(r)
    /\ req[r].at \notin Inside \cup {"evict"} /\ req'[r].at \notin Inside \cup {"evict"}
    /\ mu' = mu /\ skipped' = skipped
    /\ row' \in [Covers -> {"none", "missing", "image"}] /\ Cached' \subseteq Cached
    /\ file' \in [Covers -> {"none", "whole", "torn"}]
    /\ work' \in [Works -> {"none", "fresh", "stale"}]
    /\ temp' \in [Requests \cup Covers -> {"none", "whole", "torn"}]
    /\ \A p \in Requests \ {r} : temp'[p] = temp[p]
    /\ req'[r].at = "rename" => temp'[r] # "torn"

(* What an eviction pass needs and leaves. *)
Evictions == OverLimitIsNoticed /\ \A r \in Requests : Saves(r)

(* The actions of r that are such steps. *)
OuterStep(r) ==
    \/ \E c \in Covers : GetCover(r, c)
    \/ \E w \in Works : GetWork(r, w)
    \/ Search(r) \/ Stat(r) \/ Enter(r) \/ TurnAway(r) \/ Leave(r) \/ Answer(r) \/ NextCall(r)
    \/ SaveWork(r) \/ MarkMissing(r) \/ WriteTemp(r) \/ Written(r) \/ Rename(r)

-----------------------------------------------------------------------------
(* Requests. *)

(* A request that is replaced by another one: what every step of a handler *)
(* does to req.                                                            *)
LEMMA Replaced ==
    ASSUME req \in [Requests -> Request], NEW r \in Requests, NEW q \in Request,
           req' = [req EXCEPT ![r] = q]
    PROVE  Moves(r) /\ req'[r] = q
BY DEF Moves

(* Idle is a request. *)
LEMMA IdleIsARequest == Idle \in Request
BY DEF Idle, Request, Places

(* A handler goes on to another place. *)
LEMMA GoneTo ==
    ASSUME req \in [Requests -> Request], NEW r \in Requests, NEW at \in Places, Goto(r, at)
    PROVE  /\ Moves(r)
           /\ req'[r].at = at /\ req'[r].key = req[r].key
           /\ req'[r].over = req[r].over /\ req'[r].victims = req[r].victims
<1>1. PICK q : q = [req[r] EXCEPT !.at = at]
  BY Zenon
<1>2. /\ q \in Request /\ q.at = at /\ q.key = req[r].key
      /\ q.over = req[r].over /\ q.victims = req[r].victims
  BY <1>1 DEF Request
<1>3. req' = [req EXCEPT ![r] = q]
  BY <1>1 DEF Goto
<1> QED
  BY <1>2, <1>3, Replaced, Zenon

(* A handler answers. *)
LEMMA Ended ==
    ASSUME req \in [Requests -> Request], NEW r \in Requests, End(r)
    PROVE  Moves(r) /\ req'[r] = Idle
BY IdleIsARequest, Replaced, Zenon DEF End

(* A handler that failed a call has answered or goes on. *)
LEMMA Failed ==
    ASSUME req \in [Requests -> Request], NEW r \in Requests, Fail(r)
    PROVE  Moves(r) /\ req'[r].at \in {"idle", "answered"}
<1>1. CASE End(r)
  BY <1>1, Ended DEF Idle
<1>2. CASE Goto(r, "answered")
  BY <1>2, GoneTo DEF Places
<1> QED
  BY <1>1, <1>2 DEF Fail

(* A request begins. *)
LEMMA Begins ==
    ASSUME req \in [Requests -> Request], NEW r \in Requests, NEW at \in {"stat", "limit"},
           NEW k \in Covers \cup Works \cup {None},
           req' = [req EXCEPT ![r] = [Idle EXCEPT !.at = at, !.key = k]]
    PROVE  Moves(r) /\ req'[r].at = at
<1>1. PICK m : m = [Idle EXCEPT !.at = at]
  BY Zenon
<1>2. m \in Request /\ m.at = at
  BY <1>1, IdleIsARequest DEF Request, Places
<1>3. PICK q : q = [m EXCEPT !.key = k]
  BY Zenon
<1>4. q \in Request /\ q.at = at
  BY <1>2, <1>3 DEF Request
<1>5. req' = [req EXCEPT ![r] = q]
  BY <1>1, <1>3
<1> QED
  BY <1>4, <1>5, Replaced, Zenon

(* The covers that have an image are finitely many. *)
LEMMA CachedIsFinite == IsFiniteSet(Cached) /\ Cardinality(Cached) \in Nat
BY DiscoverAssumption, FS_Subset, FS_CardinalityType DEF Cached

(* The next call of the client. *)
LEMMA NextCallMoves ==
    ASSUME req \in [Requests -> Request], NEW r \in Requests, NextCall(r)
    PROVE  Moves(r) /\ req'[r].at = "limit"
<1>1. PICK m : m = [req[r] EXCEPT !.at = "limit"]
  BY Zenon
<1>2. m \in Request /\ m.at = "limit"
  BY <1>1 DEF Request, Places
<1>3. PICK q : q = [m EXCEPT !.call = m.call + 1]
  BY Zenon
<1>4. q \in Request /\ q.at = "limit"
  BY <1>2, <1>3 DEF Request
<1>5. m.call = req[r].call
  BY <1>1 DEF Request
<1>6. req' = [req EXCEPT ![r] = q]
  BY <1>1, <1>3, <1>5, Zenon DEF NextCall
<1> QED
  BY <1>4, <1>6, Replaced, Zenon

(* The pass notes by how much the limit is exceeded. *)
LEMMA OverMoves ==
    ASSUME req \in [Requests -> Request], NEW r \in Requests, NEW n \in Nat,
           req' = [req EXCEPT ![r].at = "choose", ![r].over = n]
    PROVE  Moves(r) /\ req'[r].at = "choose" /\ req'[r].over = n
<1>1. PICK m : m = [req[r] EXCEPT !.at = "choose"]
  OBVIOUS
<1>2. m \in Request /\ m.at = "choose"
  BY <1>1 DEF Request, Places
<1>3. PICK q : q = [m EXCEPT !.over = n]
  BY Zenon
<1>4. q \in Request /\ q.at = "choose" /\ q.over = n
  BY <1>2, <1>3 DEF Request
<1>5. req' = [req EXCEPT ![r] = q]
  BY <1>1, <1>3, Zenon
<1> QED
  BY <1>4, <1>5, Replaced, Zenon

(* The pass notes its candidates. *)
LEMMA VictimsMove ==
    ASSUME req \in [Requests -> Request], NEW r \in Requests, NEW S \in SUBSET Covers,
           req' = [req EXCEPT ![r].at = "remove", ![r].victims = S]
    PROVE  Moves(r) /\ req'[r].at = "remove" /\ req'[r].victims = S
<1>1. PICK m : m = [req[r] EXCEPT !.at = "remove"]
  OBVIOUS
<1>2. m \in Request /\ m.at = "remove"
  BY <1>1 DEF Request, Places
<1>3. PICK q : q = [m EXCEPT !.victims = S]
  BY Zenon
<1>4. q \in Request /\ q.at = "remove" /\ q.victims = S
  BY <1>2, <1>3 DEF Request
<1>5. req' = [req EXCEPT ![r] = q]
  BY <1>1, <1>3, Zenon
<1> QED
  BY <1>4, <1>5, Replaced, Zenon

(* The pass turns to a candidate. *)
LEMMA RemoveFileMoves ==
    ASSUME req \in [Requests -> Request], NEW r \in Requests, NEW c \in Covers,
           RemoveFile(r, c)
    PROVE  /\ Moves(r) /\ req'[r].at = "delete" /\ req'[r].key = c
           /\ req'[r].victims = req[r].victims
<1>1. PICK m : m = [req[r] EXCEPT !.at = "delete"]
  BY Zenon
<1>2. m \in Request /\ m.at = "delete" /\ m.victims = req[r].victims
  BY <1>1 DEF Request, Places
<1>3. PICK q : q = [m EXCEPT !.key = c]
  BY Zenon
<1>4. q \in Request /\ q.at = "delete" /\ q.key = c /\ q.victims = req[r].victims
  BY <1>2, <1>3 DEF Request
<1>5. req' = [req EXCEPT ![r] = q]
  BY <1>1, <1>3, Zenon DEF RemoveFile
<1> QED
  BY <1>4, <1>5, Replaced, Zenon

(* The pass is done with a candidate. *)
LEMMA DeleteRowMoves ==
    ASSUME req \in [Requests -> Request], NEW r \in Requests, DeleteRow(r)
    PROVE  /\ Moves(r) /\ req'[r].at = "remove"
           /\ req'[r].victims = req[r].victims \ {req[r].key}
<1>1. PICK S : S = req[r].victims \ {req[r].key}
  BY Zenon
<1>2. S \in SUBSET Covers
  BY <1>1 DEF Request
<1>3. req' = [req EXCEPT ![r].at = "remove", ![r].victims = S]
  BY <1>1 DEF DeleteRow, Request
<1> QED
  BY <1>1, <1>2, <1>3, VictimsMove, Zenon

-----------------------------------------------------------------------------
(* The steps outside of an eviction pass. *)

(* Each of these actions is an outer step. *)
LEMMA OuterSteps ==
    ASSUME Types, NEW r \in Requests, OuterStep(r)
    PROVE  Outer(r)
<1> USE DEF Types
<1>0. /\ row' = row => Cached' \subseteq Cached
      /\ Idle.at = "idle" /\ r \in Requests \cup Covers
      /\ {"idle", "stat", "limit", "wait", "full", "call", "answered", "mark", "write",
          "writing", "rename", "insert"} \subseteq Places
  BY DEF Cached, Idle, Places
<1>1. ASSUME NEW c \in Covers, GetCover(r, c) PROVE Outer(r)
  <2>1. CASE req' = req
    BY <1>0, <1>1, <2>1, Zenon DEF GetCover, Outer, Moves, Inside, store
  <2>2. ASSUME NEW at \in {"stat", "limit"},
               req' = [req EXCEPT ![r] = [Idle EXCEPT !.at = at, !.key = c]]
        PROVE  Outer(r)
    <3>1. Moves(r) /\ req'[r].at = at
      BY <2>2, Begins, Zenon
    <3> QED
      BY <1>0, <1>1, <3>1, Zenon DEF GetCover, Outer, Inside, store
  <2> QED
    BY <1>1, <2>1, <2>2, Zenon DEF GetCover
<1>2. ASSUME NEW w \in Works, GetWork(r, w) PROVE Outer(r)
  <2>1. CASE req' = req
    BY <1>0, <1>2, <2>1 DEF GetWork, Outer, Moves, Inside, store
  <2>2. CASE req' = [req EXCEPT ![r] = [Idle EXCEPT !.at = "limit", !.key = w]]
    <3>1. Moves(r) /\ req'[r].at = "limit"
      BY <2>2, Begins, Zenon
    <3> QED
      BY <1>0, <1>2, <3>1, SMTT(30) DEF GetWork, Outer, Inside, store
  <2> QED
    BY <1>2, <2>1, <2>2 DEF GetWork
<1>3. CASE Search(r)
  <2>1. PICK q : q = [Idle EXCEPT !.at = "limit"]
    BY Zenon
  <2>2. q \in Request /\ q.at = "limit"
    BY <1>0, <2>1, IdleIsARequest DEF Request
  <2>3. Moves(r) /\ req'[r] = q
    BY <1>3, <2>1, <2>2, Replaced, Zenon DEF Search
  <2> QED
    BY <1>0, <1>3, <2>2, <2>3 DEF Search, Outer, Inside, store
<1>4. CASE Stat(r)
  <2>1. Moves(r) /\ req'[r].at \in {"limit", "idle"}
    BY <1>0, <1>4, GoneTo, Ended DEF Stat
  <2> QED
    BY <1>0, <1>4, <2>1 DEF Stat, Outer, Inside, store
<1>5. CASE Enter(r)
  <2>1. Moves(r) /\ req'[r].at \in {"full", "wait"}
    BY <1>0, <1>5, GoneTo DEF Enter
  <2> QED
    BY <1>0, <1>5, <2>1 DEF Enter, Outer, Inside, store
<1>6. CASE TurnAway(r)
  <2>1. Moves(r) /\ req'[r].at \in {"idle", "answered"}
    BY <1>6, Failed DEF TurnAway
  <2> QED
    BY <1>0, <1>6, <2>1 DEF TurnAway, Outer, Inside, store
<1>7. CASE Leave(r)
  <2>1. Moves(r) /\ req'[r].at \in {"call", "idle", "answered"}
    BY <1>0, <1>7, GoneTo, Failed DEF Leave
  <2> QED
    BY <1>0, <1>7, <2>1 DEF Leave, Outer, Inside, store
<1>8. CASE Answer(r)
  <2>1. Moves(r) /\ req'[r].at \in {"write", "mark", "idle", "answered"}
    BY <1>0, <1>8, GoneTo, Failed, SMTT(30) DEF Answer
  <2> QED
    BY <1>0, <1>8, <2>1 DEF Answer, Outer, Inside, store
<1>9. CASE NextCall(r)
  BY <1>0, <1>9, NextCallMoves, Zenon DEF NextCall, Outer, Inside, store
<1>10. CASE SaveWork(r)
  <2>1. Moves(r) /\ req'[r].at = "idle"
    BY <1>0, <1>10, Ended DEF SaveWork
  <2> QED
    BY <1>0, <1>10, <2>1 DEF SaveWork, Outer, Inside
<1>11. CASE MarkMissing(r)
  <2>1. Moves(r) /\ req'[r].at = "idle"
    BY <1>0, <1>11, Ended DEF MarkMissing
  <2>2. row' \in [Covers -> {"none", "missing", "image"}] /\ Cached' \subseteq Cached
    BY <1>11 DEF MarkMissing, Cached
  <2> QED
    BY <1>11, <2>1, <2>2 DEF MarkMissing, Outer, Inside
<1>12. CASE WriteTemp(r)
  <2>1. Moves(r) /\ req'[r].at \in {"writing", "idle"}
    BY <1>0, <1>12, GoneTo, Ended DEF WriteTemp
  <2> QED
    BY <1>0, <1>12, <2>1 DEF WriteTemp, tmpPath, Outer, Inside
<1>13. CASE Written(r)
  <2>1. Moves(r) /\ req'[r].at \in {"rename", "idle"}
    BY <1>0, <1>13, GoneTo, Ended DEF Written
  <2>2. /\ temp' \in [Requests \cup Covers -> {"none", "whole", "torn"}]
        /\ \A p \in Requests \ {r} : temp'[p] = temp[p]
        /\ temp'[r] # "torn"
    BY <1>0, <1>13 DEF Written, tmpPath
  <2> QED
    BY <1>0, <1>13, <2>1, <2>2 DEF Written, Outer, Inside
<1>14. CASE Rename(r)
  <2>1. Moves(r) /\ req'[r].at \in {"insert", "idle"}
    BY <1>0, <1>14, GoneTo, Ended DEF Rename
  <2> QED
    BY <1>0, <1>14, <2>1 DEF Rename, tmpPath, Outer, Inside
<1> QED
  BY <1>1, <1>2, <1>3, <1>4, <1>5, <1>6, <1>7, <1>8, <1>9, <1>10, <1>11, <1>12, <1>13, <1>14
  DEF OuterStep

(* An image that goes leaves no more to evict. *)
LEMMA FewerCached ==
    ASSUME Cached' \subseteq Cached
    PROVE  /\ Cardinality(Cached') \in Nat /\ Cardinality(Cached) \in Nat
           /\ Cardinality(Cached') <= Cardinality(Cached)
           /\ \A S : /\ Cardinality(Cached' \ S) \in Nat /\ Cardinality(Cached \ S) \in Nat
                    /\ Cardinality(Cached' \ S) <= Cardinality(Cached \ S)
<1>1. IsFiniteSet(Cached) /\ Cardinality(Cached) \in Nat
  BY CachedIsFinite
<1>2. IsFiniteSet(Cached') /\ Cardinality(Cached') \in Nat /\ Cardinality(Cached') <= Cardinality(Cached)
  BY <1>1, FS_Subset, FS_CardinalityType
<1>3. ASSUME NEW S
      PROVE  /\ Cardinality(Cached' \ S) \in Nat /\ Cardinality(Cached \ S) \in Nat
             /\ Cardinality(Cached' \ S) <= Cardinality(Cached \ S)
  <2>1. IsFiniteSet(Cached \ S)
    BY <1>1, FS_Subset
  <2>2. Cached' \ S \in SUBSET (Cached \ S)
    OBVIOUS
  <2> QED
    BY <2>1, <2>2, FS_Subset, FS_CardinalityType
<1> QED
  BY <1>1, <1>2, <1>3

(* An outer step leaves every pass under way as good as it was. *)
LEMMA OuterKeeps ==
    ASSUME Types, Evictions, NEW r \in Requests, Outer(r)
    PROVE  Types' /\ Evictions'
<1>1. Types'
  BY DEF Types, Outer, Moves
<1>2. \A p \in Requests : \A at \in Inside \cup {"evict"} :
        /\ req'[p].at = at <=> req[p].at = at
        /\ req'[p].at = at => req'[p] = req[p]
  BY DEF Types, Outer, Moves
<1>3. SavedSince' <=> SavedSince
  BY <1>2 DEF SavedSince
<1>4. Evicting' = Evicting
  BY <1>2 DEF Evicting, Inside
<1>5. Cached' \subseteq Cached /\ skipped' = skipped
  BY DEF Outer
<1>6. OverLimitIsNoticed'
  BY <1>4, <1>5, FewerCached, DiscoverAssumption DEF Evictions, OverLimitIsNoticed
<1>7. ASSUME NEW p \in Requests PROVE Saves(p)'
  <2>1. Saves(p)
    BY DEF Evictions
  <2>2. req'[p].at = "rename" => temp'[p] # "torn"
    BY <2>1 DEF Outer, Moves, Saves, tmpPath
  <2>3. req'[p].at = "choose" => SavedSince' \/ Cardinality(Cached)' <= MaxCovers + req'[p].over
    <3>1. SUFFICES ASSUME req'[p].at = "choose", ~SavedSince'
                   PROVE  Cardinality(Cached)' <= MaxCovers + req'[p].over
      OBVIOUS
    <3>2. req'[p] = req[p] /\ req[p].at = "choose" /\ req[p].over \in Nat
      BY <1>2, <3>1 DEF Inside, Types, Request
    <3> QED
      BY <1>3, <1>5, <2>1, <3>1, <3>2, FewerCached, DiscoverAssumption DEF Saves
  <2>4. req'[p].at \in {"remove", "delete"} =>
          skipped' \/ SavedSince' \/ Cardinality(Cached' \ req'[p].victims) <= MaxCovers
    <3>1. SUFFICES ASSUME req'[p].at \in {"remove", "delete"}, ~skipped', ~SavedSince'
                   PROVE  Cardinality(Cached' \ req'[p].victims) <= MaxCovers
      OBVIOUS
    <3>2. req'[p] = req[p]
      BY <1>2, <3>1 DEF Inside
    <3>3. PICK S : S = req[p].victims
      OBVIOUS
    <3>4. Cardinality(Cached \ S) <= MaxCovers
      BY <1>3, <1>5, <2>1, <3>1, <3>2, <3>3 DEF Saves
    <3>5. /\ Cardinality(Cached' \ S) \in Nat /\ Cardinality(Cached \ S) \in Nat
          /\ Cardinality(Cached' \ S) <= Cardinality(Cached \ S)
      BY <1>5, FewerCached, Zenon
    <3> QED
      BY <3>2, <3>3, <3>4, <3>5, DiscoverAssumption
  <2>5. req'[p].at = "delete" => req'[p].key \in req'[p].victims
    BY <1>2, <2>1 DEF Saves, Inside
  <2> QED
    BY <2>2, <2>3, <2>4, <2>5 DEF Saves, tmpPath
<1> QED
  BY <1>1, <1>6, <1>7 DEF Evictions

-----------------------------------------------------------------------------
(* The steps of an eviction pass. *)

(* Only the holder of the mutex is inside of a pass. *)
LEMMA OneInside ==
    ASSUME Types, NEW r \in Requests, NEW p \in Requests, req[r].at \in Inside,
           req[p].at \in Inside
    PROVE  p = r
BY DEF Types

(* A row that is added comes with a pass to follow. *)
LEMMA InsertKeeps ==
    ASSUME Types, Evictions, NEW r \in Requests, Insert(r)
    PROVE  Types' /\ Evictions'
<1>1. Moves(r) /\ req'[r].at = "evict"
  BY GoneTo DEF Insert, Types, Places
<1>2. req[r].at = "insert" /\ mu' = mu /\ skipped' = skipped /\ temp' = temp
  BY DEF Insert
<1>3. Types'
  BY <1>1, <1>2 DEF Types, Insert, Moves, Inside
<1>4. SavedSince' /\ Evicting' # {}
  BY <1>1 DEF SavedSince, Evicting
<1>5. ASSUME NEW p \in Requests PROVE Saves(p)'
  <2>1. CASE p = r
    BY <1>1, <2>1 DEF Saves
  <2>2. CASE p # r
    BY <1>1, <1>2, <1>4, <2>2, Zenon DEF Saves, Evictions, Moves, tmpPath
  <2> QED
    BY <2>1, <2>2
<1> QED
  BY <1>3, <1>4, <1>5 DEF Evictions, OverLimitIsNoticed

(* A step of the pass of r: nobody else is in one, before or after. *)
LEMMA PassKeepsOthers ==
    ASSUME Types, Evictions, NEW r \in Requests, Moves(r), temp' = temp,
           req[r].at \in Inside \/ mu = None, NEW p \in Requests \ {r}
    PROVE  Saves(p)'
<1>1. req[p].at \notin Inside
  BY OneInside, DiscoverAssumption DEF Types
<1>2. req'[p] = req[p] /\ Saves(p)
  BY DEF Moves, Evictions
<1> QED
  BY <1>1, <1>2 DEF Saves, Inside, tmpPath

(* A pass begins when nobody else is in one. *)
LEMMA LockKeeps ==
    ASSUME Types, Evictions, NEW r \in Requests, Lock(r)
    PROVE  Types' /\ Evictions'
<1>1. Moves(r) /\ req'[r].at = "total"
  BY GoneTo DEF Lock, Types, Places
<1>2. /\ req[r].at = "evict" /\ mu = None /\ mu' = r /\ skipped' = skipped
      /\ row' = row /\ file' = file /\ work' = work /\ temp' = temp
  BY DEF Lock, store
<1>3. Types'
  BY <1>1, <1>2, DiscoverAssumption DEF Types, Moves, Inside
<1>4. Evicting' # {}
  BY <1>1 DEF Evicting
<1>5. Saves(r)'
  BY <1>1 DEF Saves
<1> QED
  BY <1>1, <1>2, <1>3, <1>4, <1>5, PassKeepsOthers DEF Evictions, OverLimitIsNoticed

(* The sum is taken for what it is at that moment. *)
LEMMA TotalKeeps ==
    ASSUME Types, Evictions, NEW r \in Requests, Total(r)
    PROVE  Types' /\ Evictions'
<1>0. /\ req[r].at = "total" /\ req[r].at \in Inside /\ mu' = mu
      /\ row' = row /\ file' = file /\ work' = work /\ temp' = temp
  BY DEF Total, store, Inside
<1>1. Cached' = Cached /\ Cardinality(Cached) \in Nat /\ MaxCovers \in Nat
  BY <1>0, CachedIsFinite, DiscoverAssumption DEF Cached
<1>2. ASSUME Moves(r), req'[r].at \in Inside, skipped' \in BOOLEAN
      PROVE  Types'
  BY <1>0, <1>2 DEF Types, Moves
<1>3. ASSUME Goto(r, "unlock"), skipped' \in BOOLEAN, skipped' \/ Cardinality(Cached) <= MaxCovers
      PROVE  Types' /\ Evictions'
  <2>1. Moves(r) /\ req'[r].at = "unlock"
    BY <1>3, GoneTo DEF Types, Places
  <2>2. Types'
    BY <1>2, <1>3, <2>1 DEF Inside
  <2>3. OverLimitIsNoticed'
    BY <1>1, <1>3 DEF OverLimitIsNoticed
  <2>4. Saves(r)'
    BY <2>1 DEF Saves
  <2> QED
    BY <1>0, <2>1, <2>2, <2>3, <2>4, PassKeepsOthers DEF Evictions
<1>4. CASE /\ Cardinality(Cached) > MaxCovers /\ skipped' = skipped
           /\ req' = [req EXCEPT ![r].at = "choose", ![r].over = Cardinality(Cached) - MaxCovers]
  <2>1. PICK n : n = Cardinality(Cached) - MaxCovers
    OBVIOUS
  <2>2. n \in Nat /\ Cardinality(Cached) <= MaxCovers + n
    BY <1>1, <1>4, <2>1, SMTT(30)
  <2>3. Moves(r) /\ req'[r].at = "choose" /\ req'[r].over = n
    BY <1>4, <2>1, <2>2, OverMoves, Zenon DEF Types
  <2>4. Types'
    BY <1>2, <1>4, <2>3 DEF Inside, Types
  <2>5. OverLimitIsNoticed'
    BY <2>3 DEF OverLimitIsNoticed, Evicting
  <2>6. Saves(r)'
    BY <1>1, <2>2, <2>3 DEF Saves
  <2> QED
    BY <1>0, <2>3, <2>4, <2>5, <2>6, PassKeepsOthers DEF Evictions
<1>5. CASE Cardinality(Cached) <= MaxCovers /\ Goto(r, "unlock") /\ skipped' = FALSE
  BY <1>3, <1>5, Zenon
<1>6. CASE Goto(r, "unlock") /\ skipped' = TRUE
  BY <1>3, <1>6
<1> QED
  BY <1>4, <1>5, <1>6, Zenon DEF Total

(* The candidates are as many as were over, or all, or the pass is cut short. *)
LEMMA ChooseKeeps ==
    ASSUME Types, Evictions, NEW r \in Requests, Choose(r)
    PROVE  Types' /\ Evictions'
<1>0. /\ req[r].at = "choose" /\ req[r].at \in Inside /\ mu' = mu
      /\ row' = row /\ file' = file /\ work' = work /\ temp' = temp
  BY DEF Choose, store, Inside
<1>1. /\ Cached' = Cached /\ Cardinality(Cached) \in Nat /\ IsFiniteSet(Cached)
      /\ MaxCovers \in Nat /\ req[r].over \in Nat
  BY <1>0, CachedIsFinite, DiscoverAssumption DEF Cached, Types, Request
<1>2. PICK S \in SUBSET Cached :
        /\ Cardinality(S) <= req[r].over
        /\ req' = [req EXCEPT ![r].at = "remove", ![r].victims = S]
        /\ skipped' = (S # Cached /\ Cardinality(S) < req[r].over)
  BY Zenon DEF Choose
<1>3. Moves(r) /\ req'[r].at = "remove" /\ req'[r].victims = S
  BY <1>2, VictimsMove, Zenon DEF Types, Cached
<1>4. Types'
  <2>1. skipped' \in BOOLEAN
    BY <1>2
  <2> QED
    BY <1>0, <1>3, <2>1 DEF Types, Moves, Inside
<1>5. OverLimitIsNoticed'
  BY <1>3 DEF OverLimitIsNoticed, Evicting
<1>6. SavedSince => SavedSince'
  BY <1>0, <1>3 DEF SavedSince, Moves
<1>7. skipped' \/ SavedSince' \/ Cardinality(Cached \ S) <= MaxCovers
  <2>1. CASE S = Cached
    BY <1>1, <2>1, FS_EmptySet
  <2>2. CASE Cardinality(S) = req[r].over
    <3>1. IsFiniteSet(S) /\ IsFiniteSet(Cached \ S)
      BY <1>1, <1>2, FS_Subset
    <3>2. Cardinality(Cached) = Cardinality(S) + Cardinality(Cached \ S)
      <4>1. S \cup (Cached \ S) = Cached /\ S \cap (Cached \ S) = {}
        OBVIOUS
      <4>2. Cardinality(S \cup (Cached \ S))
              = Cardinality(S) + Cardinality(Cached \ S) - Cardinality(S \cap (Cached \ S))
        BY <3>1, FS_Union
      <4>3. Cardinality(S) \in Nat /\ Cardinality(Cached \ S) \in Nat
        BY <3>1, FS_CardinalityType
      <4> QED
        BY <4>1, <4>2, <4>3, FS_EmptySet
    <3>3. SavedSince \/ Cardinality(Cached) <= MaxCovers + req[r].over
      BY <1>0, Zenon DEF Evictions, Saves
    <3>4. Cardinality(Cached \ S) \in Nat
      BY <3>1, FS_CardinalityType
    <3> QED
      BY <1>1, <1>6, <2>2, <3>2, <3>3, <3>4
  <2>3. CASE S # Cached /\ Cardinality(S) # req[r].over
    <3>1. Cardinality(S) \in Nat
      BY <1>1, <1>2, FS_Subset, FS_CardinalityType
    <3>2. Cardinality(S) < req[r].over
      BY <1>1, <1>2, <2>3, <3>1
    <3>3. skipped'
      BY <1>2, <2>3, <3>2, Zenon
    <3> QED
      BY <3>3
  <2> QED
    BY <2>1, <2>2, <2>3
<1>8. Saves(r)'
  BY <1>1, <1>3, <1>7 DEF Saves
<1> QED
  BY <1>0, <1>3, <1>4, <1>5, <1>8, PassKeepsOthers DEF Evictions

(* The file of a candidate goes or stays, its row is still counted. *)
LEMMA RemoveFileKeeps ==
    ASSUME Types, Evictions, NEW r \in Requests, NEW c \in Covers, RemoveFile(r, c)
    PROVE  Types' /\ Evictions'
<1>0. /\ req[r].at = "remove" /\ req[r].at \in Inside /\ c \in req[r].victims /\ mu' = mu
      /\ row' = row /\ work' = work /\ temp' = temp /\ skipped' = skipped
      /\ file' \in {file, [file EXCEPT ![c] = "none"]}
  BY Zenon DEF RemoveFile, Inside
<1>1. Cached' = Cached
  BY <1>0 DEF Cached
<1>2. /\ Moves(r) /\ req'[r].at = "delete" /\ req'[r].key = c
      /\ req'[r].victims = req[r].victims
  BY RemoveFileMoves DEF Types
<1>3. Types'
  BY <1>0, <1>2 DEF Types, Moves, Inside
<1>4. OverLimitIsNoticed'
  BY <1>2 DEF OverLimitIsNoticed, Evicting
<1>5. SavedSince => SavedSince'
  BY <1>0, <1>2 DEF SavedSince, Moves
<1>6. Saves(r)'
  BY <1>0, <1>1, <1>2, <1>5 DEF Saves, Evictions
<1> QED
  BY <1>0, <1>2, <1>3, <1>4, <1>6, PassKeepsOthers DEF Evictions

(* A candidate is gone from the rows and from the list, or the pass is cut short. *)
LEMMA DeleteRowKeeps ==
    ASSUME Types, Evictions, NEW r \in Requests, DeleteRow(r)
    PROVE  Types' /\ Evictions'
<1>0. /\ req[r].at = "delete" /\ req[r].at \in Inside /\ mu' = mu
      /\ file' = file /\ work' = work /\ temp' = temp
  BY DEF DeleteRow, Inside
<1>1. /\ Moves(r) /\ req'[r].at = "remove"
      /\ req'[r].victims = req[r].victims \ {req[r].key}
  BY DeleteRowMoves DEF Types
<1>2. SavedSince => SavedSince'
  BY <1>0, <1>1 DEF SavedSince, Moves
<1>3. OverLimitIsNoticed'
  BY <1>1 DEF OverLimitIsNoticed, Evicting
<1>4. CASE row' = [row EXCEPT ![req[r].key] = "none"] /\ skipped' = skipped
  <2>1. Types'
    BY <1>0, <1>1, <1>4, Zenon DEF Types, Moves, Inside
  <2>2. req[r].key \in req[r].victims
    BY <1>0, Zenon DEF Evictions, Saves
  <2>3. Cached' = Cached \ {req[r].key}
    BY <1>4 DEF Cached, Types
  <2>4. Cached' \ req'[r].victims = Cached \ req[r].victims
    BY <1>1, <2>2, <2>3
  <2>5. skipped \/ SavedSince \/ Cardinality(Cached \ req[r].victims) <= MaxCovers
    BY <1>0 DEF Evictions, Saves
  <2>6. Saves(r)'
    BY <1>1, <1>2, <1>4, <2>4, <2>5 DEF Saves
  <2> QED
    BY <1>0, <1>1, <1>3, <2>1, <2>6, PassKeepsOthers DEF Evictions
<1>5. CASE row' = row /\ skipped' = TRUE
  <2>1. Types'
    BY <1>0, <1>1, <1>5 DEF Types, Moves, Inside
  <2>2. Saves(r)'
    BY <1>1, <1>5 DEF Saves
  <2> QED
    BY <1>0, <1>1, <1>3, <2>1, <2>2, PassKeepsOthers DEF Evictions
<1> QED
  BY <1>4, <1>5, Zenon DEF DeleteRow

(* Without candidates left the sum is back under the limit. *)
LEMMA EndOfPassKeeps ==
    ASSUME Types, Evictions, NEW r \in Requests, EndOfPass(r)
    PROVE  Types' /\ Evictions'
<1>0. /\ req[r].at = "remove" /\ req[r].at \in Inside /\ req[r].victims = {} /\ mu' = mu
      /\ row' = row /\ file' = file /\ work' = work /\ temp' = temp /\ skipped' = skipped
  BY DEF EndOfPass, store, Inside
<1>1. Moves(r) /\ req'[r].at = "unlock"
  BY GoneTo DEF EndOfPass, Types, Places
<1>2. Types'
  BY <1>0, <1>1 DEF Types, Moves, Inside
<1>3. SavedSince => Evicting' # {}
  BY <1>0, <1>1 DEF SavedSince, Evicting, Moves
<1>4. Cached' = Cached /\ Cached \ req[r].victims = Cached
  BY <1>0 DEF Cached
<1>5. skipped \/ SavedSince \/ Cardinality(Cached) <= MaxCovers
  BY <1>0, <1>4 DEF Evictions, Saves
<1>6. OverLimitIsNoticed'
  BY <1>0, <1>3, <1>4, <1>5, CachedIsFinite, DiscoverAssumption DEF OverLimitIsNoticed
<1>7. Saves(r)'
  BY <1>1 DEF Saves
<1> QED
  BY <1>0, <1>1, <1>2, <1>6, <1>7, PassKeepsOthers DEF Evictions

(* The mutex is free again. *)
LEMMA UnlockKeeps ==
    ASSUME Types, Evictions, NEW r \in Requests, Unlock(r)
    PROVE  Types' /\ Evictions'
<1>0. /\ req[r].at = "unlock" /\ req[r].at \in Inside /\ mu = r /\ mu' = None
      /\ row' = row /\ file' = file /\ work' = work /\ temp' = temp /\ skipped' = skipped
  BY DEF Unlock, store, Inside, Types
<1>1. Moves(r) /\ req'[r].at = "idle"
  BY Ended DEF Unlock, Types, Idle
<1>2. Types'
  BY <1>0, <1>1, DiscoverAssumption DEF Types, Moves, Inside
<1>3. Cached' = Cached /\ Evicting' = Evicting
  BY <1>0, <1>1 DEF Cached, Evicting, Moves
<1>4. OverLimitIsNoticed'
  BY <1>0, <1>3 DEF OverLimitIsNoticed, Evictions
<1>5. Saves(r)'
  BY <1>1 DEF Saves
<1> QED
  BY <1>0, <1>1, <1>2, <1>4, <1>5, PassKeepsOthers DEF Evictions

-----------------------------------------------------------------------------
(* The invariant. *)

(* Every step keeps the types and what eviction passes rely on. *)
LEMMA StepEvictions ==
    ASSUME Types, Evictions, [Next]_vars
    PROVE  Types' /\ Evictions'
<1>1. ASSUME NEW r \in Requests, OuterStep(r) PROVE Types' /\ Evictions'
  BY <1>1, OuterSteps, OuterKeeps
<1>2. CASE UNCHANGED vars \/ \E w \in Works : Age(w)
  <2>1. /\ row' = row /\ file' = file /\ temp' = temp /\ mu' = mu /\ skipped' = skipped
        /\ req' = req /\ work' \in [Works -> {"none", "fresh", "stale"}]
    BY <1>2 DEF vars, store, Age, Types
  <2>2. Types'
    BY <2>1 DEF Types
  <2>3. Cached' = Cached /\ Evicting' = Evicting /\ SavedSince' = SavedSince
    BY <2>1 DEF Cached, Evicting, SavedSince
  <2>4. OverLimitIsNoticed'
    BY <2>1, <2>3 DEF Evictions, OverLimitIsNoticed
  <2>5. ASSUME NEW p \in Requests PROVE Saves(p)'
    BY <2>1, <2>3 DEF Evictions, Saves, tmpPath
  <2> QED
    BY <2>2, <2>4, <2>5 DEF Evictions
<1>3. CASE Crash
  <2>1. Types'
    BY <1>3, IdleIsARequest, DiscoverAssumption DEF Crash, Types, Idle, Inside
  <2>2. OverLimitIsNoticed' /\ \A p \in Requests : Saves(p)'
    BY <1>3 DEF Crash, OverLimitIsNoticed, Saves, Idle
  <2> QED
    BY <2>1, <2>2 DEF Evictions
<1> QED
  BY <1>1, <1>2, <1>3, InsertKeeps, LockKeeps, TotalKeeps, ChooseKeeps, RemoveFileKeeps,
     DeleteRowKeeps, EndOfPassKeeps, UnlockKeeps
  DEF Next, Go, OuterStep

(* A request that stays out of the limiter leaves the count as it is. *)
LEMMA SameWaiters ==
    ASSUME WaitersAreCounted, active' = active,
           \A p \in Requests : \A at \in {"wait", "full"} : req'[p].at = at <=> req[p].at = at
    PROVE  WaitersAreCounted'
<1>1. Waiting' = Waiting
  BY DEF Waiting
<1>2. {r \in Requests : req'[r].at = "wait"} = {r \in Requests : req[r].at = "wait"}
  OBVIOUS
<1> QED
  BY <1>1, <1>2 DEF WaitersAreCounted

(* One request enters the queue. *)
LEMMA EnterCounts ==
    ASSUME Types, WaitersAreCounted, NEW r \in Requests, Enter(r)
    PROVE  WaitersAreCounted'
<1>1. /\ Moves(r) /\ req[r].at = "limit" /\ active' = active + 1
      /\ req'[r].at = IF active + 1 > WaiterCap THEN "full" ELSE "wait"
  BY GoneTo DEF Enter, Types, Places
<1>2. Waiting' = Waiting \cup {r} /\ r \notin Waiting
  BY <1>1 DEF Waiting, Moves
<1>3. IsFiniteSet(Waiting) /\ Cardinality(Waiting) \in Nat
  BY DiscoverAssumption, FS_Subset, FS_CardinalityType DEF Waiting
<1>4. IsFiniteSet(Waiting') /\ Cardinality(Waiting') = Cardinality(Waiting) + 1
  BY <1>2, <1>3, FS_AddElement
<1>5. Cardinality({p \in Requests : req'[p].at = "wait"}) <= WaiterCap
  <2>1. CASE active + 1 > WaiterCap
    <3>1. {p \in Requests : req'[p].at = "wait"} = {p \in Requests : req[p].at = "wait"}
      BY <1>1, <2>1 DEF Moves
    <3> QED
      BY <3>1, Zenon DEF WaitersAreCounted
  <2>2. CASE ~(active + 1 > WaiterCap)
    <3>1. {p \in Requests : req'[p].at = "wait"} \in SUBSET (Waiting')
      BY DEF Waiting
    <3>2. Cardinality({p \in Requests : req'[p].at = "wait"}) <= Cardinality(Waiting')
      BY <1>4, <3>1, FS_Subset
    <3>3. Cardinality({p \in Requests : req'[p].at = "wait"}) \in Nat
      BY <1>4, <3>1, FS_Subset, FS_CardinalityType
    <3> QED
      BY <1>3, <1>4, <2>2, <3>2, <3>3, DiscoverAssumption DEF WaitersAreCounted
  <2> QED
    BY <2>1, <2>2
<1> QED
  BY <1>1, <1>4, <1>5 DEF WaitersAreCounted

(* One request leaves the queue, with a token or without. *)
LEMMA LeaveCounts ==
    ASSUME Types, WaitersAreCounted, NEW r \in Requests, Moves(r),
           req[r].at \in {"wait", "full"}, req'[r].at \notin {"wait", "full"},
           active' = active - 1
    PROVE  WaitersAreCounted'
<1>1. Waiting' = Waiting \ {r} /\ r \in Waiting
  BY DEF Waiting, Moves
<1>2. IsFiniteSet(Waiting) /\ Cardinality(Waiting) \in Nat
  BY DiscoverAssumption, FS_Subset, FS_CardinalityType DEF Waiting
<1>3. Cardinality(Waiting') = Cardinality(Waiting) - 1
  BY <1>1, <1>2, FS_RemoveElement, Zenon
<1>4. {p \in Requests : req'[p].at = "wait"} \in SUBSET {p \in Requests : req[p].at = "wait"}
  BY DEF Moves
<1>5. IsFiniteSet({p \in Requests : req[p].at = "wait"})
  BY DiscoverAssumption, FS_Subset
<1>6. /\ Cardinality({p \in Requests : req'[p].at = "wait"}) <= Cardinality({p \in Requests : req[p].at = "wait"})
      /\ Cardinality({p \in Requests : req[p].at = "wait"}) \in Nat
      /\ Cardinality({p \in Requests : req'[p].at = "wait"}) \in Nat
  BY <1>4, <1>5, FS_Subset, FS_CardinalityType
<1> QED
  BY <1>3, <1>6, DiscoverAssumption DEF WaitersAreCounted

(* Every step keeps the counter exact. *)
LEMMA StepWaiters ==
    ASSUME Types, WaitersAreCounted, [Next]_vars
    PROVE  WaitersAreCounted'
<1> DEFINE Apart(p) == p \notin {"wait", "full"}
<1>0. Places \cap {"idle"} = {"idle"} /\ Idle.at = "idle"
  BY DEF Places, Idle
<1>1. ASSUME NEW r \in Requests, active' = active, Moves(r), Apart(req[r].at), Apart(req'[r].at)
      PROVE  WaitersAreCounted'
  BY <1>1, SameWaiters DEF Moves
<1>2. ASSUME active' = active, req' = req PROVE WaitersAreCounted'
  BY <1>2, SameWaiters
<1>3. ASSUME NEW r \in Requests, NEW at \in Places, active' = active, Apart(req[r].at), Apart(at),
             End(r) \/ Goto(r, at)
      PROVE  WaitersAreCounted'
  BY <1>0, <1>1, <1>3, Ended, GoneTo, SMTT(30) DEF Types
<1>4. ASSUME NEW r \in Requests, NEW c \in Covers, GetCover(r, c) PROVE WaitersAreCounted'
  <2>1. ASSUME NEW at \in {"stat", "limit"},
               req' = [req EXCEPT ![r] = [Idle EXCEPT !.at = at, !.key = c]]
        PROVE  WaitersAreCounted'
    BY <1>1, <1>4, <2>1, Begins, Zenon DEF GetCover, Types
  <2> QED
    BY <1>2, <1>4, <2>1, Zenon DEF GetCover
<1>5. ASSUME NEW r \in Requests, NEW w \in Works, GetWork(r, w) PROVE WaitersAreCounted'
  <2>1. ASSUME req' = [req EXCEPT ![r] = [Idle EXCEPT !.at = "limit", !.key = w]]
        PROVE  WaitersAreCounted'
    BY <1>1, <1>5, <2>1, Begins, Zenon DEF GetWork, Types
  <2> QED
    BY <1>2, <1>5, <2>1, SMTT(30) DEF GetWork
<1>6. ASSUME NEW r \in Requests, Search(r) PROVE WaitersAreCounted'
  <2>1. PICK q : q = [Idle EXCEPT !.at = "limit"]
    BY Zenon
  <2>2. q \in Request /\ q.at = "limit"
    BY <2>1, IdleIsARequest DEF Request, Places
  <2>3. Moves(r) /\ req'[r] = q
    BY <1>6, <2>1, <2>2, Replaced, Zenon DEF Search, Types
  <2> QED
    BY <1>1, <1>6, <2>2, <2>3 DEF Search
<1>7. ASSUME NEW r \in Requests, TurnAway(r) \/ Leave(r) PROVE WaitersAreCounted'
  <2>1. Moves(r) /\ req'[r].at \in {"call", "idle", "answered"}
    BY <1>7, GoneTo, Failed DEF TurnAway, Leave, Types, Places
  <2>2. req[r].at \in {"wait", "full"} /\ active' = active - 1
    BY <1>7 DEF TurnAway, Leave
  <2> QED
    BY <2>1, <2>2, LeaveCounts
<1>8. ASSUME NEW r \in Requests, Answer(r) PROVE WaitersAreCounted'
  <2>1. Moves(r) /\ req'[r].at \in {"write", "mark", "idle", "answered"}
    BY <1>8, GoneTo, Failed, SMTT(30) DEF Answer, Types, Places
  <2> QED
    BY <1>1, <1>8, <2>1 DEF Answer
<1>9. ASSUME NEW r \in Requests, NextCall(r) PROVE WaitersAreCounted'
  BY <1>1, <1>9, NextCallMoves, Zenon DEF NextCall, Types
<1>10. ASSUME NEW r \in Requests,
              Stat(r) \/ SaveWork(r) \/ MarkMissing(r) \/ WriteTemp(r) \/ Written(r) \/ Rename(r)
       PROVE  WaitersAreCounted'
  <2>1. PICK at \in {"limit", "writing", "rename", "insert"} : End(r) \/ Goto(r, at)
    BY <1>10 DEF Stat, SaveWork, MarkMissing, WriteTemp, Written, Rename
  <2>2. active' = active /\ Apart(req[r].at) /\ at \in Places /\ Apart(at)
    BY <1>10 DEF Stat, SaveWork, MarkMissing, WriteTemp, Written, Rename, Places
  <2> QED
    BY <1>3, <2>1, <2>2
<1>11. ASSUME NEW r \in Requests, Insert(r) \/ Lock(r) \/ EndOfPass(r) \/ Unlock(r)
       PROVE  WaitersAreCounted'
  <2>1. PICK at \in {"evict", "total", "unlock"} : End(r) \/ Goto(r, at)
    BY <1>11 DEF Insert, Lock, EndOfPass, Unlock
  <2>2. active' = active /\ Apart(req[r].at) /\ at \in Places /\ Apart(at)
    BY <1>11 DEF Insert, Lock, EndOfPass, Unlock, Places
  <2> QED
    BY <1>3, <2>1, <2>2
<1>12. ASSUME NEW r \in Requests, Total(r) PROVE WaitersAreCounted'
  <2>1. CASE Goto(r, "unlock")
    BY <1>3, <1>12, <2>1 DEF Total, Places
  <2>2. CASE /\ Cardinality(Cached) > MaxCovers
             /\ req' = [req EXCEPT ![r].at = "choose", ![r].over = Cardinality(Cached) - MaxCovers]
    <3>1. PICK n : n = Cardinality(Cached) - MaxCovers
      OBVIOUS
    <3>2. n \in Nat
      BY <2>2, <3>1, CachedIsFinite, DiscoverAssumption, SMTT(30)
    <3>3. Moves(r) /\ req'[r].at = "choose"
      BY <2>2, <3>1, <3>2, OverMoves, Zenon DEF Types
    <3> QED
      BY <1>1, <1>12, <3>3 DEF Total
  <2> QED
    BY <1>12, <2>1, <2>2 DEF Total
<1>13. ASSUME NEW r \in Requests, Choose(r) PROVE WaitersAreCounted'
  <2>1. PICK S \in SUBSET Covers : req' = [req EXCEPT ![r].at = "remove", ![r].victims = S]
    BY <1>13, Zenon DEF Choose, Cached
  <2>2. Moves(r) /\ req'[r].at = "remove"
    BY <2>1, VictimsMove, Zenon DEF Types
  <2> QED
    BY <1>1, <1>13, <2>2, Zenon DEF Choose
<1>14. ASSUME NEW r \in Requests, NEW c \in Covers, RemoveFile(r, c) PROVE WaitersAreCounted'
  BY <1>1, <1>14, RemoveFileMoves, Zenon DEF RemoveFile, Types
<1>15. ASSUME NEW r \in Requests, DeleteRow(r) PROVE WaitersAreCounted'
  BY <1>1, <1>15, DeleteRowMoves, Zenon DEF DeleteRow, Types
<1>16. CASE Crash
  <2>1. Waiting' = {} /\ {r \in Requests : req'[r].at = "wait"} = {} /\ active' = 0
    BY <1>0, <1>16 DEF Crash, Waiting
  <2>2. Cardinality(Waiting') = 0
    BY <2>1, FS_EmptySet
  <2>3. Cardinality({r \in Requests : req'[r].at = "wait"}) = 0
    BY <2>1, FS_EmptySet, SMTT(30)
  <2> QED
    BY <2>1, <2>2, <2>3, DiscoverAssumption DEF WaitersAreCounted
<1>17. CASE UNCHANGED vars \/ \E w \in Works : Age(w)
  BY <1>2, <1>17 DEF vars, Age
<1> QED
  BY <1>4, <1>5, <1>6, <1>7, <1>8, <1>9, <1>10, <1>11, <1>12, <1>13, <1>14, <1>15, <1>16, <1>17,
     EnterCounts
  DEF Next, Go

(* A file only ever comes from a finished temporary file. *)
LEMMA StepFiles ==
    ASSUME Types, Evictions, CoverFilesAreWhole, [Next]_vars
    PROVE  CoverFilesAreWhole'
<1>1. ASSUME NEW r \in Requests, Rename(r) PROVE CoverFilesAreWhole'
  <2>1. temp[tmpPath(r)] # "torn"
    BY <1>1, Zenon DEF Rename, Evictions, Saves
  <2> QED
    BY <1>1, <2>1 DEF Rename, CoverFilesAreWhole, Types
<1>2. ASSUME NEW r \in Requests, NEW c \in Covers, RemoveFile(r, c) PROVE CoverFilesAreWhole'
  BY <1>2 DEF RemoveFile, CoverFilesAreWhole, Types
<1>3. CASE file' = file
  BY <1>3 DEF CoverFilesAreWhole
<1> QED
  BY <1>1, <1>2, <1>3, Zenon
  DEF Next, Go, vars, store, GetCover, GetWork, Search, Age, Stat, Enter, TurnAway, Leave, Answer,
      NextCall, SaveWork, MarkMissing, WriteTemp, Written, Insert, Lock, Total, Choose, DeleteRow,
      EndOfPass, Unlock, Crash

(* The parts make up the invariant. *)
LEMMA Parts ==
    DiscoverInvariant <=> Types /\ Evictions /\ WaitersAreCounted /\ CoverFilesAreWhole
<1>1. IsFiniteSet(Waiting)
  BY DiscoverAssumption, FS_Subset DEF Waiting
<1>2. WaitersAreCounted => active \in Nat
  BY <1>1, FS_CardinalityType DEF WaitersAreCounted
<1> QED
  BY <1>2 DEF DiscoverInvariant, TypeOK, Types, Evictions, Inside

(* The caches begin empty. *)
LEMMA InitHolds == Init => DiscoverInvariant
<1> SUFFICES ASSUME Init PROVE DiscoverInvariant
  OBVIOUS
<1>1. Types
  BY IdleIsARequest, DiscoverAssumption, Zenon DEF Init, Types, Idle, Inside
<1>2. Cached = {} /\ Waiting = {} /\ {r \in Requests : req[r].at = "wait"} = {}
  BY DEF Init, Cached, Waiting, Idle
<1>3. Cardinality(Cached) = 0
  BY <1>2, FS_EmptySet
<1>4. Evictions
  BY <1>3, DiscoverAssumption DEF Init, Evictions, OverLimitIsNoticed, Saves, Idle
<1>5. WaitersAreCounted
  <2>1. Cardinality({r \in Requests : req[r].at = "wait"}) = 0
    BY <1>2, FS_EmptySet
  <2>2. Cardinality(Waiting) = 0 /\ active = 0
    BY <1>2, FS_EmptySet DEF Init
  <2> QED
    BY <2>1, <2>2, DiscoverAssumption DEF WaitersAreCounted
<1>6. CoverFilesAreWhole
  BY DEF Init, CoverFilesAreWhole
<1> QED
  BY <1>1, <1>4, <1>5, <1>6, Parts

(* Every step keeps the invariant. *)
LEMMA NextHolds == DiscoverInvariant /\ [Next]_vars => DiscoverInvariant'
<1>1. Types /\ Evictions /\ WaitersAreCounted /\ CoverFilesAreWhole /\ [Next]_vars
        => (Types /\ Evictions /\ WaitersAreCounted /\ CoverFilesAreWhole)'
  BY StepEvictions, StepWaiters, StepFiles
<1> QED
  BY <1>1, Parts, PTL

(* The limiter's counter, the files and the eviction passes, for any       *)
(* number of covers and of requests that overlap, die with the process or  *)
(* are cut short by a failed statement.                                    *)
THEOREM DiscoverInvariantHolds == Spec => []DiscoverInvariant
BY InitHolds, NextHolds, PTL DEF Spec

(* No request is counted among the waiters once it has left Wait.          *)
THEOREM LimiterCountsExactly == Spec => []WaitersAreCounted
<1>1. DiscoverInvariant => WaitersAreCounted
  BY DEF DiscoverInvariant
<1> QED
  BY <1>1, DiscoverInvariantHolds, PTL

(* A cover's file is never a part of an image, whoever saves it at once    *)
(* and wherever the process dies.                                          *)
THEOREM FilesAreAlwaysWhole == Spec => []CoverFilesAreWhole
<1>1. DiscoverInvariant => CoverFilesAreWhole
  BY DEF DiscoverInvariant
<1> QED
  BY <1>1, DiscoverInvariantHolds, PTL

(* Images over the limit are evicted by a pass that is under way or still  *)
(* to come, unless one was cut short.                                      *)
THEOREM NothingOverIsForgotten == Spec => []OverLimitIsNoticed
<1>1. DiscoverInvariant => OverLimitIsNoticed
  BY DEF DiscoverInvariant
<1> QED
  BY <1>1, DiscoverInvariantHolds, PTL

=============================================================================
