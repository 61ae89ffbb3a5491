------------------------ MODULE ReaderContentProofs ------------------------
(***************************************************************************)
(* Proofs about the cache of open archives for every number of books,      *)
(* requests and files, every bound on the open archives and every idle     *)
(* time.                                                                   *)
(***************************************************************************)
EXTENDS ReaderContent, FiniteSetTheorems, TLAPS

RequestRow == [at : Phase, edition : Editions \cup {None}, archive : Archives \cup {None}]

\* The holders of an archive are a finite set, empty exactly when they count 0.
LEMMA HoldersFinite ==
    ASSUME NEW a
    PROVE  /\ IsFiniteSet(Holders(a))
           /\ Cardinality(Holders(a)) \in Nat
           /\ Cardinality(Holders(a)) = 0 <=> Holders(a) = {}
<1>1. Holders(a) \subseteq Requests BY DEF Holders
<1>2. IsFiniteSet(Requests) BY ReaderAssumption
<1>3. IsFiniteSet(Holders(a)) BY <1>1, <1>2, FS_Subset
<1> QED BY <1>3, FS_CardinalityType, FS_EmptySet

\* A sweep closes no archive that a request holds or has spooled, and what it
\* leaves on disk is what still has an owner.
LEMMA SweepIsSafe ==
    ASSUME CacheInvariant
    PROVE  /\ Swept \in [Editions -> Archives \cup {None}]
           /\ SweptDisk \subseteq disk
           /\ \A e \in Editions : Swept[e] \in {None, entries[e]}
           /\ \A r \in Requests : request[r].at = "hold" =>
                 /\ request[r].archive \in SweptDisk
                 /\ Swept[request[r].edition] = request[r].archive
           /\ \A r \in Requests : request[r].at = "spooled" => request[r].archive \in SweptDisk
           /\ \A a \in Archives : a \in SweptDisk <=>
                 \/ \E e \in Editions : Swept[e] = a
                 \/ \E r \in Requests : request[r].at = "spooled" /\ request[r].archive = a
<1>0. /\ entries \in [Editions -> Archives \cup {None}] /\ None \notin Archives
      /\ disk \subseteq Archives /\ request \in [Requests -> RequestRow]
  BY ReaderAssumption DEF CacheInvariant, TypeOK, RequestRow
<1>1. Swept \in [Editions -> Archives \cup {None}] BY <1>0 DEF Swept
<1>2. SweptDisk \subseteq disk BY DEF SweptDisk
<1>3. \A e \in Editions : Swept[e] \in {None, entries[e]} BY DEF Swept
<1>4. ASSUME NEW e \in Stale PROVE Holders(entries[e]) = {}
  BY HoldersFinite DEF Stale, CacheInvariant, HeldArchiveIsOpen
<1>5. ASSUME NEW r \in Requests, request[r].at = "hold"
      PROVE  request[r].archive \in SweptDisk /\ Swept[request[r].edition] = request[r].archive
  <2>1. /\ request[r].edition \in Editions /\ request[r].archive \in disk
        /\ entries[request[r].edition] = request[r].archive
    BY <1>5 DEF CacheInvariant, HasItsArchive, HeldArchiveIsOpen
  <2>2. r \in Holders(request[r].archive) BY <1>5 DEF Holders
  <2>3. \A e \in Stale : entries[e] # request[r].archive BY <1>4, <2>2
  <2> QED BY <2>1, <2>3 DEF SweptDisk, Swept
<1>6. ASSUME NEW r \in Requests, request[r].at = "spooled"
      PROVE  request[r].archive \in SweptDisk
  <2>1. request[r].archive \in disk /\ \A e \in Editions : entries[e] # request[r].archive
    BY <1>6 DEF CacheInvariant, HasItsArchive
  <2> QED BY <2>1 DEF SweptDisk, Stale, Cached
<1>7. ASSUME NEW a \in Archives
      PROVE  a \in SweptDisk <=>
                 \/ \E e \in Editions : Swept[e] = a
                 \/ \E r \in Requests : request[r].at = "spooled" /\ request[r].archive = a
  <2>1. ASSUME a \in SweptDisk, \A r \in Requests : request[r].at = "spooled" => request[r].archive # a
        PROVE  \E e \in Editions : Swept[e] = a
    <3>1. PICK e \in Editions : entries[e] = a
      BY <1>2, <2>1 DEF CacheInvariant, EveryFileHasAnOwner
    <3>2. e \notin Stale BY <2>1, <3>1 DEF SweptDisk
    <3> QED BY <3>1, <3>2 DEF Swept
  <2>2. ASSUME NEW e \in Editions, Swept[e] = a PROVE a \in SweptDisk
    <3>1. e \notin Stale /\ entries[e] = a BY <1>0, <2>2 DEF Swept
    <3>2. a \in disk BY <3>1 DEF CacheInvariant, EveryFileHasAnOwner
    <3>3. \A f \in Stale : entries[f] # a
      BY <1>0, <3>1 DEF CacheInvariant, EveryFileHasAnOwner, Cached, Stale
    <3> QED BY <3>2, <3>3 DEF SweptDisk
  <2> QED BY <1>6, <2>1, <2>2
<1> QED BY <1>1, <1>2, <1>3, <1>5, <1>6, <1>7

\* Phases in which a request has no archive and no load.
Empty == {"idle", "acquire", "wait", "hit", "failed"}

\* A step that leaves the cache and the disk alone, and moves requests between
\* phases without an archive.
LEMMA RequestStep ==
    ASSUME CacheInvariant, UNCHANGED <<disk, cache>>,
           request' \in [Requests -> RequestRow],
           \A s \in Requests : request'[s] # request[s] =>
              /\ request[s].at \in Empty /\ request'[s].at \in Empty
              /\ request'[s].at # "idle" => request'[s].edition \in Editions
              /\ request'[s].archive = None
    PROVE  CacheInvariant'
<1> USE DEF Empty
<1>1. TypeOK' BY DEF CacheInvariant, TypeOK, RequestRow, cache
<1>2. None \notin Archives /\ disk \subseteq Archives /\ entries \in [Editions -> Archives \cup {None}]
  BY ReaderAssumption DEF CacheInvariant, TypeOK
<1>3. \A s \in Requests : HasItsArchive(s)'
  <2> TAKE s \in Requests
  <2>1. HasItsArchive(s) /\ \A q \in Requests : HasItsArchive(q) BY DEF CacheInvariant
  <2>2. CASE request'[s] = request[s]
    <3>1. \A q \in Requests : request[s].at = "spooled" /\ q # s => request'[q].archive # request[s].archive
      BY <1>2, <2>1 DEF HasItsArchive
    <3> QED BY <2>1, <2>2, <3>1 DEF HasItsArchive, cache
  <2>3. CASE request'[s] # request[s]
    BY <2>3 DEF HasItsArchive
  <2> QED BY <2>2, <2>3
<1>4. \A a : Holders(a)' = Holders(a) BY DEF Holders
<1>5. HeldArchiveIsOpen'
  BY <1>4 DEF CacheInvariant, HeldArchiveIsOpen, Cached, cache
<1>6. EveryFileHasAnOwner'
  <2>1. \A s \in Requests : request'[s].at = "spooled" <=> request[s].at = "spooled" OBVIOUS
  <2>2. \A s \in Requests : request[s].at = "spooled" => request'[s] = request[s] OBVIOUS
  <2> QED BY <2>1, <2>2 DEF CacheInvariant, EveryFileHasAnOwner, Cached, cache
<1>7. \A e : Loading(e)' = Loading(e) BY DEF Loading
<1>8. OneLoadPerBook' BY <1>7 DEF CacheInvariant, OneLoadPerBook, cache
<1> QED BY <1>1, <1>3, <1>5, <1>6, <1>8 DEF CacheInvariant

\* Begin, and the two ends of a wait.
LEMMA WaitingKeepsInvariant ==
    ASSUME CacheInvariant, NEW r \in Requests,
           (\E e \in Editions : Begin(r, e)) \/ WaitSucceeds(r) \/ WaitEnds(r)
    PROVE  CacheInvariant'
<1>0. request \in [Requests -> RequestRow] /\ HasItsArchive(r)
  BY DEF CacheInvariant, TypeOK, RequestRow
<1>1. ASSUME NEW e \in Editions, Begin(r, e) PROVE CacheInvariant'
  BY <1>0, <1>1, RequestStep DEF Begin, RequestRow, Phase, Empty
<1>2. CASE WaitSucceeds(r)
  BY <1>0, <1>2, RequestStep DEF WaitSucceeds, RequestRow, Phase, Empty, HasItsArchive
<1>3. CASE WaitEnds(r)
  BY <1>0, <1>3, RequestStep DEF WaitEnds, NoRequest, RequestRow, Phase, Empty
<1> QED BY <1>1, <1>2, <1>3

\* The sweep of a request that then waits or loads.
LEMMA SweepStep ==
    ASSUME CacheInvariant, NEW r \in Requests, AcquireWait(r) \/ AcquireMiss(r)
    PROVE  CacheInvariant'
<1>0. /\ request \in [Requests -> RequestRow] /\ \A s \in Requests : HasItsArchive(s)
      /\ entries \in [Editions -> Archives \cup {None}] /\ None \notin Archives
      /\ disk \subseteq Archives /\ request[r].at = "acquire"
      /\ entries' = Swept /\ disk' = SweptDisk /\ UNCHANGED <<refs, evict, idle>>
  BY ReaderAssumption DEF CacheInvariant, TypeOK, RequestRow, AcquireWait, AcquireMiss
<1>1. PICK p \in {"wait", "load"} :
         /\ request' = [request EXCEPT ![r].at = p]
         /\ p = "load" => Swept[request[r].edition] = None /\ Loading(request[r].edition) = {}
  BY DEF AcquireWait, AcquireMiss
<1>2. /\ request'[r].at = p /\ request'[r].edition = request[r].edition
      /\ request'[r].archive = None /\ request[r].edition \in Editions
      /\ \A s \in Requests \ {r} : request'[s] = request[s]
      /\ request' \in [Requests -> RequestRow]
  BY <1>0, <1>1 DEF RequestRow, Phase, HasItsArchive
<1>3. TypeOK'
  BY <1>0, <1>2, SweepIsSafe DEF CacheInvariant, TypeOK, RequestRow
<1>4. \A s \in Requests : HasItsArchive(s)'
  <2> TAKE s \in Requests
  <2>1. CASE s = r BY <1>2, <2>1 DEF HasItsArchive
  <2>2. CASE s # r
    <3>1. request'[s] = request[s] BY <1>2, <2>2
    <3>2. request[s].at \in {"spooled", "hold"} => request[s].archive \in SweptDisk BY SweepIsSafe
    <3>3. request[s].at = "spooled" => \A e \in Editions : Swept[e] # request[s].archive
      BY <1>0, SweepIsSafe DEF HasItsArchive
    <3>4. request[s].at = "spooled" =>
             \A q \in Requests \ {s} : request'[q].archive # request[s].archive
      BY <1>0, <1>2 DEF HasItsArchive
    <3> QED BY <1>0, <3>1, <3>2, <3>3, <3>4 DEF HasItsArchive
  <2> QED BY <2>1, <2>2
<1>5. \A a : Holders(a)' = Holders(a) BY <1>0, <1>1, <1>2 DEF Holders
<1>6. HeldArchiveIsOpen'
  <2>1. \A s \in Requests : request'[s].at = "hold" => s # r /\ request'[s] = request[s]
    BY <1>1, <1>2
  <2>2. \A e \in Cached' : e \in Cached /\ entries'[e] = entries[e]
    BY <1>0, SweepIsSafe DEF Cached
  <2> QED BY <1>0, <1>5, <2>1, <2>2, SweepIsSafe DEF CacheInvariant, HeldArchiveIsOpen
<1>7. EveryFileHasAnOwner'
  <2>1. \A s \in Requests : request'[s].at = "spooled" <=> request[s].at = "spooled"
    BY <1>0, <1>1, <1>2
  <2>2. \A s \in Requests : request[s].at = "spooled" => request'[s] = request[s]
    BY <1>0, <1>2
  <2>3. \A e \in Cached' : e \in Cached /\ entries'[e] = entries[e]
    BY <1>0, SweepIsSafe DEF Cached
  <2> QED BY <1>0, <2>1, <2>2, <2>3, SweepIsSafe DEF CacheInvariant, EveryFileHasAnOwner
<1>8. OneLoadPerBook'
  <2> SUFFICES ASSUME NEW e \in Editions
               PROVE  /\ \A s, q \in Loading(e)' : s = q
                      /\ entries'[e] # None => Loading(e)' = {}
    BY DEF OneLoadPerBook
  <2>1. CASE p = "load" /\ e = request[r].edition
    <3>1. Loading(e)' = {r} BY <1>1, <1>2, <2>1 DEF Loading
    <3> QED BY <1>0, <1>1, <2>1, <3>1
  <2>2. CASE ~(p = "load" /\ e = request[r].edition)
    <3>1. Loading(e)' = Loading(e) BY <1>0, <1>1, <1>2, <2>2 DEF Loading
    <3> QED BY <1>0, <3>1, SweepIsSafe DEF CacheInvariant, OneLoadPerBook
  <2> QED BY <2>1, <2>2
<1> QED BY <1>3, <1>4, <1>6, <1>7, <1>8 DEF CacheInvariant

\* A hit: one holder more, and one reference more.
LEMMA HitKeepsInvariant ==
    ASSUME CacheInvariant, NEW r \in Requests, AcquireHit(r)
    PROVE  CacheInvariant'
<1>0. /\ request \in [Requests -> RequestRow] /\ \A s \in Requests : HasItsArchive(s)
      /\ entries \in [Editions -> Archives \cup {None}] /\ None \notin Archives
      /\ disk \subseteq Archives /\ request[r].at = "acquire" /\ request[r].edition \in Editions
      /\ refs \in [Archives -> Nat] /\ idle \in [Archives -> 0..IdleTTL] /\ IdleTTL \in Nat
      /\ entries' = Swept /\ disk' = SweptDisk /\ UNCHANGED evict
  BY ReaderAssumption DEF CacheInvariant, TypeOK, RequestRow, AcquireHit, HasItsArchive
<1>e. PICK e \in Editions : e = request[r].edition BY <1>0
<1>1. PICK a \in Archives : a = Swept[e] /\ a = entries[e] /\ e \in Cached
  BY <1>0, <1>e, SweepIsSafe DEF AcquireHit, Cached
<1>2. /\ request' = [request EXCEPT ![r].at = "hold", ![r].archive = a]
      /\ refs' = [refs EXCEPT ![a] = @ + 1] /\ idle' = [idle EXCEPT ![a] = 0]
  BY <1>e, <1>1 DEF AcquireHit
<1>3. /\ request'[r].at = "hold" /\ request'[r].edition = e /\ request'[r].archive = a
      /\ \A s \in Requests \ {r} : request'[s] = request[s]
  BY <1>0, <1>e, <1>2 DEF RequestRow
<1>4. request' \in [Requests -> RequestRow]
  <2> DEFINE b == [request[r] EXCEPT !.at = "hold"]
             c == [b EXCEPT !.archive = a]
  <2>1. b \in RequestRow BY <1>0 DEF RequestRow, Phase
  <2> HIDE DEF b
  <2>2. c \in RequestRow BY <1>1, <2>1 DEF RequestRow
  <2>3. request' = [request EXCEPT ![r] = c] BY <1>0, <1>2, Zenon DEF b, c, RequestRow
  <2> QED BY <1>0, <2>2, <2>3
<1>5. TypeOK'
  <2>1. refs' \in [Archives -> Nat] /\ idle' \in [Archives -> 0..IdleTTL] BY <1>0, <1>1, <1>2
  <2> QED BY <1>0, <1>4, <2>1, SweepIsSafe DEF CacheInvariant, TypeOK, RequestRow
<1>6. a \in SweptDisk BY <1>0, <1>1, SweepIsSafe, Zenon
<1>7. \A s \in Requests : HasItsArchive(s)'
  <2> TAKE s \in Requests
  <2>1. CASE s = r BY <1>0, <1>3, <1>6, <2>1 DEF HasItsArchive
  <2>2. CASE s # r
    <3>1. request'[s] = request[s] BY <1>3, <2>2
    <3>2. request[s].at \in {"spooled", "hold"} => request[s].archive \in SweptDisk BY SweepIsSafe
    <3>3. request[s].at = "spooled" => \A f \in Editions : Swept[f] # request[s].archive
      BY <1>0, SweepIsSafe DEF HasItsArchive
    <3>4. request[s].at = "spooled" =>
             \A q \in Requests \ {s} : request'[q].archive # request[s].archive
      BY <1>0, <1>1, <1>3 DEF HasItsArchive
    <3> QED BY <1>0, <3>1, <3>2, <3>3, <3>4 DEF HasItsArchive
  <2> QED BY <2>1, <2>2
<1>8. \A f \in Cached' : f \in Cached /\ entries'[f] = entries[f]
  BY <1>0, SweepIsSafe DEF Cached
<1>9. HeldArchiveIsOpen'
  <2>1. ASSUME NEW s \in Requests, request'[s].at = "hold"
        PROVE  request'[s].archive \in disk' /\ entries'[request'[s].edition] = request'[s].archive
    <3>1. CASE s = r BY <1>0, <1>1, <1>3, <1>6, <3>1, Zenon
    <3>2. CASE s # r BY <1>0, <1>3, <2>1, <3>2, SweepIsSafe
    <3> QED BY <3>1, <3>2
  <2>2. ASSUME NEW f \in Cached'
        PROVE  refs'[entries'[f]] = Cardinality(Holders(entries[f]))'
    <3>1. PICK b \in Archives : /\ b = entries[f] /\ b = entries'[f]
                               /\ refs[b] = Cardinality(Holders(b))
      BY <1>0, <1>8 DEF CacheInvariant, HeldArchiveIsOpen, Cached
    <3>2. CASE b = a
      <4>1. Holders(b)' = Holders(b) \cup {r} /\ r \notin Holders(b)
        BY <1>0, <1>3, <3>2 DEF Holders
      <4>2. Cardinality(Holders(b) \cup {r}) = Cardinality(Holders(b)) + 1
        BY <4>1, HoldersFinite, FS_AddElement, SMTT(30)
      <4> QED BY <1>0, <1>2, <3>1, <3>2, <4>1, <4>2
    <3>3. CASE b # a
      <4>1. Holders(b)' = Holders(b) BY <1>0, <1>3, <3>3 DEF Holders
      <4> QED BY <1>0, <1>2, <3>1, <3>3, <4>1
    <3> QED BY <3>2, <3>3
  <2> QED BY <2>1, <2>2 DEF HeldArchiveIsOpen
<1>10. EveryFileHasAnOwner'
  <2>1. \A s \in Requests : request'[s].at = "spooled" <=> request[s].at = "spooled"
    BY <1>0, <1>3
  <2>2. \A s \in Requests : request[s].at = "spooled" => request'[s] = request[s]
    BY <1>0, <1>3
  <2> QED BY <1>0, <1>8, <2>1, <2>2, SweepIsSafe DEF CacheInvariant, EveryFileHasAnOwner
<1>11. OneLoadPerBook'
  <2>1. \A f : Loading(f)' = Loading(f) BY <1>0, <1>3 DEF Loading
  <2> QED BY <1>0, <2>1, SweepIsSafe DEF CacheInvariant, OneLoadPerBook
<1> QED BY <1>5, <1>7, <1>9, <1>10, <1>11 DEF CacheInvariant

\* A load gets its file.
LEMMA SpoolKeepsInvariant ==
    ASSUME CacheInvariant, NEW r \in Requests, Spool(r)
    PROVE  CacheInvariant'
<1>0. /\ request \in [Requests -> RequestRow] /\ \A s \in Requests : HasItsArchive(s)
      /\ entries \in [Editions -> Archives \cup {None}] /\ None \notin Archives
      /\ disk \subseteq Archives /\ request[r].at = "load" /\ request[r].edition \in Editions
      /\ UNCHANGED cache
  BY ReaderAssumption DEF CacheInvariant, TypeOK, RequestRow, Spool, HasItsArchive
<1>1. PICK a \in Archives \ disk :
         /\ \A s \in Requests : request[s].archive # a
         /\ disk' = disk \cup {a}
         /\ request' = [request EXCEPT ![r] = [at |-> "spooled", edition |-> request[r].edition,
                                               archive |-> a]]
  BY Zenon DEF Spool
<1>2. /\ request'[r] = [at |-> "spooled", edition |-> request[r].edition, archive |-> a]
      /\ \A s \in Requests \ {r} : request'[s] = request[s]
      /\ request' \in [Requests -> RequestRow]
  BY <1>0, <1>1 DEF RequestRow, Phase
<1>3. \A e \in Editions : entries[e] # a BY <1>1 DEF CacheInvariant, EveryFileHasAnOwner
<1>4. TypeOK' BY <1>0, <1>1, <1>2 DEF CacheInvariant, TypeOK, RequestRow, cache
<1>5. \A s \in Requests : HasItsArchive(s)'
  BY <1>0, <1>1, <1>2, <1>3 DEF HasItsArchive, cache
<1>6. \A b : Holders(b)' = Holders(b) BY <1>0, <1>2 DEF Holders
<1>7. HeldArchiveIsOpen'
  BY <1>0, <1>1, <1>2, <1>6 DEF CacheInvariant, HeldArchiveIsOpen, Cached, cache
<1>8. EveryFileHasAnOwner'
  <2>1. ASSUME NEW b \in Archives
        PROVE  (\E s \in Requests : request'[s].at = "spooled" /\ request'[s].archive = b)
                 <=> b = a \/ \E s \in Requests : request[s].at = "spooled" /\ request[s].archive = b
    BY <1>0, <1>2
  <2> QED BY <1>0, <1>1, <2>1 DEF CacheInvariant, EveryFileHasAnOwner, Cached, cache
<1>9. OneLoadPerBook'
  <2>1. \A f : Loading(f)' = Loading(f) BY <1>0, <1>2 DEF Loading
  <2> QED BY <1>0, <2>1 DEF CacheInvariant, OneLoadPerBook, cache
<1> QED BY <1>4, <1>5, <1>7, <1>8, <1>9 DEF CacheInvariant

\* The end of a load changes nothing of a request but the phase of a waiter.
LEMMA TellTellsWaiters ==
    ASSUME request \in [Requests -> RequestRow], NEW e, NEW result \in {"hit", "failed"}
    PROVE  /\ Tell(e, result) \in [Requests -> RequestRow]
           /\ \A s \in Requests :
                 /\ Tell(e, result)[s].edition = request[s].edition
                 /\ Tell(e, result)[s].archive = request[s].archive
                 /\ request[s].at # "wait" => Tell(e, result)[s] = request[s]
                 /\ request[s].at = "wait" => Tell(e, result)[s].at \in {"wait", result}
BY DEF Tell, RequestRow, Phase

\* A failed load takes its file along.
LEMMA FailureKeepsInvariant ==
    ASSUME CacheInvariant, NEW r \in Requests, LoadFails(r)
    PROVE  CacheInvariant'
<1>0. /\ request \in [Requests -> RequestRow] /\ \A s \in Requests : HasItsArchive(s)
      /\ entries \in [Editions -> Archives \cup {None}] /\ None \notin Archives
      /\ disk \subseteq Archives /\ request[r].at \in {"load", "spooled"}
      /\ UNCHANGED cache
  BY ReaderAssumption DEF CacheInvariant, TypeOK, RequestRow, LoadFails
<1>1. PICK a \in Archives \cup {None} : a = request[r].archive BY <1>0 DEF RequestRow
<1>2. disk' = disk \ {a} BY <1>1 DEF LoadFails
<1>3. /\ request'[r] = NoRequest
      /\ \A s \in Requests \ {r} :
            /\ request'[s].edition = request[s].edition
            /\ request'[s].archive = request[s].archive
            /\ request[s].at # "wait" => request'[s] = request[s]
            /\ request[s].at = "wait" => request'[s].at \in {"wait", "failed"}
      /\ request' \in [Requests -> RequestRow]
  <2>1. request' = [Tell(request[r].edition, "failed") EXCEPT ![r] = NoRequest] BY DEF LoadFails
  <2>2. NoRequest \in RequestRow BY DEF NoRequest, RequestRow, Phase
  <2> QED BY <1>0, <2>1, <2>2, TellTellsWaiters
<1>4. \A s \in Requests \ {r} : request[s].archive # a \/ a = None
  BY <1>0, <1>1 DEF HasItsArchive
<1>5. \A e \in Editions : entries[e] # a \/ a = None BY <1>0, <1>1 DEF HasItsArchive
<1>6. TypeOK' BY <1>0, <1>2, <1>3 DEF CacheInvariant, TypeOK, RequestRow, cache
<1>7. \A s \in Requests : HasItsArchive(s)'
  <2> TAKE s \in Requests
  <2>1. CASE s = r BY <1>3, <2>1 DEF HasItsArchive, NoRequest
  <2>2. CASE s # r
    <3>1. \A q \in Requests \ {s} : request'[q].archive \in {request[q].archive, None}
      BY <1>3 DEF NoRequest
    <3>2. CASE request[s].at = "wait" BY <1>0, <1>3, <2>2, <3>2 DEF HasItsArchive
    <3>3. CASE request[s].at # "wait"
      BY <1>0, <1>2, <1>3, <1>4, <2>2, <3>1, <3>3 DEF HasItsArchive, cache
    <3> QED BY <3>2, <3>3
  <2> QED BY <2>1, <2>2
<1>8. \A b : Holders(b)' = Holders(b) BY <1>0, <1>3 DEF Holders, NoRequest
<1>9. HeldArchiveIsOpen'
  <2>1. ASSUME NEW s \in Requests, request'[s].at = "hold"
        PROVE  request'[s].archive \in disk' /\ entries'[request'[s].edition] = request'[s].archive
    <3>1. s # r /\ request'[s] = request[s] BY <1>3, <2>1 DEF NoRequest
    <3> QED BY <1>0, <1>2, <1>4, <2>1, <3>1 DEF CacheInvariant, HeldArchiveIsOpen, cache
  <2> QED BY <1>0, <1>8, <2>1 DEF CacheInvariant, HeldArchiveIsOpen, Cached, cache
<1>10. EveryFileHasAnOwner'
  <2>1. ASSUME NEW b \in Archives
        PROVE  (\E s \in Requests : request'[s].at = "spooled" /\ request'[s].archive = b)
                 <=> b # a /\ \E s \in Requests : request[s].at = "spooled" /\ request[s].archive = b
    BY <1>0, <1>1, <1>3, <1>4 DEF NoRequest
  <2> QED BY <1>0, <1>2, <1>5, <2>1 DEF CacheInvariant, EveryFileHasAnOwner, Cached, cache
<1>11. OneLoadPerBook'
  <2>1. \A f : Loading(f)' = Loading(f) \ {r} BY <1>0, <1>3 DEF Loading, NoRequest
  <2> QED BY <1>0, <2>1 DEF CacheInvariant, OneLoadPerBook, cache
<1> QED BY <1>6, <1>7, <1>9, <1>10, <1>11 DEF CacheInvariant

\* Release: one holder and one reference less, and the last of an entry that is
\* on its way out closes it.
LEMMA ReleaseKeepsInvariant ==
    ASSUME CacheInvariant, NEW r \in Requests, Release(r)
    PROVE  CacheInvariant'
<1>0. /\ request \in [Requests -> RequestRow] /\ \A s \in Requests : HasItsArchive(s)
      /\ entries \in [Editions -> Archives \cup {None}] /\ None \notin Archives
      /\ disk \subseteq Archives /\ request[r].at = "hold"
      /\ refs \in [Archives -> Nat] /\ idle \in [Archives -> 0..IdleTTL] /\ IdleTTL \in Nat
      /\ UNCHANGED evict
  BY ReaderAssumption DEF CacheInvariant, TypeOK, RequestRow, Release
<1>1. PICK e \in Editions : e = request[r].edition BY <1>0 DEF HasItsArchive
<1>2. PICK a \in Archives : a = request[r].archive /\ a = entries[e] /\ a \in disk /\ e \in Cached
  BY <1>0, <1>1 DEF CacheInvariant, HeldArchiveIsOpen, HasItsArchive, Cached
<1>3. /\ request' = [request EXCEPT ![r] = NoRequest]
      /\ refs' = [refs EXCEPT ![a] = @ - 1] /\ idle' = [idle EXCEPT ![a] = 0]
  BY <1>2 DEF Release
<1>4. PICK last \in BOOLEAN :
         /\ last => refs[a] = 1
         /\ entries' = IF last THEN [entries EXCEPT ![e] = None] ELSE entries
         /\ disk' = IF last THEN disk \ {a} ELSE disk
  BY <1>1, <1>2, Zenon DEF Release
<1>5. /\ refs[a] = Cardinality(Holders(a)) /\ r \in Holders(a)
      /\ Cardinality(Holders(a) \ {r}) = Cardinality(Holders(a)) - 1
      /\ refs[a] # 0
  <2>1. refs[a] = Cardinality(Holders(a)) BY <1>2 DEF CacheInvariant, HeldArchiveIsOpen
  <2>2. r \in Holders(a) BY <1>0, <1>2, Zenon DEF Holders
  <2> QED BY <2>1, <2>2, HoldersFinite, FS_RemoveElement, Zenon
<1>6. /\ request'[r] = NoRequest /\ request' \in [Requests -> RequestRow]
      /\ \A s \in Requests \ {r} : request'[s] = request[s]
  BY <1>0, <1>3 DEF NoRequest, RequestRow, Phase
<1>7. last => \A s \in Requests \ {r} : request[s].at = "hold" => request[s].archive # a
  <2>1. last => Holders(a) \ {r} = {}
    <3>1. IsFiniteSet(Holders(a) \ {r}) BY HoldersFinite, FS_Subset
    <3> QED BY <1>4, <1>5, <3>1, FS_EmptySet
  <2> QED BY <2>1 DEF Holders
<1>8. TypeOK'
  <2>1. refs' \in [Archives -> Nat] /\ idle' \in [Archives -> 0..IdleTTL]
    BY <1>0, <1>3, <1>5
  <2>2. entries' \in [Editions -> Archives \cup {None}] /\ disk' \subseteq Archives
    BY <1>0, <1>4
  <2> QED BY <1>0, <1>6, <2>1, <2>2 DEF CacheInvariant, TypeOK, RequestRow
<1>9. \A s \in Requests \ {r} : request[s].at = "spooled" => request[s].archive # a
  BY <1>0, <1>2 DEF HasItsArchive
<1>10. \A s \in Requests : HasItsArchive(s)'
  <2> TAKE s \in Requests
  <2>1. CASE s = r BY <1>6, <2>1 DEF HasItsArchive, NoRequest
  <2>2. CASE s # r
    <3>1. \A q \in Requests \ {s} : request'[q].archive \in {request[q].archive, None}
      BY <1>6 DEF NoRequest
    <3>2. \A f \in Editions : entries'[f] \in {entries[f], None} BY <1>0, <1>4
    <3> QED BY <1>0, <1>4, <1>6, <1>7, <1>9, <2>2, <3>1, <3>2, SMTT(30) DEF HasItsArchive
  <2> QED BY <2>1, <2>2
<1>11. HeldArchiveIsOpen'
  <2>1. ASSUME NEW s \in Requests, request'[s].at = "hold"
        PROVE  request'[s].archive \in disk' /\ entries'[request'[s].edition] = request'[s].archive
    <3>1. s # r /\ request'[s] = request[s] BY <1>6, <2>1 DEF NoRequest
    <3>2. /\ request[s].archive \in disk /\ entries[request[s].edition] = request[s].archive
          /\ request[s].edition \in Editions
      BY <1>0, <2>1, <3>1 DEF CacheInvariant, HeldArchiveIsOpen, HasItsArchive
    <3>3. last => request[s].edition # e /\ request[s].archive # a
      <4>1. request[s].at = "hold" BY <2>1, <3>1
      <4> QED BY <1>2, <1>7, <3>1, <3>2, <4>1
    <3> QED BY <1>0, <1>4, <3>1, <3>2, <3>3
  <2>2. ASSUME NEW f \in Cached'
        PROVE  refs'[entries'[f]] = Cardinality(Holders(entries[f]))'
    <3>1. f \in Cached /\ entries'[f] = entries[f] /\ (last => f # e)
      BY <1>0, <1>4 DEF Cached
    <3>2. PICK b \in Archives : /\ b = entries[f] /\ b = entries'[f]
                               /\ refs[b] = Cardinality(Holders(b))
      BY <1>0, <3>1 DEF CacheInvariant, HeldArchiveIsOpen, Cached
    <3>3. CASE b = a
      <4>1. Holders(b)' = Holders(b) \ {r} BY <1>6, <3>3 DEF Holders, NoRequest
      <4> QED BY <1>0, <1>3, <1>5, <3>2, <3>3, <4>1
    <3>4. CASE b # a
      <4>1. request'[r].at # "hold" /\ request[r].archive # b BY <1>2, <1>6, <3>4 DEF NoRequest
      <4>2. Holders(b)' = Holders(b) BY <1>6, <4>1 DEF Holders
      <4> QED BY <1>0, <1>3, <3>2, <3>4, <4>2
    <3> QED BY <3>3, <3>4
  <2> QED BY <2>1, <2>2 DEF HeldArchiveIsOpen
<1>12. EveryFileHasAnOwner'
  <2>1. \A s \in Requests : request'[s].at = "spooled" <=> request[s].at = "spooled"
    BY <1>0, <1>6 DEF NoRequest
  <2>2. \A s \in Requests : request[s].at = "spooled" => request'[s] = request[s]
    BY <1>0, <1>6
  <2>3. \A f \in Editions : entries[f] = a => f = e
    BY <1>0, <1>2 DEF CacheInvariant, EveryFileHasAnOwner, Cached
  <2>4. \A b \in Archives : (\E f \in Editions : entries'[f] = b)
                             <=> (last => b # a) /\ \E f \in Editions : entries[f] = b
    BY <1>0, <1>2, <1>4, <2>3
  <2>5. \A f \in Cached' : f \in Cached /\ entries'[f] = entries[f] BY <1>0, <1>4 DEF Cached
  <2> QED BY <1>0, <1>4, <1>9, <2>1, <2>2, <2>4, <2>5 DEF CacheInvariant, EveryFileHasAnOwner
<1>13. OneLoadPerBook'
  <2>1. \A f : Loading(f)' = Loading(f) BY <1>0, <1>6 DEF Loading, NoRequest
  <2> QED BY <1>0, <1>4, <2>1 DEF CacheInvariant, OneLoadPerBook
<1> QED BY <1>8, <1>10, <1>11, <1>12, <1>13 DEF CacheInvariant

\* A load that succeeds: the spooled archive becomes an entry with one holder, and
\* what the eviction closes has none.
LEMMA SuccessKeepsInvariant ==
    ASSUME CacheInvariant, NEW r \in Requests, LoadSucceeds(r)
    PROVE  CacheInvariant'
<1>0. /\ request \in [Requests -> RequestRow] /\ \A s \in Requests : HasItsArchive(s)
      /\ entries \in [Editions -> Archives \cup {None}] /\ None \notin Archives
      /\ disk \subseteq Archives /\ request[r].at = "spooled"
      /\ refs \in [Archives -> Nat] /\ idle \in [Archives -> 0..IdleTTL] /\ IdleTTL \in Nat
      /\ evict \in [Archives -> BOOLEAN]
  BY ReaderAssumption DEF CacheInvariant, TypeOK, RequestRow, LoadSucceeds
<1>1. PICK e \in Editions : e = request[r].edition BY <1>0 DEF HasItsArchive
<1>2. PICK a \in Archives : /\ a = request[r].archive /\ a \in disk
                            /\ \A f \in Editions : entries[f] # a
                            /\ \A s \in Requests \ {r} : request[s].archive # a
  BY <1>0 DEF HasItsArchive
<1>3. entries[e] = None
  <2>1. r \in Loading(e) BY <1>0, <1>1, Zenon DEF Loading
  <2> QED BY <2>1 DEF CacheInvariant, OneLoadPerBook
<1>4. PICK gone \in SUBSET Editions, mark \in SUBSET Editions :
         /\ EvictLRU(Insert(e, a), gone, mark)
         /\ entries' = [f \in Editions |-> IF f \in gone THEN None ELSE Insert(e, a).entries[f]]
         /\ disk' = disk \ {Insert(e, a).entries[f] : f \in gone}
         /\ evict' = [b \in Archives |-> Insert(e, a).evict[b]
                                          \/ \E f \in mark : b = Insert(e, a).entries[f]]
  BY <1>1, <1>2, SMTT(30) DEF LoadSucceeds
<1>5. refs' = [refs EXCEPT ![a] = 1] /\ idle' = [idle EXCEPT ![a] = 0]
  BY <1>1, <1>2 DEF LoadSucceeds, Insert
<1>6. \A f \in gone : /\ f # e /\ f \in Cached /\ Insert(e, a).entries[f] = entries[f]
                      /\ refs[entries[f]] = 0
  <2>1. ASSUME NEW f \in gone
        PROVE  Insert(e, a).entries[f] # None /\ Insert(e, a).refs[Insert(e, a).entries[f]] = 0
    BY <1>4 DEF EvictLRU, Free
  <2>2. ASSUME NEW f \in gone PROVE f # e
    BY <1>0, <2>1 DEF Insert
  <2>3. ASSUME NEW f \in gone PROVE entries[f] \in Archives \ {a}
    BY <1>0, <1>2, <2>1, <2>2 DEF Insert
  <2> QED BY <1>0, <2>1, <2>2, <2>3, Zenon DEF Insert, Cached
<1>7. \A f \in gone : Holders(entries[f]) = {}
  BY <1>6, HoldersFinite DEF CacheInvariant, HeldArchiveIsOpen
<1>8. /\ entries' \in [Editions -> Archives \cup {None}] /\ entries'[e] = a
      /\ \A f \in Editions \ {e} : entries'[f] = IF f \in gone THEN None ELSE entries[f]
  BY <1>0, <1>4, <1>6 DEF Insert
<1>9. disk' = disk \ {entries[f] : f \in gone} BY <1>4, <1>6
<1>10. /\ request'[r] = [at |-> "hold", edition |-> e, archive |-> a]
       /\ \A s \in Requests \ {r} :
             /\ request'[s].edition = request[s].edition
             /\ request'[s].archive = request[s].archive
             /\ request[s].at # "wait" => request'[s] = request[s]
             /\ request[s].at = "wait" => request'[s].at \in {"wait", "hit"}
       /\ request' \in [Requests -> RequestRow]
  <2> DEFINE new == [at |-> "hold", edition |-> e, archive |-> a]
  <2>1. request' = [Tell(e, "hit") EXCEPT ![r] = new] BY <1>1, <1>2 DEF LoadSucceeds
  <2>2. new \in RequestRow BY DEF RequestRow, Phase
  <2> HIDE DEF new
  <2>3. request'[r] = new BY <1>0, <2>1, TellTellsWaiters
  <2> QED BY <1>0, <2>1, <2>2, <2>3, TellTellsWaiters DEF new
<1>11. TypeOK'
  <2>1. refs' \in [Archives -> Nat] /\ idle' \in [Archives -> 0..IdleTTL] BY <1>0, <1>5
  <2>2. evict' \in [Archives -> BOOLEAN]
    <3>1. Insert(e, a).evict \in [Archives -> BOOLEAN] BY <1>0 DEF Insert
    <3> QED BY <1>4, <3>1
  <2> QED BY <1>0, <1>8, <1>9, <1>10, <2>1, <2>2 DEF TypeOK, RequestRow
<1>12. \A s \in Requests \ {r} : request[s].at = "hold" =>
          /\ request[s].archive \in disk' /\ entries'[request[s].edition] = request[s].archive
  <2> SUFFICES ASSUME NEW s \in Requests \ {r}, request[s].at = "hold"
               PROVE  /\ request[s].archive \in disk'
                      /\ entries'[request[s].edition] = request[s].archive
    OBVIOUS
  <2>1. /\ request[s].edition \in Editions /\ request[s].archive \in disk
        /\ entries[request[s].edition] = request[s].archive /\ request[s].archive # None
    BY <1>0 DEF CacheInvariant, HeldArchiveIsOpen, HasItsArchive
  <2>2. s \in Holders(request[s].archive) BY DEF Holders
  <2>3. \A f \in gone : entries[f] # request[s].archive BY <1>7, <2>2, SMTT(30)
  <2> QED BY <1>3, <1>8, <1>9, <2>1, <2>3, Zenon
<1>13. \A s \in Requests \ {r} : request[s].at = "spooled" =>
          request[s].archive \in disk' /\ \A f \in Editions : entries'[f] # request[s].archive
  BY <1>0, <1>2, <1>6, <1>8, <1>9 DEF HasItsArchive
<1>14. a \in disk' BY <1>2, <1>9
<1>15. \A s \in Requests : HasItsArchive(s)'
  <2> TAKE s \in Requests
  <2>1. CASE s = r BY <1>10, <1>14, <2>1 DEF HasItsArchive
  <2>2. CASE s # r
    <3>1. \A q \in Requests : request'[q].archive = request[q].archive BY <1>2, <1>10
    <3>2. CASE request[s].at = "wait" BY <1>0, <1>10, <2>2, <3>2 DEF HasItsArchive
    <3>3. CASE request[s].at # "wait"
      BY <1>0, <1>10, <1>12, <1>13, <2>2, <3>1, <3>3 DEF HasItsArchive
    <3> QED BY <3>2, <3>3
  <2> QED BY <2>1, <2>2
<1>16. HeldArchiveIsOpen'
  <2>1. ASSUME NEW s \in Requests, request'[s].at = "hold"
        PROVE  request'[s].archive \in disk' /\ entries'[request'[s].edition] = request'[s].archive
    <3>1. CASE s = r BY <1>8, <1>10, <1>14, <3>1
    <3>2. CASE s # r BY <1>10, <1>12, <2>1, <3>2
    <3> QED BY <3>1, <3>2
  <2>2. ASSUME NEW f \in Cached'
        PROVE  refs'[entries'[f]] = Cardinality(Holders(entries[f]))'
    <3>1. CASE f = e
      <4>1. Holders(a)' = {r} BY <1>2, <1>10 DEF Holders
      <4>2. Cardinality({r}) = 1 BY FS_Singleton
      <4> QED BY <1>0, <1>5, <1>8, <3>1, <4>1, <4>2, Zenon
    <3>2. CASE f # e
      <4>1. PICK b \in Archives \ {a} : /\ b = entries[f] /\ b = entries'[f]
                                        /\ refs[b] = Cardinality(Holders(b))
        BY <1>0, <1>2, <1>8, <3>2 DEF CacheInvariant, HeldArchiveIsOpen, Cached
      <4>2. Holders(b)' = Holders(b) BY <1>0, <1>10 DEF Holders
      <4> QED BY <1>0, <1>5, <4>1, <4>2
    <3> QED BY <3>1, <3>2
  <2> QED BY <2>1, <2>2 DEF HeldArchiveIsOpen
<1>17. EveryFileHasAnOwner'
  <2>1. \A b \in Archives : (\E s \in Requests : request'[s].at = "spooled" /\ request'[s].archive = b)
           <=> b # a /\ \E s \in Requests : request[s].at = "spooled" /\ request[s].archive = b
    BY <1>0, <1>2, <1>10
  <2>2. \A f, g \in Cached : entries[f] = entries[g] => f = g
    BY DEF CacheInvariant, EveryFileHasAnOwner
  <2>3. ASSUME NEW b \in Archives \ {a}
        PROVE  (\E f \in Editions : entries'[f] = b)
                 <=> b \notin {entries[g] : g \in gone} /\ \E f \in Editions : entries[f] = b
    BY <1>0, <1>3, <1>6, <1>8, <2>2 DEF Cached
  <2>4. ASSUME NEW b \in Archives
        PROVE  b \in disk' <=>
                 \/ \E f \in Editions : entries'[f] = b
                 \/ \E s \in Requests : request'[s].at = "spooled" /\ request'[s].archive = b
    <3>1. CASE b = a BY <1>8, <1>14, <3>1
    <3>2. CASE b # a
      <4>1. b \in disk <=> \/ \E f \in Editions : entries[f] = b
                           \/ \E s \in Requests : request[s].at = "spooled" /\ request[s].archive = b
        BY DEF CacheInvariant, EveryFileHasAnOwner
      <4>2. \A s \in Requests : request[s].at = "spooled" /\ request[s].archive = b
              => b \notin {entries[g] : g \in gone}
        BY <1>0 DEF HasItsArchive
      <4> QED BY <1>9, <2>1, <2>3, <3>2, <4>1, <4>2
    <3> QED BY <3>1, <3>2
  <2>5. \A f, g \in Cached' : entries'[f] = entries'[g] => f = g
    BY <1>2, <1>8, <2>2 DEF Cached
  <2> QED BY <2>4, <2>5 DEF EveryFileHasAnOwner
<1>18. OneLoadPerBook'
  <2>1. \A f : Loading(f)' = Loading(f) \ {r} BY <1>0, <1>10 DEF Loading
  <2>2. Loading(e) = {r}
    BY <1>0, <1>1 DEF CacheInvariant, OneLoadPerBook, Loading
  <2> QED BY <1>8, <2>1, <2>2 DEF CacheInvariant, OneLoadPerBook
<1> QED BY <1>11, <1>15, <1>16, <1>17, <1>18, Zenon DEF CacheInvariant

\* The cache keeps its invariant: no interleaving of requests, sweeps, loads and
\* evictions breaks it (cache.go, resolver.go).
THEOREM CacheInvariantHolds == Spec => []CacheInvariant
<1>1. Init => CacheInvariant
  <2> SUFFICES ASSUME Init PROVE CacheInvariant OBVIOUS
  <2>1. TypeOK BY ReaderAssumption DEF Init, TypeOK, NoRequest, Phase
  <2>2. \A r \in Requests : HasItsArchive(r) BY DEF Init, HasItsArchive, NoRequest
  <2>3. HeldArchiveIsOpen BY DEF Init, HeldArchiveIsOpen, NoRequest, Cached
  <2>4. EveryFileHasAnOwner
    BY ReaderAssumption DEF Init, EveryFileHasAnOwner, NoRequest, Cached
  <2>5. OneLoadPerBook BY DEF Init, OneLoadPerBook, NoRequest, Loading
  <2> QED BY <2>1, <2>2, <2>3, <2>4, <2>5 DEF CacheInvariant
<1>2. CacheInvariant /\ [Next]_vars => CacheInvariant'
  <2> SUFFICES ASSUME CacheInvariant, [Next]_vars PROVE CacheInvariant' OBVIOUS
  <2>1. ASSUME NEW r \in Requests, Step(r) PROVE CacheInvariant'
    BY <2>1, HitKeepsInvariant, SweepStep, WaitingKeepsInvariant, SpoolKeepsInvariant,
       FailureKeepsInvariant, SuccessKeepsInvariant, ReleaseKeepsInvariant
    DEF Step, Acquire, Load
  <2>2. ASSUME NEW r \in Requests, NEW e \in Editions, Begin(r, e) PROVE CacheInvariant'
    BY <2>2, WaitingKeepsInvariant, Zenon
  <2>3. CASE Tick
    <3>1. idle' \in [Archives -> 0..IdleTTL]
      BY <2>3, ReaderAssumption DEF Tick, CacheInvariant, TypeOK
    <3>2. TypeOK' BY <2>3, <3>1, Zenon DEF Tick, CacheInvariant, TypeOK
    <3> QED BY <2>3, <3>2 DEF Tick, CacheInvariant, HasItsArchive, HeldArchiveIsOpen,
                              EveryFileHasAnOwner, OneLoadPerBook, Cached, Holders, Loading
  <2>4. CASE UNCHANGED vars
    BY <2>4 DEF vars, CacheInvariant, TypeOK, HasItsArchive, HeldArchiveIsOpen,
                EveryFileHasAnOwner, OneLoadPerBook, Cached, Holders, Loading
  <2> QED BY <2>1, <2>2, <2>3, <2>4 DEF Next
<1> QED BY <1>1, <1>2, PTL DEF Spec

\* No archive is closed under a reader, whatever is swept, evicted or released
\* (cache.go, handleFor).
THEOREM HeldArchiveStaysOpen == Spec => []HeldArchiveIsOpen
<1>1. CacheInvariant => HeldArchiveIsOpen BY DEF CacheInvariant
<1> QED BY <1>1, CacheInvariantHolds, PTL

\* No temporary file is left without an owner, and no book is loaded twice at
\* a time (resolver.go, Load; cache.go, Acquire).
THEOREM FilesAndLoadsAreAccounted == Spec => [](EveryFileHasAnOwner /\ OneLoadPerBook)
<1>1. CacheInvariant => EveryFileHasAnOwner /\ OneLoadPerBook BY DEF CacheInvariant
<1> QED BY <1>1, CacheInvariantHolds, PTL
----------------------------------------------------------------------------
(* The bound on the open archives.                                          *)

\* The entries that are not on their way out.
Fresh == {e \in Cached : ~evict[entries[e]]}

\* What OpenWithinBound says, with the count of references for the holders.
Bounded ==
    /\ Cardinality(Fresh) <= MaxOpen
    /\ \A e \in Cached : evict[entries[e]] => refs[entries[e]] # 0

\* refs tells whether an entry is being read.
LEMMA CountedMeansHeld == CacheInvariant => (Bounded <=> OpenWithinBound)
<1> SUFFICES ASSUME CacheInvariant PROVE Bounded <=> OpenWithinBound OBVIOUS
<1>1. \A e \in Cached : refs[entries[e]] = 0 <=> Holders(entries[e]) = {}
  BY HoldersFinite DEF CacheInvariant, HeldArchiveIsOpen
<1> QED BY <1>1 DEF Bounded, OpenWithinBound, Fresh

LEMMA SubsetsAreSmaller ==
    ASSUME NEW S \in SUBSET Editions, NEW T \in SUBSET S
    PROVE  /\ IsFiniteSet(S) /\ IsFiniteSet(T)
           /\ Cardinality(S) \in Nat /\ Cardinality(T) \in Nat
           /\ Cardinality(T) <= Cardinality(S)
<1>1. IsFiniteSet(S) BY ReaderAssumption, FS_Subset
<1> QED BY <1>1, FS_Subset, FS_CardinalityType

\* A step that neither marks an entry, nor opens one, nor releases one.
LEMMA NothingOpened ==
    ASSUME CacheInvariant, Bounded, UNCHANGED evict,
           entries' \in [Editions -> Archives \cup {None}],
           \A e \in Editions : entries'[e] \in {None, entries[e]},
           \A e \in Cached' : evict[entries[e]] => refs'[entries[e]] # 0
    PROVE  Bounded'
<1>1. PICK S : S = Fresh OBVIOUS
<1>2. PICK T : T = Fresh' OBVIOUS
<1>3. \A e \in Cached' : e \in Cached /\ entries'[e] = entries[e] BY DEF Cached
<1>4. T \subseteq S /\ S \subseteq Editions BY <1>1, <1>2, <1>3 DEF Fresh, Cached
<1>5. Cardinality(T) <= MaxOpen
  <2>1. Cardinality(S) <= MaxOpen BY <1>1 DEF Bounded
  <2> QED BY <1>4, <2>1, SubsetsAreSmaller, ReaderAssumption
<1>6. ASSUME NEW e \in Cached', evict'[entries'[e]] PROVE refs'[entries'[e]] # 0
  BY <1>3, <1>6
<1> QED BY <1>2, <1>5, <1>6 DEF Bounded

LEMMA SweepStaysBounded ==
    ASSUME CacheInvariant, Bounded, NEW r \in Requests, Acquire(r)
    PROVE  Bounded'
<1>1. /\ entries \in [Editions -> Archives \cup {None}] /\ refs \in [Archives -> Nat]
      /\ None \notin Archives
  BY ReaderAssumption DEF CacheInvariant, TypeOK
<1>2. entries' = Swept /\ UNCHANGED evict
  BY DEF Acquire, AcquireHit, AcquireWait, AcquireMiss
<1>3. /\ Swept \in [Editions -> Archives \cup {None}]
      /\ \A e \in Editions : Swept[e] \in {None, entries[e]}
  BY SweepIsSafe
<1>4. \A a \in Archives : refs[a] # 0 => refs'[a] # 0
  <2>1. CASE UNCHANGED refs BY <2>1
  <2>2. CASE AcquireHit(r)
    <3>1. PICK b : refs' = [refs EXCEPT ![b] = @ + 1] BY <2>2, Zenon DEF AcquireHit
    <3> QED BY <1>1, <3>1
  <2> QED BY <2>1, <2>2 DEF Acquire, AcquireWait, AcquireMiss
<1>5. ASSUME NEW e \in Cached', evict[entries[e]] PROVE refs'[entries[e]] # 0
  <2>1. e \in Cached /\ entries[e] \in Archives BY <1>1, <1>2, <1>3 DEF Cached
  <2> QED BY <1>4, <1>5, <2>1 DEF Bounded
<1> QED BY <1>2, <1>3, <1>5, NothingOpened

LEMMA ReleaseStaysBounded ==
    ASSUME CacheInvariant, Bounded, NEW r \in Requests, Release(r)
    PROVE  Bounded'
<1>1. /\ entries \in [Editions -> Archives \cup {None}] /\ refs \in [Archives -> Nat]
      /\ None \notin Archives /\ HasItsArchive(r) /\ request[r].at = "hold" /\ UNCHANGED evict
  BY ReaderAssumption DEF CacheInvariant, TypeOK, Release
<1>2. PICK e \in Editions : e = request[r].edition BY <1>1 DEF HasItsArchive
<1>3. PICK a \in Archives : a = request[r].archive /\ a = entries[e] /\ e \in Cached
  BY <1>1, <1>2 DEF CacheInvariant, TypeOK, HeldArchiveIsOpen, HasItsArchive, Cached
<1>4. refs' = [refs EXCEPT ![a] = @ - 1] BY <1>3 DEF Release
<1>5. /\ refs[a] = 1 /\ evict[a] => entries' = [entries EXCEPT ![e] = None]
      /\ ~(refs[a] = 1 /\ evict[a]) => entries' = entries
  BY <1>2, <1>3 DEF Release
<1>6. \A f, g \in Cached : entries[f] = entries[g] => f = g
  BY DEF CacheInvariant, EveryFileHasAnOwner
<1>7. /\ entries' \in [Editions -> Archives \cup {None}]
      /\ \A f \in Editions : entries'[f] \in {None, entries[f]}
      /\ refs[a] = 1 /\ evict[a] => entries'[e] = None
  <2>1. CASE refs[a] = 1 /\ evict[a] BY <1>1, <1>5, <2>1
  <2>2. CASE ~(refs[a] = 1 /\ evict[a]) BY <1>1, <1>5, <2>2
  <2> QED BY <2>1, <2>2
<1>8. ASSUME NEW f \in Cached', evict[entries[f]] PROVE refs'[entries[f]] # 0
  <2>1. /\ f \in Editions /\ entries'[f] # None /\ f \in Cached /\ entries[f] \in Archives
        /\ refs[entries[f]] # 0
    BY <1>1, <1>7, <1>8 DEF Cached, Bounded
  <2>2. CASE f = e BY <1>1, <1>3, <1>4, <1>7, <1>8, <2>1, <2>2
  <2>3. CASE f # e
    <3>1. entries[f] # a BY <1>3, <1>6, <2>1, <2>3
    <3> QED BY <1>1, <1>4, <2>1, <3>1
  <2> QED BY <2>2, <2>3
<1> QED BY <1>1, <1>7, <1>8, NothingOpened

\* Room is made for the archive just opened: what evictLRULocked closes and marks
\* brings the unmarked entries back under the bound, and it marks only entries
\* that are being read.
LEMMA SuccessStaysBounded ==
    ASSUME CacheInvariant, Bounded, NEW r \in Requests, LoadSucceeds(r)
    PROVE  Bounded'
<1>0. /\ entries \in [Editions -> Archives \cup {None}] /\ None \notin Archives
      /\ refs \in [Archives -> Nat] /\ evict \in [Archives -> BOOLEAN]
      /\ HasItsArchive(r) /\ request[r].at = "spooled" /\ MaxOpen \in Nat
  BY ReaderAssumption DEF CacheInvariant, TypeOK, LoadSucceeds
<1>1. PICK e \in Editions : e = request[r].edition BY <1>0 DEF HasItsArchive
<1>2. PICK a \in Archives : a = request[r].archive /\ \A f \in Editions : entries[f] # a
  BY <1>0 DEF HasItsArchive, CacheInvariant, TypeOK
<1>3. PICK c : c = Insert(request[r].edition, request[r].archive) OBVIOUS
<1>4. PICK gone \in SUBSET Editions, mark \in SUBSET Editions :
         /\ EvictLRU(c, gone, mark)
         /\ entries' = [f \in Editions |-> IF f \in gone THEN None ELSE c.entries[f]]
         /\ evict' = [b \in Archives |-> c.evict[b] \/ \E f \in mark : b = c.entries[f]]
         /\ refs' = c.refs
  <2> DEFINE x == Insert(request[r].edition, request[r].archive)
  <2>1. PICK gone \in SUBSET Editions, mark \in SUBSET Editions :
           /\ EvictLRU(x, gone, mark)
           /\ entries' = [f \in Editions |-> IF f \in gone THEN None ELSE x.entries[f]]
           /\ evict' = [b \in Archives |-> x.evict[b] \/ \E f \in mark : b = x.entries[f]]
    BY Zenon DEF LoadSucceeds
  <2>2. c = x /\ refs' = x.refs BY <1>3, Zenon DEF LoadSucceeds
  <2> HIDE DEF x
  <2> QED BY <2>1, <2>2, Zenon
<1>5. /\ c.entries = [entries EXCEPT ![e] = a] /\ c.refs = [refs EXCEPT ![a] = 1]
      /\ c.evict = [evict EXCEPT ![a] = FALSE]
  BY <1>1, <1>2, <1>3 DEF Insert
<1>6. /\ c.entries[e] = a /\ c.refs[a] = 1 /\ ~c.evict[a]
      /\ \A f \in Editions \ {e} : c.entries[f] = entries[f]
      /\ \A b \in Archives \ {a} : c.refs[b] = refs[b]
  BY <1>0, <1>5
<1>7. \A b \in Archives \ {a} : c.evict[b] = evict[b] BY <1>0, <1>5
<1>8. PICK S : S = Fresh OBVIOUS
<1>9. S \subseteq Editions /\ IsFiniteSet(S) /\ Cardinality(S) \in Nat /\ Cardinality(S) <= MaxOpen
  <2>1. S \subseteq Editions BY <1>8 DEF Fresh, Cached
  <2> QED BY <1>8, <2>1, SubsetsAreSmaller DEF Bounded
<1>10. Unmarked(c) \subseteq S \cup {e}
  <2> SUFFICES ASSUME NEW f \in Editions, f # e, c.entries[f] # None, ~c.evict[c.entries[f]]
               PROVE  f \in S
    BY DEF Unmarked
  <2>1. c.entries[f] = entries[f] /\ entries[f] \in Archives \ {a} BY <1>0, <1>2, <1>6
  <2>2. ~evict[entries[f]] BY <1>7, <2>1
  <2> QED BY <1>8, <2>1, <2>2 DEF Fresh, Cached
<1>11. \A f \in Cached' : /\ f \in Editions \ gone /\ c.entries[f] # None
                           /\ entries'[f] = c.entries[f] /\ c.entries[f] \in Archives
  BY <1>0, <1>4, <1>5 DEF Cached
<1>12. ASSUME NEW f \in Fresh'
       PROVE  f \in Unmarked(c) /\ f \in Open(c) /\ f \notin gone /\ f \notin mark
  <2>1. f \in Cached' /\ ~evict'[entries'[f]] BY DEF Fresh
  <2>2. ~evict'[c.entries[f]] /\ c.entries[f] \in Archives BY <1>11, <2>1
  <2>3. ~c.evict[c.entries[f]] /\ f \notin mark BY <1>4, <2>2, Zenon
  <2> QED BY <1>11, <2>1, <2>3 DEF Unmarked, Open
<1>13. PICK T : T = Fresh' OBVIOUS
<1>14. T \subseteq Unmarked(c) /\ T \subseteq Open(c) /\ T \cap gone = {} /\ T \cap mark = {}
  BY <1>12, <1>13
<1>15. Cardinality(T) <= MaxOpen
  <2>1. CASE Cardinality(Open(c) \ gone) <= MaxOpen
    <3>1. T \subseteq Open(c) \ gone /\ Open(c) \ gone \subseteq Editions BY <1>14 DEF Open
    <3> QED BY <1>0, <2>1, <3>1, SubsetsAreSmaller
  <2>2. CASE ~(Cardinality(Open(c) \ gone) <= MaxOpen)
    <3>1. CASE Unmarked(c) \ gone = {}
      <4>1. T = {} BY <1>14, <3>1
      <4> QED BY <1>0, <4>1, FS_EmptySet
    <3>2. CASE Unmarked(c) \ gone # {}
      <4>1. PICK v \in Unmarked(c) \ gone : mark = {v}
        BY <1>4, <2>2, <3>2 DEF EvictLRU, Oldest
      <4>2. T \subseteq (S \cup {e}) \ {v} /\ v \in S \cup {e} BY <1>10, <1>14, <4>1
      <4>3. /\ IsFiniteSet(S \cup {e}) /\ Cardinality(S \cup {e}) \in Nat
            /\ Cardinality(S \cup {e}) <= Cardinality(S) + 1
        <5>1. IsFiniteSet(S \cup {e}) BY <1>9, FS_AddElement
        <5>2. CASE e \in S
          <6>1. S \cup {e} = S BY <5>2
          <6> QED BY <1>9, <6>1
        <5>3. CASE e \notin S BY <1>9, <5>1, <5>3, FS_AddElement, FS_CardinalityType
        <5> QED BY <5>1, <5>2, <5>3
      <4>4. Cardinality((S \cup {e}) \ {v}) = Cardinality(S \cup {e}) - 1
        BY <4>2, <4>3, FS_RemoveElement
      <4>5. (S \cup {e}) \ {v} \subseteq Editions BY <1>9
      <4> QED BY <1>0, <1>9, <4>2, <4>3, <4>4, <4>5, SubsetsAreSmaller
    <3> QED BY <3>1, <3>2
  <2> QED BY <2>1, <2>2
<1>16. ASSUME NEW f \in Cached', evict'[entries'[f]] PROVE refs'[entries'[f]] # 0
  <2>1. /\ f \in Editions \ gone /\ entries'[f] = c.entries[f] /\ c.entries[f] \in Archives
        /\ c.entries[f] # None
    BY <1>11
  <2>2. CASE f = e BY <1>4, <1>6, <2>1, <2>2
  <2>3. CASE f # e /\ c.evict[c.entries[f]]
    <3>1. c.entries[f] = entries[f] /\ entries[f] \in Archives \ {a} /\ f \in Cached
      BY <1>0, <1>2, <1>6, <2>1, <2>3, SMTT(30) DEF Cached
    <3>2. refs[entries[f]] # 0 BY <1>7, <2>3, <3>1 DEF Bounded
    <3> QED BY <1>4, <1>6, <2>1, <3>1, <3>2, SMTT(30)
  <2>4. CASE f # e /\ ~c.evict[c.entries[f]]
    <3>1. PICK g \in mark : c.entries[f] = c.entries[g] BY <1>4, <1>16, <2>1, <2>4, Zenon
    <3>2. gone = Free(c) /\ g \in Unmarked(c) \ gone
      BY <1>4, <3>1 DEF EvictLRU, Oldest
    <3>3. c.refs[c.entries[g]] # 0 BY <3>2 DEF Free, Unmarked
    <3> QED BY <1>4, <2>1, <3>1, <3>3
  <2> QED BY <2>2, <2>3, <2>4
<1> QED BY <1>13, <1>15, <1>16, Zenon DEF Bounded

\* maxOpen is kept: the cache exceeds it only by archives that are being read, and
\* their last Release closes them (cache.go, evictLRULocked, Release).
THEOREM BoundIsKept == Spec => []OpenWithinBound
<1>1. Init => Bounded
  <2> SUFFICES ASSUME Init PROVE Bounded OBVIOUS
  <2>1. Cached = {} BY DEF Init, Cached
  <2>2. Fresh = {} BY <2>1 DEF Fresh
  <2> QED BY <2>1, <2>2, FS_EmptySet, ReaderAssumption DEF Bounded
<1>2. CacheInvariant /\ Bounded /\ [Next]_vars => Bounded'
  <2> SUFFICES ASSUME CacheInvariant, Bounded, [Next]_vars PROVE Bounded' OBVIOUS
  <2>1. ASSUME NEW r \in Requests, Acquire(r) PROVE Bounded' BY <2>1, SweepStaysBounded
  <2>2. ASSUME NEW r \in Requests, Release(r) PROVE Bounded' BY <2>2, ReleaseStaysBounded
  <2>3. ASSUME NEW r \in Requests, LoadSucceeds(r) PROVE Bounded' BY <2>3, SuccessStaysBounded
  <2>4. CASE UNCHANGED <<entries, refs, evict>> BY <2>4 DEF Bounded, Fresh, Cached
  <2> QED BY <2>1, <2>2, <2>3, <2>4
          DEF Next, Step, Load, Tick, Begin, WaitSucceeds, WaitEnds, Spool, LoadFails, cache, vars
<1> QED BY <1>1, <1>2, CountedMeansHeld, CacheInvariantHolds, PTL DEF Spec
============================================================================
