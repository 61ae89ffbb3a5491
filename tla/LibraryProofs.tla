---------------------------- MODULE LibraryProofs ----------------------------
(***************************************************************************)
(* Proofs about the sources a library is filled from, for every number of  *)
(* sources, requests and origins, every capacity of the semaphore and every *)
(* number of keys; and about its listing, for every set of works, titles and *)
(* collections and every page size.                                        *)
(***************************************************************************)
EXTENDS Sources, Catalogue, FiniteSetTheorems, TLAPS

InCall == {"root", "describe"}

\* The semaphore follows the calls when one request enters or leaves one.
LEMMA SlotsFollowCalls ==
    ASSUME slots \in Nat, SlotsAreOfCalls, req \in [Requests -> Request],
           NEW r \in Requests, NEW q \in Request, req' = [req EXCEPT ![r] = q],
           slots' = IF q.at \in InCall THEN (IF req[r].at \in InCall THEN slots ELSE slots + 1)
                                       ELSE (IF req[r].at \in InCall THEN slots - 1 ELSE slots)
    PROVE  SlotsAreOfCalls' /\ slots' \in Nat
<1> USE DEF SlotsAreOfCalls, InCall
<1>1. IsFiniteSet(Calling)
  <2>1. Calling \subseteq Requests BY DEF Calling
  <2> QED BY <2>1, SourcesAssumption, FS_Subset
<1>2. Calling' = IF q.at \in InCall THEN Calling \cup {r} ELSE Calling \ {r} BY DEF Calling
<1>3. req[r].at \in InCall <=> r \in Calling BY DEF Calling
<1>4. Cardinality(Calling \cup {r}) = IF r \in Calling THEN slots ELSE slots + 1
  BY <1>1, FS_AddElement, Zenon
<1>5. Cardinality(Calling \ {r}) = IF r \in Calling THEN slots - 1 ELSE slots
  BY <1>1, FS_RemoveElement, Zenon
<1>6. IsFiniteSet(Calling') BY <1>1, <1>2, FS_AddElement, FS_RemoveElement
<1> QED BY <1>2, <1>3, <1>4, <1>5, <1>6, FS_CardinalityType

\* A step of one request: what is to be shown of the request, of the rows and of
\* the slots for the invariant to hold again.
LEMMA RequestStep ==
    ASSUME SourcesInvariant, NEW r \in Requests, NEW q \in Request,
           req' = [req EXCEPT ![r] = q], KnowsItsSource(q)',
           row' \in [SourceIds -> Row \cup {None}], RemovedStaysRemoved',
           \A s \in Requests \ {r} :
              /\ req[s].op = "create" => row'[req[s].id] = None /\ q.id # req[s].id
              /\ q.op = "create" => req[s].id # q.id,
           UNCHANGED <<removed, key>>,
           cursors' \subseteq [id : SourceIds, origin : Origins, key : Keys],
           slots' = IF q.at \in InCall THEN (IF req[r].at \in InCall THEN slots ELSE slots + 1)
                                       ELSE (IF req[r].at \in InCall THEN slots - 1 ELSE slots),
           slots' <= Cap
    PROVE  SourcesInvariant'
<1>0. /\ req \in [Requests -> Request] /\ slots \in Nat /\ Cap \in Nat
      /\ \A s \in Requests : KnowsItsSource(req[s])
      /\ \A s, t \in Requests : s # t /\ req[s].op = "create" => req[t].id # req[s].id
  BY SourcesAssumption DEF SourcesInvariant, TypeOK
<1>1. SlotsAreOfCalls' /\ slots' \in Nat BY <1>0, SlotsFollowCalls, Zenon DEF SourcesInvariant
<1>2. req' \in [Requests -> Request] /\ req'[r] = q /\ \A s \in Requests \ {r} : req'[s] = req[s]
  BY <1>0
<1>3. TypeOK' BY <1>0, <1>1, <1>2 DEF SourcesInvariant, TypeOK
<1>4. \A s \in Requests : KnowsItsSource(req[s])'
  <2> TAKE s \in Requests
  <2>1. CASE s = r BY <1>2, <2>1 DEF KnowsItsSource
  <2>2. CASE s # r BY <1>0, <1>2, <2>2 DEF KnowsItsSource
  <2> QED BY <2>1, <2>2
<1>5. \A s, t \in Requests : s # t /\ req'[s].op = "create" => req'[t].id # req'[s].id
  BY <1>0, <1>2
<1> QED BY <1>1, <1>3, <1>4, <1>5 DEF SourcesInvariant

\* What every step of a request starts from.
LEMMA Facts ==
    ASSUME SourcesInvariant, NEW r \in Requests
    PROVE  /\ req \in [Requests -> Request] /\ req[r] \in Request /\ KnowsItsSource(req[r])
           /\ row \in [SourceIds -> Row \cup {None}] /\ slots \in Nat /\ Cap \in Nat /\ slots <= Cap
           /\ cursors \subseteq [id : SourceIds, origin : Origins, key : Keys]
           /\ key \in Keys /\ 0 \in Keys /\ RemovedStaysRemoved
           /\ None \notin Row /\ None \notin Ops /\ None \notin SourceIds /\ None \notin Origins
           /\ \A s \in Requests \ {r} :
                 /\ req[s].op = "create" => /\ row[req[s].id] = None /\ req[s].id \in SourceIds
                                            /\ req[r].id # req[s].id
                 /\ req[r].op = "create" => req[s].id # req[r].id
<1>1. \A s \in Requests : req[s].op = "create" => row[req[s].id] = None /\ req[s].id \in SourceIds
  BY NoneAssumption DEF SourcesInvariant, KnowsItsSource, Idle, Ops
<1>2. slots \in Nat /\ Cap \in Nat /\ slots <= Cap /\ key \in Keys /\ 0 \in Keys
  BY SourcesAssumption DEF SourcesInvariant, TypeOK, Keys
<1> QED BY <1>1, <1>2, SourcesAssumption, NoneAssumption DEF SourcesInvariant, TypeOK

\* The end of a request, which changes neither the rows nor the slots.
LEMMA AnswerKeepsInvariant ==
    ASSUME SourcesInvariant, NEW r \in Requests, req' = Answer(r), req[r].at \notin InCall,
           UNCHANGED <<row, removed, slots, cursors, key>>
    PROVE  SourcesInvariant'
<1>1. Idle \in Request BY DEF Idle, Request
<1>2. KnowsItsSource(Idle)' BY NoneAssumption DEF KnowsItsSource, Idle, Ops
<1>3. Idle.at = "idle" /\ Idle.id = None /\ Idle.op = None BY DEF Idle
<1>4. RemovedStaysRemoved' BY DEF SourcesInvariant, RemovedStaysRemoved
<1>5. \A s \in Requests \ {r} :
         /\ req[s].op = "create" => row'[req[s].id] = None /\ Idle.id # req[s].id
         /\ Idle.op = "create" => req[s].id # Idle.id
  BY <1>3, Facts, NoneAssumption DEF Ops
<1>6. slots' = IF Idle.at \in InCall THEN (IF req[r].at \in InCall THEN slots ELSE slots + 1)
                                      ELSE (IF req[r].at \in InCall THEN slots - 1 ELSE slots)
  BY <1>3 DEF InCall
<1>7. req' = [req EXCEPT ![r] = Idle] BY DEF Answer
<1>8. /\ row' \in [SourceIds -> Row \cup {None}] /\ slots' <= Cap
      /\ cursors' \subseteq [id : SourceIds, origin : Origins, key : Keys]
  BY Facts
<1> QED BY <1>1, <1>2, <1>4, <1>5, <1>6, <1>7, <1>8, RequestStep, Zenon

\* A step of a request that stays with its source and its copy and takes no slot.
LEMMA MoveKeepsInvariant ==
    ASSUME SourcesInvariant, NEW r \in Requests, NEW q \in Request, req' = [req EXCEPT ![r] = q],
           req[r].at # "idle", q.at # "idle",
           q.op = req[r].op, q.id = req[r].id, q.copy = req[r].copy,
           q.at \in {"patch", "credential", "probe"} => q.op \notin Reading,
           q.at \in {"root", "description", "describe"} =>
              /\ q.url = q.copy.base
              /\ q.op \in {"check"} \cup Reading => q.copy.cred \in {0, key},
           slots' = IF q.at \in InCall THEN (IF req[r].at \in InCall THEN slots ELSE slots + 1)
                                       ELSE (IF req[r].at \in InCall THEN slots - 1 ELSE slots),
           slots' <= Cap,
           UNCHANGED <<row, removed, cursors, key>>
    PROVE  SourcesInvariant'
<1>1. KnowsItsSource(q)' BY Facts DEF KnowsItsSource
<1>2. RemovedStaysRemoved' BY DEF SourcesInvariant, RemovedStaysRemoved
<1>3. \A s \in Requests \ {r} :
         /\ req[s].op = "create" => row'[req[s].id] = None /\ q.id # req[s].id
         /\ q.op = "create" => req[s].id # q.id
  BY Facts
<1>4. /\ row' \in [SourceIds -> Row \cup {None}]
      /\ cursors' \subseteq [id : SourceIds, origin : Origins, key : Keys]
  BY Facts
<1> QED BY <1>1, <1>2, <1>3, <1>4, RequestStep, Zenon

\* The first step of a handler.
LEMMA BeginKeepsInvariant ==
    ASSUME SourcesInvariant, NEW r \in Requests, NEW id \in SourceIds,
           \/ \E k \in Kinds, o \in Origins, c \in Keys : Create(r, id, k, o, c)
           \/ Patch(r, id) \/ CheckHealth(r, id) \/ Browse(r, id) \/ Search(r, id)
    PROVE  SourcesInvariant'
<1>0. RemovedStaysRemoved' /\ row' \in [SourceIds -> Row \cup {None}]
  BY Facts, Zenon DEF RemovedStaysRemoved, Create, Patch, CheckHealth, Browse, Search, Read
<1>1. ASSUME NEW k \in Kinds, NEW o \in Origins, NEW c \in Keys, Create(r, id, k, o, c)
      PROVE  SourcesInvariant'
  <2>1. PICK copy \in Row : copy = [kind |-> k, base |-> o, link |-> None, cred |-> c] BY Zenon DEF Row
  <2>2. PICK q \in Request : q = Begun("create", "probe", id, copy) BY Zenon DEF Begun, Request, Ops
  <2>3. q.op = "create" /\ q.at = "probe" /\ q.id = id /\ q.copy = copy BY <2>2 DEF Begun
  <2>4. req' = [req EXCEPT ![r] = q] BY <1>1, <2>1, <2>2 DEF Create
  <2>5. KnowsItsSource(q)' BY <1>1, <2>3 DEF Create, KnowsItsSource, Ops, Reading
  <2>6. \A s \in Requests \ {r} :
           /\ req[s].op = "create" => row'[req[s].id] = None /\ q.id # req[s].id
           /\ q.op = "create" => req[s].id # q.id
    BY <1>1, <2>3, Facts DEF Create
  <2>7. /\ UNCHANGED <<removed, key>> /\ req[r].at = "idle" /\ slots' = slots /\ slots' <= Cap
        /\ cursors' \subseteq [id : SourceIds, origin : Origins, key : Keys]
    BY <1>1, Facts DEF Create
  <2>8. q.at \notin InCall /\ req[r].at \notin InCall BY <2>3, <2>7 DEF InCall
  <2> QED BY <1>0, <2>4, <2>5, <2>6, <2>7, <2>8, RequestStep, Zenon
<1>2. ASSUME NEW op \in Ops \ {"create"}, NEW at \in {"patch", "probe", "list"}, Read(r, op, id, at),
             at # "list" => op \notin Reading
      PROVE  SourcesInvariant'
  <2>1. PICK copy \in Row : copy = row[id] BY <1>2, Facts DEF Read
  <2>2. PICK q \in Request : q = Begun(op, at, id, copy) BY Zenon DEF Begun, Request
  <2>3. q.op = op /\ q.at = at /\ q.id = id /\ q.copy = copy BY <2>2 DEF Begun
  <2>4. req' = [req EXCEPT ![r] = q] BY <1>2, <2>1, <2>2 DEF Read
  <2>5. KnowsItsSource(q)' BY <1>2, <2>3 DEF KnowsItsSource
  <2>6. \A s \in Requests \ {r} :
           /\ req[s].op = "create" => row'[req[s].id] = None /\ q.id # req[s].id
           /\ q.op = "create" => req[s].id # q.id
    BY <1>2, <2>3, Facts DEF Read
  <2>7. /\ UNCHANGED <<removed, key>> /\ req[r].at = "idle" /\ slots' = slots /\ slots' <= Cap
        /\ cursors' \subseteq [id : SourceIds, origin : Origins, key : Keys]
    BY <1>2, Facts DEF Read
  <2>8. q.at \notin InCall /\ req[r].at \notin InCall BY <2>3, <2>7 DEF InCall
  <2> QED BY <1>0, <2>4, <2>5, <2>6, <2>7, <2>8, RequestStep, Zenon
<1>3. "patch" \in Ops \ {"create"} /\ "check" \in Ops \ {"create"}
      /\ "browse" \in Ops \ {"create"} /\ "search" \in Ops \ {"create"}
  BY DEF Ops
<1>4. "patch" \notin Reading /\ "check" \notin Reading BY DEF Reading
<1> QED BY <1>1, <1>2, <1>3, <1>4 DEF Patch, CheckHealth, Browse, Search

\* The statements of PATCH and of a health check update a row they still find.
LEMMA RowUpdateKeepsInvariant ==
    ASSUME SourcesInvariant, NEW r \in Requests, NEW q \in Request, NEW new \in Row,
           req' = [req EXCEPT ![r] = q],
           row[req[r].id] # None, row' = [row EXCEPT ![req[r].id] = new],
           req[r].at \in {"patch", "credential", "record"}, req[r].op # "create",
           \/ q = Idle
           \/ /\ q.at \in {"credential", "probe"} /\ req[r].at # "record"
              /\ q.op = req[r].op /\ q.id = req[r].id /\ q.copy \in Row,
           UNCHANGED <<removed, slots, cursors, key>>
    PROVE  SourcesInvariant'
<1>1. req[r].id \in SourceIds BY Facts DEF KnowsItsSource
<1>2. row' \in [SourceIds -> Row \cup {None}] BY <1>1, Facts
<1>3. RemovedStaysRemoved' BY <1>1, Facts DEF RemovedStaysRemoved, SourcesInvariant, TypeOK
<1>4. q.at \notin InCall \cup {"description"} /\ req[r].at \notin InCall BY DEF InCall, Idle
<1>5. q.op # "create" BY NoneAssumption DEF Idle, Ops
<1>6. KnowsItsSource(q)'
  BY <1>1, <1>4, <1>5, Facts DEF KnowsItsSource, InCall, Idle
<1>7. \A s \in Requests \ {r} :
         /\ req[s].op = "create" => row'[req[s].id] = None /\ q.id # req[s].id
         /\ q.op = "create" => req[s].id # q.id
  <2>1. q.id \in {None, req[r].id} BY DEF Idle
  <2> QED BY <1>1, <1>5, <2>1, Facts
<1>8. slots' = slots /\ slots' <= Cap
      /\ cursors' \subseteq [id : SourceIds, origin : Origins, key : Keys]
  BY Facts
<1> QED BY <1>2, <1>3, <1>4, <1>6, <1>7, <1>8, RequestStep, Zenon

\* The statements of PATCH, and the ends of a probe.
LEMMA StatementsKeepInvariant ==
    ASSUME SourcesInvariant, NEW r \in Requests,
           \/ \E o \in Origins : UpdateConfig(r, o)
           \/ SetCredential(r) \/ UpdateHealth(r) \/ InsertSource(r)
    PROVE  SourcesInvariant'
<1>0. req[r].at # "idle" => req[r].id \in SourceIds /\ req[r].copy \in Row BY Facts DEF KnowsItsSource
<1>1. ASSUME NEW o \in Origins, UpdateConfig(r, o) PROVE SourcesInvariant'
  <2>0. PICK m, d : m = [req[r] EXCEPT !.at = "credential"] /\ d = [req[r].copy EXCEPT !.base = o]
    BY Zenon
  <2>b. PICK q : q = [m EXCEPT !.copy = d] BY Zenon
  <2>1. q \in Request /\ q.at = "credential" /\ q.op = req[r].op /\ q.id = req[r].id /\ q.copy \in Row
    <3>1. req[r] \in Request /\ req[r].copy \in Row /\ key \in Keys
      BY <1>0, <1>1, Facts DEF UpdateConfig
    <3>2. d \in Row BY <2>0, <3>1 DEF Row
    <3>3. m \in Request /\ m.at = "credential" /\ m.op = req[r].op /\ m.id = req[r].id
      BY <2>0, <3>1 DEF Request
    <3> QED BY <2>b, <3>2, <3>3, Zenon DEF Request
  <2>a. PICK new : new = [row[req[r].id] EXCEPT !.base = o] BY Zenon
  <2>2. new \in Row
    <3>1. row[req[r].id] \in Row BY <1>0, <1>1, Facts DEF UpdateConfig
    <3> QED BY <2>a, <3>1 DEF Row
  <2>3. req' = [req EXCEPT ![r] = q] /\ row' = [row EXCEPT ![req[r].id] = new]
    BY <1>1, <2>0, <2>b, <2>a, Facts, Zenon DEF UpdateConfig, Request
  <2>4. req[r].op # "create" BY <1>1, Facts DEF UpdateConfig, KnowsItsSource
  <2>5. row[req[r].id] # None /\ req[r].at = "patch" /\ UNCHANGED <<removed, slots, cursors, key>>
    BY <1>1 DEF UpdateConfig
  <2> QED BY <2>1, <2>2, <2>3, <2>4, <2>5, RowUpdateKeepsInvariant, Zenon
<1>2. CASE SetCredential(r)
  <2>0. PICK m, d : m = [req[r] EXCEPT !.at = "probe"] /\ d = [req[r].copy EXCEPT !.cred = key]
    BY Zenon
  <2>b. PICK q : q = [m EXCEPT !.copy = d] BY Zenon
  <2>1. q \in Request /\ q.at = "probe" /\ q.op = req[r].op /\ q.id = req[r].id /\ q.copy \in Row
    <3>1. req[r] \in Request /\ req[r].copy \in Row /\ key \in Keys
      BY <1>0, <1>2, Facts DEF SetCredential
    <3>2. d \in Row BY <2>0, <3>1 DEF Row
    <3>3. m \in Request /\ m.at = "probe" /\ m.op = req[r].op /\ m.id = req[r].id
      BY <2>0, <3>1 DEF Request
    <3> QED BY <2>b, <3>2, <3>3 DEF Request
  <2>a. PICK new : new = [row[req[r].id] EXCEPT !.cred = key] BY Zenon
  <2>2. new \in Row
    <3>1. row[req[r].id] \in Row /\ key \in Keys BY <1>0, <1>2, Facts DEF SetCredential
    <3> QED BY <2>a, <3>1 DEF Row
  <2>3. req' = [req EXCEPT ![r] = q] /\ row' = [row EXCEPT ![req[r].id] = new]
    BY <1>2, <2>0, <2>b, <2>a, Facts, Zenon DEF SetCredential, Request
  <2>4. req[r].op # "create" BY <1>2, Facts DEF SetCredential, KnowsItsSource
  <2>5. row[req[r].id] # None /\ req[r].at = "credential" /\ UNCHANGED <<removed, slots, cursors, key>>
    BY <1>2 DEF SetCredential
  <2> QED BY <2>1, <2>2, <2>3, <2>4, <2>5, RowUpdateKeepsInvariant, Zenon
<1>3. CASE UpdateHealth(r)
  <2>a. PICK new : new = [row[req[r].id] EXCEPT !.link = req[r].link] BY Zenon
  <2>1. new \in Row
    <3>1. row[req[r].id] \in Row /\ req[r].link \in Origins \cup {None}
      BY <1>0, <1>3, Facts DEF UpdateHealth, Request
    <3> QED BY <2>a, <3>1 DEF Row
  <2>2. row' = [row EXCEPT ![req[r].id] = new] BY <1>3, <2>a DEF UpdateHealth
  <2>3. Idle \in Request BY DEF Idle, Request
  <2> QED BY <1>3, <2>1, <2>2, <2>3, RowUpdateKeepsInvariant, Zenon DEF UpdateHealth, Answer
<1>4. CASE InsertSource(r)
  <2>a. PICK new : new = [req[r].copy EXCEPT !.link = req[r].link] BY Zenon
  <2>1. new \in Row
    <3>1. req[r].copy \in Row /\ req[r].link \in Origins \cup {None}
      BY <1>0, <1>4, Facts DEF InsertSource, Request
    <3> QED BY <2>a, <3>1 DEF Row
  <2>2. /\ row' = [row EXCEPT ![req[r].id] = new] /\ req[r].id \in SourceIds \ removed
        /\ row' \in [SourceIds -> Row \cup {None}]
    BY <1>0, <1>4, <2>a, <2>1, Facts DEF InsertSource, KnowsItsSource
  <2>3. RemovedStaysRemoved' BY <1>4, <2>2, Facts DEF InsertSource, RemovedStaysRemoved, SourcesInvariant, TypeOK
  <2>4. PICK q \in Request : q = Idle BY Zenon DEF Idle, Request
  <2>5. q.at = "idle" /\ q.id = None /\ q.op = None BY <2>4 DEF Idle
  <2>6. KnowsItsSource(q)' BY <2>4, <2>5, NoneAssumption DEF KnowsItsSource, Idle, Ops
  <2>7. \A s \in Requests \ {r} :
           /\ req[s].op = "create" => row'[req[s].id] = None /\ q.id # req[s].id
           /\ q.op = "create" => req[s].id # q.id
    BY <2>2, <2>5, Facts DEF Ops
  <2>8. /\ req' = [req EXCEPT ![r] = q] /\ slots' = slots /\ slots' <= Cap
        /\ UNCHANGED <<removed, key>> /\ q.at \notin InCall /\ req[r].at \notin InCall
        /\ cursors' \subseteq [id : SourceIds, origin : Origins, key : Keys]
    BY <1>4, <2>4, <2>5, Facts DEF InsertSource, Answer, InCall
  <2> QED BY <2>2, <2>3, <2>6, <2>7, <2>8, RequestStep, Zenon
<1> QED BY <1>1, <1>2, <1>3, <1>4

\* The steps of a request around its calls.
LEMMA CallsKeepInvariant ==
    ASSUME SourcesInvariant, NEW r \in Requests,
           \/ KeepCredential(r) \/ ProbeCall(r) \/ ProbeLocally(r) \/ ProbeAnswer(r)
           \/ DescribeCall(r) \/ DescribeAnswer(r) \/ ListCall(r) \/ SearchCall(r)
    PROVE  SourcesInvariant'
<1>0. /\ req[r] \in Request /\ req \in [Requests -> Request] /\ slots \in Nat /\ Cap \in Nat
      /\ slots <= Cap /\ KnowsItsSource(req[r]) /\ UNCHANGED <<row, removed, cursors, key>>
      /\ req[r].at # "idle"
  BY Facts DEF KeepCredential, ProbeCall, ProbeLocally, ProbeAnswer, DescribeCall,
               DescribeAnswer, ListCall, SearchCall
\* A request that moves on without a call.
<1>1. ASSUME NEW at \in {"probe", "record"}, req' = Goto(r, at), slots' = slots,
             req[r].at \notin InCall, at = "probe" => req[r].op \notin Reading
      PROVE  SourcesInvariant'
  <2>1. PICK q : q = [req[r] EXCEPT !.at = at] BY Zenon
  <2>2. /\ q \in Request /\ q.at = at /\ q.op = req[r].op /\ q.id = req[r].id
        /\ q.copy = req[r].copy
    BY <1>0, <2>1 DEF Request
  <2>3. req' = [req EXCEPT ![r] = q] BY <1>0, <1>1, <2>1 DEF Goto
  <2>4. q.at \notin InCall \cup {"description"} BY <2>2 DEF InCall
  <2> QED BY <1>0, <1>1, <2>2, <2>3, <2>4, MoveKeepsInvariant, Zenon DEF InCall
\* A call that begins, to the base's origin and with a readable credential.
<1>2. ASSUME NEW url \in Origins, TryAcquire(r, url), url = req[r].copy.base,
             req[r].at \in {"probe", "list"},
             req[r].op \in {"check"} \cup Reading => req[r].copy.cred \in {0, key}
      PROVE  SourcesInvariant'
  <2>1. PICK m : m = [req[r] EXCEPT !.at = "root"] BY Zenon
  <2>2. /\ m \in Request /\ m.at = "root" /\ m.op = req[r].op /\ m.id = req[r].id
        /\ m.copy = req[r].copy
    BY <1>0, <2>1 DEF Request
  <2>3. PICK q : q = [m EXCEPT !.url = url] BY Zenon
  <2>4. /\ q \in Request /\ q.at = "root" /\ q.op = req[r].op /\ q.id = req[r].id
        /\ q.copy = req[r].copy /\ q.url = url
    BY <2>2, <2>3 DEF Request
  <2>5. req' = [req EXCEPT ![r] = q] BY <1>0, <1>2, <2>1, <2>3, Zenon DEF TryAcquire, Request
  <2>6. slots' = slots + 1 /\ slots' <= Cap BY <1>0, <1>2 DEF TryAcquire
  <2>7. q.at \in InCall /\ req[r].at \notin InCall BY <1>2, <2>4 DEF InCall
  <2> QED BY <1>0, <1>2, <2>4, <2>5, <2>6, <2>7, MoveKeepsInvariant, Zenon
\* A call that ends with a link, or goes on to the description of the search.
<1>3. ASSUME NEW link \in Origins \cup {None}, req[r].at \in InCall, Release,
             \/ req' = [req EXCEPT ![r].at = "record", ![r].link = link]
             \/ req[r].at = "root" /\ req' = Goto(r, "description")
      PROVE  SourcesInvariant'
  <2>0. slots' = slots - 1 /\ slots' <= Cap BY <1>0, <1>3 DEF Release
  <2>1. CASE req' = [req EXCEPT ![r].at = "record", ![r].link = link]
    <3>1. PICK m : m = [req[r] EXCEPT !.at = "record"] BY Zenon
    <3>2. /\ m \in Request /\ m.at = "record" /\ m.op = req[r].op /\ m.id = req[r].id
          /\ m.copy = req[r].copy
      BY <1>0, <3>1 DEF Request
    <3>3. PICK q : q = [m EXCEPT !.link = link] BY Zenon
    <3>4. /\ q \in Request /\ q.at = "record" /\ q.op = req[r].op /\ q.id = req[r].id
          /\ q.copy = req[r].copy
      BY <3>2, <3>3 DEF Request
    <3>5. req' = [req EXCEPT ![r] = q] BY <1>0, <2>1, <3>1, <3>3, Zenon DEF Request
    <3>6. q.at \notin InCall \cup {"description"} BY <3>4 DEF InCall
    <3> QED BY <1>0, <1>3, <2>0, <3>4, <3>5, <3>6, MoveKeepsInvariant, Zenon DEF InCall
  <2>2. CASE req[r].at = "root" /\ req' = Goto(r, "description")
    <3>1. PICK q : q = [req[r] EXCEPT !.at = "description"] BY Zenon
    <3>2. /\ q \in Request /\ q.at = "description" /\ q.op = req[r].op /\ q.id = req[r].id
          /\ q.copy = req[r].copy /\ q.url = req[r].url
      BY <1>0, <3>1 DEF Request
    <3>3. req' = [req EXCEPT ![r] = q] BY <1>0, <2>2, <3>1 DEF Goto
    <3>4. q.at \notin InCall BY <3>2 DEF InCall
    <3>5. /\ q.url = q.copy.base
          /\ q.op \in {"check"} \cup Reading => q.copy.cred \in {0, key}
      BY <1>0, <2>2, <3>2 DEF KnowsItsSource
    <3> QED BY <1>0, <1>3, <2>0, <3>2, <3>3, <3>4, <3>5, MoveKeepsInvariant, Zenon
  <2> QED BY <1>3, <2>1, <2>2
<1>4. \A base \in Origins, href \in Origins \cup {None} :
         resolveSameOrigin(base, href) \in Origins \cup {None}
  BY DEF resolveSameOrigin
<1>5. req[r].copy \in Row /\ req[r].copy.base \in Origins BY <1>0 DEF KnowsItsSource, Row
<1>6. CASE KeepCredential(r) BY <1>0, <1>1, <1>6 DEF KeepCredential, InCall, KnowsItsSource
<1>7. CASE ProbeLocally(r) BY <1>1, <1>7 DEF ProbeLocally, InCall
<1>8. CASE ProbeCall(r)
  <2>1. req[r].op \notin Reading
    BY <1>0, <1>8, Zenon DEF ProbeCall, KnowsItsSource
  <2> QED BY <1>2, <1>5, <1>8, <2>1, Zenon DEF ProbeCall, Readable
<1>9. CASE ListCall(r)
  <2>1. PICK url \in {req[r].copy.base} \cup {c.origin : c \in {d \in cursors : Decodes(d, r)}} :
           TryAcquire(r, url)
    BY <1>9, Zenon DEF ListCall
  <2>2. url = req[r].copy.base BY <2>1, Zenon DEF Decodes, SameOrigin
  <2> QED BY <1>2, <1>5, <1>9, <2>1, <2>2, Zenon DEF ListCall, Readable
<1>10. CASE SearchCall(r)
  <2>1. PICK url : SameOrigin(req[r].copy.base, url) /\ TryAcquire(r, url)
    BY <1>10 DEF SearchCall
  <2> QED BY <1>2, <1>5, <1>10, <2>1, Zenon DEF SearchCall, Readable, SameOrigin
<1>11. CASE ProbeAnswer(r)
  <2>1. PICK href \in Origins \cup {None} :
           LET link == resolveSameOrigin(req[r].copy.base, href) IN
           \/ req' = [req EXCEPT ![r].at = "record", ![r].link = link]
           \/ link # None /\ req' = Goto(r, "description")
    BY <1>11 DEF ProbeAnswer
  <2>2. resolveSameOrigin(req[r].copy.base, href) \in Origins \cup {None} BY <1>4, <1>5
  <2> QED BY <1>3, <1>11, <2>1, <2>2 DEF ProbeAnswer, InCall
<1>12. CASE DescribeAnswer(r)
  <2>1. PICK t \in Origins \cup {None} :
           req' = [req EXCEPT ![r].at = "record",
                              ![r].link = resolveSameOrigin(req[r].copy.base, t)]
    BY <1>12, Zenon DEF DescribeAnswer
  <2>2. resolveSameOrigin(req[r].copy.base, t) \in Origins \cup {None} BY <1>4, <1>5
  <2> QED BY <1>3, <1>12, <2>1, <2>2, Zenon DEF DescribeAnswer, InCall
<1>13. CASE DescribeCall(r)
  <2>1. CASE slots < Cap
    <3>1. PICK q : q = [req[r] EXCEPT !.at = "describe"] BY Zenon
    <3>2. /\ q \in Request /\ q.at = "describe" /\ q.op = req[r].op /\ q.id = req[r].id
          /\ q.copy = req[r].copy /\ q.url = req[r].url
      BY <1>0, <3>1 DEF Request
    <3>3. req' = [req EXCEPT ![r] = q] BY <1>0, <1>13, <2>1, <3>1, Zenon DEF DescribeCall, Goto
    <3>4. q.at \in InCall /\ req[r].at \notin InCall BY <1>13, <3>2, Zenon DEF InCall, DescribeCall
    <3>5. /\ q.url = q.copy.base
          /\ q.op \in {"check"} \cup Reading => q.copy.cred \in {0, key}
      BY <1>0, <1>13, <3>2 DEF KnowsItsSource, DescribeCall
    <3>6. slots' = slots + 1 /\ slots' <= Cap BY <1>0, <1>13, <2>1 DEF DescribeCall
    <3> QED BY <1>0, <3>2, <3>3, <3>4, <3>5, <3>6, MoveKeepsInvariant, Zenon
  <2>2. CASE ~(slots < Cap) BY <1>1, <1>13, <2>2 DEF DescribeCall, InCall
  <2> QED BY <2>1, <2>2
<1> QED BY <1>6, <1>7, <1>8, <1>9, <1>10, <1>11, <1>12, <1>13, Zenon

\* The ends of a request that write no row.
LEMMA EndsKeepInvariant ==
    ASSUME SourcesInvariant, NEW r \in Requests,
           Refuse(r) \/ RecordFails(r) \/ ListLocally(r) \/ ListAnswer(r)
    PROVE  SourcesInvariant'
<1>1. CASE Refuse(r) BY <1>1, AnswerKeepsInvariant DEF Refuse, InCall
<1>2. CASE RecordFails(r) BY <1>2, AnswerKeepsInvariant DEF RecordFails, InCall
<1>3. CASE ListLocally(r) BY <1>3, AnswerKeepsInvariant DEF ListLocally, InCall
<1>4. CASE ListAnswer(r)
  <2>1. PICK q \in Request : q = Idle BY Zenon DEF Idle, Request
  <2>2. q.at = "idle" /\ q.id = None /\ q.op = None BY <2>1 DEF Idle
  <2>3. KnowsItsSource(q)' BY <2>1, <2>2, NoneAssumption DEF KnowsItsSource, Idle, Ops
  <2>4. RemovedStaysRemoved' /\ row' \in [SourceIds -> Row \cup {None}]
    BY <1>4, Facts DEF ListAnswer, RemovedStaysRemoved
  <2>5. \A s \in Requests \ {r} :
           /\ req[s].op = "create" => row'[req[s].id] = None /\ q.id # req[s].id
           /\ q.op = "create" => req[s].id # q.id
    BY <1>4, <2>2, Facts DEF ListAnswer, Ops
  <2>6. cursors' \subseteq [id : SourceIds, origin : Origins, key : Keys]
    <3>1. PICK next \in Origins \cup {None} : cursors' = normalise(r, next)
      BY <1>4 DEF ListAnswer
    <3>2. CASE cursors' = cursors BY <3>2, Facts
    <3>3. CASE cursors' # cursors
      <4>1. /\ next \in Origins
            /\ cursors' = {[id |-> req[r].id, origin |-> next, key |-> key]}
        BY <3>1, <3>3, Facts, Zenon DEF normalise, resolveSameOrigin, SameOrigin
      <4>2. req[r].id \in SourceIds /\ key \in Keys
        BY <1>4, Facts DEF ListAnswer, KnowsItsSource
      <4> QED BY <4>1, <4>2
    <3> QED BY <3>2, <3>3
  <2>7. /\ req' = [req EXCEPT ![r] = q] /\ slots' = slots - 1 /\ slots' <= Cap
        /\ UNCHANGED <<removed, key>> /\ q.at \notin InCall /\ req[r].at \in InCall
    BY <1>4, <2>1, <2>2, Facts, SMTT(30) DEF ListAnswer, Answer, Release, InCall
  <2> QED BY <2>3, <2>4, <2>5, <2>6, <2>7, RequestStep, Zenon
<1> QED BY <1>1, <1>2, <1>3, <1>4

\* DELETE changes a row and no request; no request is creating that row.
LEMMA DeleteKeepsInvariant ==
    ASSUME SourcesInvariant, NEW id \in SourceIds, Delete(id)
    PROVE  SourcesInvariant'
<1>1. /\ row \in [SourceIds -> Row \cup {None}] /\ row[id] # None
      /\ row' = [row EXCEPT ![id] = None] /\ removed' = removed \cup {id}
      /\ UNCHANGED <<req, slots, cursors, key>>
  BY DEF SourcesInvariant, TypeOK, Delete
<1>2. TypeOK' BY <1>1 DEF SourcesInvariant, TypeOK
<1>3. \A r \in Requests : KnowsItsSource(req[r])'
  <2> TAKE r \in Requests
  <2>1. KnowsItsSource(req[r]) BY Zenon DEF SourcesInvariant
  <2>2. req[r].op = "create" => req[r].id # id /\ req[r].id \in SourceIds
    BY <1>1, <2>1, Facts, NoneAssumption, SMTT(30) DEF KnowsItsSource, Idle, Ops
  <2> QED BY <1>1, <2>1, <2>2 DEF KnowsItsSource
<1>4. SlotsAreOfCalls' BY <1>1 DEF SourcesInvariant, SlotsAreOfCalls, Calling
<1>5. RemovedStaysRemoved' BY <1>1 DEF SourcesInvariant, RemovedStaysRemoved, TypeOK
<1> QED BY <1>1, <1>2, <1>3, <1>4, <1>5 DEF SourcesInvariant

\* No request, and so no call, outlives the process.
LEMMA NoRequests ==
    req = [r \in Requests |-> Idle] /\ slots = 0 =>
        /\ req \in [Requests -> Request]
        /\ \A r \in Requests : KnowsItsSource(req[r])
        /\ \A r, s \in Requests : r # s /\ req[r].op = "create" => req[s].id # req[r].id
        /\ SlotsAreOfCalls
<1> SUFFICES ASSUME req = [r \in Requests |-> Idle], slots = 0
             PROVE  /\ req \in [Requests -> Request]
                    /\ \A r \in Requests : KnowsItsSource(req[r])
                    /\ \A r, s \in Requests :
                          r # s /\ req[r].op = "create" => req[s].id # req[r].id
                    /\ SlotsAreOfCalls
  OBVIOUS
<1>1. Idle \in Request BY DEF Idle, Request
<1>2. Idle.at = "idle" /\ Idle.op # "create" BY NoneAssumption DEF Idle, Ops
<1>3. Calling = {} BY <1>2 DEF Calling
<1>4. SlotsAreOfCalls BY <1>3, FS_EmptySet DEF SlotsAreOfCalls
<1>5. KnowsItsSource(Idle) BY <1>2 DEF KnowsItsSource
<1> QED BY <1>1, <1>2, <1>4, <1>5

\* Every reachable state satisfies the invariant, whatever order the statements of the
\* requests, the deletions and the restarts run in.
THEOREM SourcesInvariantHolds == Spec => []SourcesInvariant
<1>1. Init => SourcesInvariant
  BY NoRequests, SourcesAssumption
  DEF Init, SourcesInvariant, TypeOK, RemovedStaysRemoved
<1>2. SourcesInvariant /\ [Next]_vars => SourcesInvariant'
  <2> SUFFICES ASSUME SourcesInvariant, [Next]_vars PROVE SourcesInvariant' OBVIOUS
  <2>1. CASE Restart
    <3>1. (req = [r \in Requests |-> Idle] /\ slots = 0)' BY <2>1 DEF Restart
    <3>2. (/\ req \in [Requests -> Request]
           /\ \A r \in Requests : KnowsItsSource(req[r])
           /\ \A r, s \in Requests : r # s /\ req[r].op = "create" => req[s].id # req[r].id
           /\ SlotsAreOfCalls)'
      BY <3>1, NoRequests, PTL
    <3>3. TypeOK' BY <2>1, <3>2, SourcesAssumption DEF Restart, SourcesInvariant, TypeOK, Keys
    <3>4. RemovedStaysRemoved' BY <2>1 DEF Restart, SourcesInvariant, RemovedStaysRemoved
    <3> QED BY <3>2, <3>3, <3>4 DEF SourcesInvariant
  <2>2. ASSUME NEW id \in SourceIds, Delete(id) PROVE SourcesInvariant'
    BY <2>2, DeleteKeepsInvariant
  <2>3. ASSUME NEW r \in Requests, Handle(r) PROVE SourcesInvariant'
    BY <2>3, BeginKeepsInvariant, StatementsKeepInvariant, CallsKeepInvariant, EndsKeepInvariant, Zenon
    DEF Handle
  <2>4. CASE UNCHANGED vars
    BY <2>4 DEF vars, SourcesInvariant, TypeOK, KnowsItsSource, SlotsAreOfCalls, Calling,
                RemovedStaysRemoved
  <2> QED BY <2>1, <2>2, <2>3, <2>4 DEF Next
<1> QED BY <1>1, <1>2, PTL DEF Spec

\* Every call a provider makes goes to the origin of the base URL the request works with:
\* the checks of detectSearch, ForOPDSPosition and Search leave no way out of it.
THEOREM CallsNeverLeaveTheirOrigin == Spec => []CallsStayOnOrigin
<1>1. SourcesInvariant => CallsStayOnOrigin
  BY DEF SourcesInvariant, CallsStayOnOrigin, Calling, KnowsItsSource
<1> QED BY <1>1, SourcesInvariantHolds, PTL

\* A health check, a browse or a search calls a source that has a credential with that
\* credential or not at all, also after the key file was lost.
THEOREM CredentialIsAlwaysSent == Spec => []CredentialIsSent
<1>1. SourcesInvariant => CredentialIsSent
  BY DEF SourcesInvariant, CredentialIsSent, Calling, KnowsItsSource
<1> QED BY <1>1, SourcesInvariantHolds, PTL

\* The semaphore counts exactly the calls in progress, and no PATCH, probe or creation in
\* flight brings a deleted source back.
THEOREM SlotsAndRemovalsHold == Spec => [](SlotsAreOfCalls /\ RemovedStaysRemoved)
<1>1. SourcesInvariant => SlotsAreOfCalls /\ RemovedStaysRemoved BY DEF SourcesInvariant
<1> QED BY <1>1, SourcesInvariantHolds, PTL

-----------------------------------------------------------------------------
(* Highest and lowest numbers, and the rows that LIMIT lets through. *)

\* The least-number principle.
LEMMA LeastNumber ==
    ASSUME NEW S \in SUBSET Nat, S # {}
    PROVE  \E m \in S : \A k \in S : m <= k
<1>1. PICK R : R = {p \in Nat \X Nat : p[1] < p[2]} BY Zenon
<1>2. IsWellFoundedOn(R, Nat) BY <1>1, NatLessThanWellFounded DEF OpToRel
<1>3. PICK m \in S : \A k \in S : ~(<<k, m>> \in R) BY <1>2, WFMin, Zenon
<1>4. \A k \in S : ~(k < m) BY <1>1, <1>3, Zenon
<1> QED BY <1>4

\* A set of numbers has a lowest one, and below a bound a highest one.
LEMMA HasMin ==
    ASSUME NEW S \in SUBSET Nat, S # {}
    PROVE  Min(S) \in S /\ \A x \in S : Min(S) <= x
<1>1. \E n \in S : \A m \in S : n <= m BY LeastNumber
<1> QED BY <1>1, Zenon DEF Min

LEMMA HasMax ==
    ASSUME NEW n \in Nat, NEW S \in SUBSET (0..n), S # {}
    PROVE  Max(S) \in S /\ \A x \in S : x <= Max(S)
<1>1. PICK T : T = {n - x : x \in S} BY Zenon
<1>2. T \in SUBSET Nat /\ T # {}
  <2>1. \A x \in S : n - x \in Nat OBVIOUS
  <2> QED BY <1>1, <2>1, Zenon
<1>3. PICK m \in T : \A k \in T : m <= k BY <1>2, LeastNumber
<1>4. PICK y \in S : m = n - y BY <1>1, <1>3
<1>5. \A x \in S : x <= y
  <2> TAKE x \in S
  <2>1. n - x \in T BY <1>1, Zenon
  <2>2. n - y <= n - x BY <1>3, <1>4, <2>1
  <2> QED BY <2>2
<1>6. \E z \in S : \A x \in S : z >= x BY <1>5
<1>7. Max(S) \in S /\ \A x \in S : Max(S) >= x BY <1>6, Zenon DEF Max
<1> QED BY <1>7

\* The same for what carries the numbers.
LEMMA LowestOf ==
    ASSUME NEW Q, Q # {}, NEW num \in [Q -> Nat]
    PROVE  \E c \in Q : \A q \in Q : num[c] <= num[q]
<1>1. PICK S : S = {num[q] : q \in Q} BY Zenon
<1>2. S \in SUBSET Nat BY <1>1
<1>3. S # {}
  <2>1. PICK q : q \in Q OBVIOUS
  <2>2. num[q] \in S BY <1>1, <2>1
  <2> QED BY <2>2
<1>4. PICK m \in S : \A k \in S : m <= k BY <1>2, <1>3, LeastNumber
<1>5. PICK c \in Q : num[c] = m BY <1>1, <1>4
<1>6. \A q \in Q : num[q] \in S BY <1>1
<1> QED BY <1>4, <1>5, <1>6

LEMMA HighestOf ==
    ASSUME NEW Q, Q # {}, NEW n \in Nat, NEW num \in [Q -> 0..n]
    PROVE  \E c \in Q : \A q \in Q : num[q] <= num[c]
<1>1. PICK S : S = {num[q] : q \in Q} BY Zenon
<1>2. S \in SUBSET (0..n) BY <1>1
<1>3. S # {}
  <2>1. PICK q : q \in Q OBVIOUS
  <2>2. num[q] \in S BY <1>1, <2>1
  <2> QED BY <2>2
<1>4. PICK m \in S : \A k \in S : k <= m BY <1>2, <1>3, HasMax, Zenon
<1>5. PICK c \in Q : num[c] = m BY <1>1, <1>4
<1>6. \A q \in Q : num[q] \in S BY <1>1
<1> QED BY <1>4, <1>5, <1>6

\* ORDER BY seq LIMIT n over distinct numbers: what is cut off lies above
\* everything let through, and then exactly n rows were let through.
LEMMA LimitCutsAbove ==
    ASSUME NEW D, IsFiniteSet(D), NEW num \in [D -> Nat], NEW n \in Nat \ {0},
           \A p, q \in D : num[p] = num[q] => p = q,
           NEW below \in [D -> SUBSET D],
           \A p, q \in D : q \in below[p] <=> num[q] < num[p],
           NEW P \in SUBSET D, \A p \in D : p \in P <=> Cardinality(below[p]) < n,
           NEW r \in D \ P
    PROVE  /\ Cardinality(P) = n
           /\ \A p \in P : num[p] < num[r]
<1>1. \A p \in D : IsFiniteSet(below[p]) /\ Cardinality(below[p]) \in Nat
  BY FS_Subset, FS_CardinalityType
<1>2. ASSUME NEW p \in D, NEW q \in D, num[q] <= num[p]
      PROVE  Cardinality(below[q]) <= Cardinality(below[p])
  <2>1. \A x \in D : x \in below[q] => x \in below[p]
    <3> SUFFICES ASSUME NEW x \in D, x \in below[q] PROVE x \in below[p] OBVIOUS
    <3>1. num[x] \in Nat /\ num[q] \in Nat /\ num[p] \in Nat OBVIOUS
    <3>2. num[x] < num[q] OBVIOUS
    <3>3. num[x] < num[p] BY <1>2, <3>1, <3>2
    <3> QED BY <3>3
  <2>2. below[q] \in SUBSET below[p] BY <2>1
  <2> QED BY <1>1, <2>2, FS_Subset
<1>3. ASSUME NEW p \in P, NEW q \in D \ P PROVE num[p] < num[q]
  <2> SUFFICES ASSUME num[q] <= num[p] PROVE FALSE OBVIOUS
  <2>1. Cardinality(below[q]) <= Cardinality(below[p]) BY <1>2
  <2>2. Cardinality(below[p]) < n /\ ~(Cardinality(below[q]) < n) BY <1>3
  <2> QED BY <1>1, <2>1, <2>2
\* The lowest of the rows cut off: below it lies all that was let through.
<1>4. PICK c \in D \ P : \A q \in D \ P : num[c] <= num[q]
  <2>1. PICK Q : Q = D \ P BY Zenon
  <2>2. PICK f : f = [q \in Q |-> num[q]] BY Zenon
  <2>3. f \in [Q -> Nat] /\ Q # {} BY <2>1, <2>2
  <2>4. PICK c \in Q : \A q \in Q : f[c] <= f[q] BY <2>3, LowestOf
  <2> QED BY <2>1, <2>2, <2>4
<1>5. below[c] = P
  <2>1. \A q \in D : num[q] < num[c] => q \in P
    <3> SUFFICES ASSUME NEW q \in D, num[q] < num[c], q \notin P PROVE FALSE OBVIOUS
    <3>1. num[c] <= num[q] BY <1>4
    <3>2. num[c] \in Nat /\ num[q] \in Nat BY <1>4
    <3> QED BY <3>1, <3>2
  <2>2. \A q \in P : q \in D /\ num[q] < num[c] BY <1>3, <1>4
  <2> QED BY <1>4, <2>1, <2>2
<1>6. IsFiniteSet(P) /\ Cardinality(P) \in Nat BY <1>1, <1>4, <1>5
<1>7. Cardinality(P) >= n
  <2>1. ~(Cardinality(below[c]) < n) BY <1>4
  <2> QED BY <1>5, <1>6, <2>1
\* The highest of the rows let through: below it lie the others.
<1>8. PICK h \in P : \A q \in P : num[q] <= num[h]
  <2>1. P # {}
    <3> SUFFICES ASSUME P = {} PROVE FALSE OBVIOUS
    <3>1. Cardinality(P) = 0 BY FS_EmptySet
    <3> QED BY <1>7, <3>1
  <2>2. PICK f : f = [q \in P |-> num[q]] BY Zenon
  <2>3. num[c] \in Nat BY <1>4
  <2>4. \A q \in P : num[q] \in Nat /\ num[q] < num[c] BY <1>3, <1>4
  <2>5. f \in [P -> 0 .. num[c]] BY <2>2, <2>3, <2>4
  <2>6. PICK h \in P : \A q \in P : f[q] <= f[h] BY <2>1, <2>3, <2>5, HighestOf, Zenon
  <2> QED BY <2>2, <2>6
<1>9. below[h] = P \ {h}
  <2>1. \A q \in D : num[q] < num[h] => q \in P \ {h}
    <3> SUFFICES ASSUME NEW q \in D, num[q] < num[h] PROVE q \in P \ {h} OBVIOUS
    <3>1. num[q] \in Nat /\ num[h] \in Nat BY <1>8
    <3>2. q # h BY <3>1
    <3>3. q \in P
      <4> SUFFICES ASSUME q \notin P PROVE FALSE OBVIOUS
      <4>1. num[h] < num[q] BY <1>3, <1>8
      <4> QED BY <3>1, <4>1
    <3> QED BY <3>2, <3>3
  <2>2. \A q \in P \ {h} : num[q] < num[h]
    <3> TAKE q \in P \ {h}
    <3>1. num[q] \in Nat /\ num[h] \in Nat BY <1>8
    <3>2. num[q] # num[h] /\ num[q] <= num[h] BY <1>8
    <3> QED BY <3>1, <3>2
  <2> QED BY <1>8, <2>1, <2>2
<1>10. Cardinality(P \ {h}) = Cardinality(P) - 1 BY <1>6, <1>8, FS_RemoveElement, Zenon
<1>11. Cardinality(below[h]) < n BY <1>8
<1>12. Cardinality(P) - 1 < n BY <1>9, <1>10, <1>11
<1>13. Cardinality(P) = n BY <1>6, <1>7, <1>12
<1> QED BY <1>3, <1>13

-----------------------------------------------------------------------------
(* The order of the rows of QueryLibrary, and its pages. *)

LEMMA TimeIsNat == Time \subseteq Nat /\ 0 \in Time /\ 1 \in Time /\ MaxTime \in Nat
BY CatalogueAssumption DEF Time

LEMMA KeyIsNumber ==
    ASSUME CatTypeOK, NEW sort \in Sorts, NEW filter \in Filters, NEW w \in Pool(filter)
    PROVE  Key(sort, w) \in Nat
<1>1. w \in Works /\ (Owned(w) \/ Wanted(w)) BY DEF Pool, Filters
<1>2. CASE sort = "title" BY <1>1, <1>2, CatalogueAssumption, Zenon DEF Key, CatTypeOK
<1>3. CASE sort # "title" /\ Owned(w)
  BY <1>1, <1>3, TimeIsNat, Zenon DEF Key, EffectiveAddedAt, CatTypeOK
<1>4. CASE sort # "title" /\ ~Owned(w)
  <2>1. PICK S : S = {member[c][w] : c \in Collections} BY Zenon
  <2>2. PICK c \in Collections : member[c][w] > 0 BY <1>1, <1>4 DEF Wanted
  <2>3. \A x \in Collections : member[x][w] \in 0..MaxTime BY <1>1 DEF CatTypeOK, Time
  <2>4. S \in SUBSET (0..MaxTime) BY <2>1, <2>3
  <2>5. member[c][w] \in S BY <2>1, <2>2
  <2>6. Max(S) \in S BY <2>4, <2>5, TimeIsNat, HasMax, Zenon
  <2>7. Max(S) \in 0..MaxTime BY <2>4, <2>6, Zenon
  <2>8. Max(S) \in Nat BY <2>7
  <2> QED BY <1>4, <2>1, <2>8 DEF Key, EffectiveAddedAt
<1> QED BY <1>2, <1>3, <1>4

\* ORDER BY and the cursor predicate agree.
LEMMA AheadIsAfter ==
    ASSUME NEW sort \in Sorts, NEW v \in Works, NEW w \in Works,
           Key(sort, v) \in Nat, Key(sort, w) \in Nat
    PROVE  Ahead(sort, v, w) <=> After(sort, [key |-> Key(sort, v), id |-> v], Key(sort, w), w)
<1>1. v \in Nat /\ w \in Nat BY CatalogueAssumption
<1>2. CASE sort = "title" BY <1>1, <1>2 DEF Ahead, After, Key
<1>3. CASE sort = "added_at" BY <1>1, <1>3 DEF Ahead, After, Key
<1> QED BY <1>2, <1>3 DEF Sorts

\* What is after a position that is after another one is after that one.
LEMMA AfterIsTransitive ==
    ASSUME NEW sort \in Sorts, NEW p \in [key : Nat, id : Nat],
           NEW k1 \in Nat, NEW i1 \in Nat, NEW k2 \in Nat, NEW i2 \in Nat,
           After(sort, p, k1, i1), After(sort, [key |-> k1, id |-> i1], k2, i2)
    PROVE  After(sort, p, k2, i2)
<1>1. CASE sort = "title" BY <1>1 DEF After
<1>2. CASE sort = "added_at" BY <1>2 DEF After
<1> QED BY <1>1, <1>2 DEF Sorts


\* ORDER BY is a strict total order of the rows.
LEMMA RowsAreOrdered ==
    ASSUME NEW sort \in Sorts, NEW rows \in SUBSET Works, \A w \in rows : Key(sort, w) \in Nat
    PROVE  /\ \A w \in rows : ~Ahead(sort, w, w)
           /\ \A u, v, w \in rows : Ahead(sort, u, v) /\ Ahead(sort, v, w) => Ahead(sort, u, w)
           /\ \A v, w \in rows : Ahead(sort, v, w) \/ Ahead(sort, w, v) \/ v = w
<1>1. \A w \in rows : w \in Works /\ w \in Nat BY CatalogueAssumption
<1>2. CASE sort = "title" BY <1>1, <1>2 DEF Ahead, Key
<1>3. CASE sort = "added_at" BY <1>1, <1>3 DEF Ahead, Key
<1> QED BY <1>2, <1>3 DEF Sorts

\* The places of the rows number them along the order.
LEMMA PlacesAreNumbers ==
    ASSUME NEW sort \in Sorts, NEW rows \in SUBSET Works, \A w \in rows : Key(sort, w) \in Nat,
           NEW below, below = [w \in rows |-> {v \in rows : Ahead(sort, v, w)}],
           NEW num, num = [w \in rows |-> Cardinality(below[w])]
    PROVE  /\ IsFiniteSet(rows) /\ Cardinality(rows) \in Nat
           /\ below \in [rows -> SUBSET rows] /\ num \in [rows -> Nat]
           /\ \A w \in rows : num[w] = Place(sort, rows, w) /\ num[w] < Cardinality(rows)
           /\ \A v, w \in rows : v \in below[w] <=> num[v] < num[w]
           /\ \A v, w \in rows : Ahead(sort, v, w) <=> num[v] < num[w]
           /\ \A v, w \in rows : num[v] = num[w] => v = w
<1>1. IsFiniteSet(rows) /\ Cardinality(rows) \in Nat
  BY CatalogueAssumption, FS_Subset, FS_CardinalityType, Zenon
<1>2. below \in [rows -> SUBSET rows] OBVIOUS
<1>3. \A w \in rows : IsFiniteSet(below[w]) /\ Cardinality(below[w]) \in Nat
  BY <1>1, <1>2, FS_Subset, FS_CardinalityType
<1>4. num \in [rows -> Nat] BY <1>3, Zenon
<1>5. \A w \in rows : num[w] = Cardinality(below[w]) OBVIOUS
<1>6. \A v, w \in rows : v \in below[w] <=> Ahead(sort, v, w) OBVIOUS
<1>7. /\ \A w \in rows : ~Ahead(sort, w, w)
      /\ \A u, v, w \in rows : Ahead(sort, u, v) /\ Ahead(sort, v, w) => Ahead(sort, u, w)
      /\ \A v, w \in rows : Ahead(sort, v, w) \/ Ahead(sort, w, v) \/ v = w
  BY RowsAreOrdered, Zenon
<1>8. ASSUME NEW v \in rows, NEW w \in rows, Ahead(sort, v, w) PROVE num[v] < num[w]
  <2>1. \A u \in rows : u \in below[v] => u \in below[w] BY <1>6, <1>7, <1>8
  <2>2. below[v] \in SUBSET below[w] BY <1>2, <2>1
  <2>3. v \in below[w] /\ v \notin below[v] BY <1>6, <1>7, <1>8
  <2>4. Cardinality(below[v]) <= Cardinality(below[w]) /\ Cardinality(below[v]) # Cardinality(below[w])
    BY <1>3, <2>2, <2>3, FS_Subset
  <2>5. Cardinality(below[v]) \in Nat /\ Cardinality(below[w]) \in Nat BY <1>3, Zenon
  <2>6. Cardinality(below[v]) < Cardinality(below[w]) BY <2>4, <2>5
  <2> QED BY <1>5, <2>6
<1>9. ASSUME NEW v \in rows, NEW w \in rows, num[v] < num[w] PROVE Ahead(sort, v, w)
  <2>1. num[v] \in Nat /\ num[w] \in Nat BY <1>4
  <2>2. v # w BY <1>9, <2>1
  <2>3. ~Ahead(sort, w, v)
    <3> SUFFICES ASSUME Ahead(sort, w, v) PROVE FALSE OBVIOUS
    <3>1. num[w] < num[v] BY <1>8
    <3> QED BY <1>9, <2>1, <3>1
  <2> QED BY <1>7, <2>2, <2>3
<1>10. ASSUME NEW v \in rows, NEW w \in rows, num[v] = num[w] PROVE v = w
  <2>1. num[v] \in Nat /\ num[w] \in Nat BY <1>4
  <2>2. ~(num[v] < num[w]) /\ ~(num[w] < num[v]) BY <1>10, <2>1
  <2>3. ~Ahead(sort, v, w) BY <1>8, <2>2
  <2>4. ~Ahead(sort, w, v) BY <1>8, <2>2
  <2> QED BY <1>7, <2>3, <2>4
<1>11. ASSUME NEW w \in rows PROVE num[w] < Cardinality(rows)
  <2>1. below[w] \in SUBSET rows /\ w \notin below[w] BY <1>2, <1>6, <1>7
  <2>2. Cardinality(below[w]) <= Cardinality(rows) /\ Cardinality(below[w]) # Cardinality(rows)
    BY <1>1, <2>1, FS_Subset
  <2> QED BY <1>1, <1>3, <1>5, <2>2
<1>12. \A w \in rows : num[w] = Place(sort, rows, w) BY DEF Place
<1> QED BY <1>1, <1>2, <1>4, <1>6, <1>8, <1>9, <1>10, <1>11, <1>12, Zenon


\* A page with its cursor: without the look-ahead row it is all rows; with it
\* the cursor is at the last row of the page, and the rows left out are those
\* behind it.
LEMMA PageEndsAtCursor ==
    ASSUME NEW sort \in Sorts, NEW rows \in SUBSET Works, \A w \in rows : Key(sort, w) \in Nat
    PROVE  \/ NextCursor(sort, rows) = {} /\ PageOf(sort, rows) = rows
           \/ \E h \in rows :
                /\ NextCursor(sort, rows) = {[key |-> Key(sort, h), id |-> h]}
                /\ \A w \in rows : w \in PageOf(sort, rows) <=> ~Ahead(sort, h, w)
<1>1. PICK below : below = [w \in rows |-> {v \in rows : Ahead(sort, v, w)}] BY Zenon
<1>2. PICK num : num = [w \in rows |-> Cardinality(below[w])] BY Zenon
<1>3. /\ IsFiniteSet(rows) /\ Cardinality(rows) \in Nat
      /\ below \in [rows -> SUBSET rows] /\ num \in [rows -> Nat]
      /\ \A w \in rows : num[w] = Place(sort, rows, w) /\ num[w] < Cardinality(rows)
      /\ \A v, w \in rows : v \in below[w] <=> num[v] < num[w]
      /\ \A v, w \in rows : Ahead(sort, v, w) <=> num[v] < num[w]
      /\ \A v, w \in rows : num[v] = num[w] => v = w
  BY <1>1, <1>2, PlacesAreNumbers
<1>4. \A w \in rows : Cardinality(below[w]) = num[w] BY <1>2
<1>5. PICK P : P = PageOf(sort, rows) OBVIOUS
<1>6. P \in SUBSET rows /\ \A w \in rows : w \in P <=> num[w] < PageSize
  BY <1>3, <1>5 DEF PageOf
<1>7. PageSize \in Nat \ {0} BY CatalogueAssumption
<1>8. CASE ~(Cardinality(rows) > PageSize)
  <2>1. \A w \in rows : num[w] < PageSize BY <1>3, <1>7, <1>8
  <2>2. P = rows BY <1>6, <2>1
  <2>3. NextCursor(sort, rows) = {} BY <1>8 DEF NextCursor
  <2> QED BY <1>5, <2>2, <2>3
<1>9. CASE Cardinality(rows) > PageSize
  <2>1. ASSUME NEW Q \in SUBSET rows, Q # {}
        PROVE  \E h \in Q : \A w \in Q : num[w] <= num[h]
    <3>1. PICK f : f = [w \in Q |-> num[w]] BY Zenon
    <3>2. f \in [Q -> 0 .. Cardinality(rows)] BY <1>3, <3>1
    <3>3. PICK h \in Q : \A w \in Q : f[w] <= f[h] BY <1>3, <2>1, <3>2, HighestOf, Zenon
    <3> QED BY <3>1, <3>3
  <2>2. rows # {} BY <1>7, <1>9, FS_EmptySet
  <2>3. PICK r : r \in rows \ P
    <3> SUFFICES ASSUME rows \ P = {} PROVE FALSE OBVIOUS
    <3>1. PICK h \in rows : \A w \in rows : num[w] <= num[h] BY <2>1, <2>2
    <3>2. below[h] = rows \ {h}
      <4>1. \A w \in rows : num[w] \in Nat /\ num[h] \in Nat BY <1>3, <3>1
      <4>2. \A w \in rows : w # h => num[w] # num[h] BY <1>3, <3>1
      <4>3. \A w \in rows : num[w] < num[h] <=> w # h BY <3>1, <4>1, <4>2
      <4> QED BY <1>3, <3>1, <4>3
    <3>3. Cardinality(rows \ {h}) = Cardinality(rows) - 1 BY <1>3, <3>1, FS_RemoveElement, Zenon
    <3>4. num[h] = Cardinality(rows) - 1 BY <1>4, <3>1, <3>2, <3>3, Zenon
    <3>5. num[h] < PageSize BY <1>6, <3>1
    <3> QED BY <1>3, <1>7, <1>9, <3>4, <3>5
  <2>4. ASSUME NEW q \in rows \ P
        PROVE  Cardinality(P) = PageSize /\ \A p \in P : num[p] < num[q]
    <3>1. \A p \in rows : p \in P <=> Cardinality(below[p]) < PageSize BY <1>4, <1>6
    <3> QED BY <1>3, <1>6, <1>7, <3>1, LimitCutsAbove, SMTT(30)
  <2>5. Cardinality(P) = PageSize BY <2>3, <2>4
  <2>6. IsFiniteSet(P) BY <1>3, <1>6, FS_Subset
  <2>7. P # {} BY <1>7, <2>5, FS_EmptySet
  <2>8. PICK h \in P : \A w \in P : num[w] <= num[h] BY <1>6, <2>1, <2>7
  <2>9. h \in rows /\ num[h] \in Nat BY <1>3, <1>6, <2>8
  <2>10. \A w \in rows : w \in P <=> ~(num[h] < num[w])
    <3> TAKE w \in rows
    <3>1. num[w] \in Nat BY <1>3
    <3>2. CASE w \in P BY <2>8, <2>9, <3>1, <3>2
    <3>3. CASE w \notin P BY <2>4, <2>8, <3>3
    <3> QED BY <3>2, <3>3
  <2>11. below[h] = P \ {h}
    <3>1. \A w \in rows : num[w] < num[h] => w \in P /\ w # h BY <1>3, <2>9, <2>10
    <3>2. \A w \in P : w # h => num[w] < num[h]
      <4> SUFFICES ASSUME NEW w \in P, w # h PROVE num[w] < num[h] OBVIOUS
      <4>1. w \in rows /\ num[w] \in Nat BY <1>3, <1>6
      <4>2. num[w] # num[h] BY <1>3, <2>9, <4>1
      <4> QED BY <2>8, <2>9, <4>1, <4>2
    <3>3. \A w \in rows : w \in below[h] <=> num[w] < num[h] BY <1>3, <2>9
    <3>4. below[h] \in SUBSET rows BY <1>3, <2>9
    <3> QED BY <1>6, <3>1, <3>2, <3>3, <3>4, SMTT(30)
  <2>12. num[h] = PageSize - 1
    <3>1. Cardinality(P \ {h}) = Cardinality(P) - 1 BY <2>6, <2>8, FS_RemoveElement, Zenon
    <3> QED BY <1>4, <2>5, <2>9, <2>11, <3>1, Zenon
  <2>13. {v \in P : Place(sort, rows, v) = PageSize - 1} = {h}
    <3>1. \A v \in P : Place(sort, rows, v) = num[v] BY <1>3, <1>6
    <3>2. \A v \in P : num[v] = num[h] => v = h BY <1>3, <1>6, <2>9, Zenon
    <3> QED BY <2>8, <2>12, <3>1, <3>2, SMTT(30)
  <2>14. NextCursor(sort, rows) = {[key |-> Key(sort, h), id |-> h]}
    BY <1>5, <1>9, <2>13 DEF NextCursor
  <2>15. \A w \in rows : w \in P <=> ~Ahead(sort, h, w) BY <1>3, <2>9, <2>10
  <2> QED BY <1>5, <2>9, <2>14, <2>15
<1> QED BY <1>8, <1>9


-----------------------------------------------------------------------------
(* The scroll. *)

\* The rows behind a cursor are rows of the pool, with their keys.
LEMMA RowsAreKeyed ==
    ASSUME CatTypeOK, NEW sort \in Sorts, NEW filter \in Filters, NEW from,
           NEW rows, rows = RowsAfter(sort, filter, from)
    PROVE  /\ rows \in SUBSET Works
           /\ \A w \in rows : w \in Pool(filter) /\ Key(sort, w) \in Nat
<1>1. Pool(filter) \in SUBSET Works BY DEF Pool
<1>2. rows \in SUBSET Pool(filter) BY DEF RowsAfter
<1> QED BY <1>1, <1>2, KeyIsNumber

LEMMA ScrollTyped ==
    ASSUME CatTypeOK, NEW sort \in Sorts, NEW filter \in Filters, NEW from,
           NEW old \in [Works -> Nat], NEW new, new = Scrolled(sort, filter, from, old)
    PROVE  /\ new \in Walk /\ new.sort = sort /\ new.filter = filter
           /\ new # NoWalk
           /\ \A p, q \in new.cursor : p = q
<1>1. PICK rows : rows = RowsAfter(sort, filter, from) OBVIOUS
<1>2. rows \in SUBSET Works /\ \A w \in rows : Key(sort, w) \in Nat BY <1>1, RowsAreKeyed
<1>3. PICK nc : nc = NextCursor(sort, rows) OBVIOUS
<1>4. PICK ls : ls = [w \in Works |-> old[w] + IF w \in PageOf(sort, rows) THEN 1 ELSE 0] BY Zenon
<1>5. new = [sort |-> sort, filter |-> filter, cursor |-> nc, listed |-> ls]
  BY <1>1, <1>3, <1>4 DEF Scrolled, QueryLibrary
<1>6. nc = {} \/ \E h \in rows : nc = {[key |-> Key(sort, h), id |-> h]}
  BY <1>2, <1>3, PageEndsAtCursor
<1>7. nc \in SUBSET Position /\ \A p, q \in nc : p = q BY <1>2, <1>6 DEF Position
<1>8. ls \in [Works -> Nat] BY <1>4
<1>9. new \in Walk BY <1>5, <1>7, <1>8 DEF Walk
<1>10. new.sort # NoWalk.sort BY <1>5 DEF NoWalk, Sorts
<1> QED BY <1>5, <1>7, <1>9, <1>10

\* A work comes after the cursor.
Past(sort, from, w) == \E pos \in from : After(sort, pos, Key(sort, w), w)

\* The rows up to a cursor are listed once, those after it not at all.
ListedUpTo(sort, from, old, w) == old[w] = IF from = {} \/ Past(sort, from, w) THEN 0 ELSE 1

\* The next page lists the works between the cursor and the next one, once.
LEMMA ScrollLists ==
    ASSUME CatTypeOK, NEW sort \in Sorts, NEW filter \in Filters,
           NEW from \in SUBSET Position, \A p, q \in from : p = q,
           NEW old \in [Works -> Nat], NEW new, new = Scrolled(sort, filter, from, old),
           NEW w \in Pool(filter), ListedUpTo(sort, from, old, w)
    PROVE  new.listed[w] = IF Past(sort, new.cursor, w) THEN 0 ELSE 1
<1>1. PICK rows : rows = RowsAfter(sort, filter, from) BY Zenon
<1>2. rows \in SUBSET Works /\ \A v \in rows : Key(sort, v) \in Nat BY <1>1, RowsAreKeyed
<1>3. w \in Works /\ w \in Nat /\ Key(sort, w) \in Nat
  BY KeyIsNumber, CatalogueAssumption, Zenon DEF Pool
<1>4. new.cursor = NextCursor(sort, rows) BY <1>1, Zenon DEF Scrolled, QueryLibrary
<1>5. new.listed[w] = old[w] + IF w \in PageOf(sort, rows) THEN 1 ELSE 0
  BY <1>1, <1>3 DEF Scrolled, QueryLibrary
<1>6. PageOf(sort, rows) \in SUBSET rows BY DEF PageOf
<1>7. w \in rows <=> from = {} \/ Past(sort, from, w) BY <1>1, Zenon DEF RowsAfter, Past
<1>8. /\ w \in rows => old[w] = 0
      /\ w \notin rows => old[w] = 1
  BY <1>7, Zenon DEF ListedUpTo
<1>9. /\ w \in PageOf(sort, rows) => new.listed[w] = old[w] + 1
      /\ w \notin PageOf(sort, rows) => new.listed[w] = old[w]
  BY <1>3, <1>5
<1>10. \/ NextCursor(sort, rows) = {} /\ PageOf(sort, rows) = rows
       \/ \E h \in rows : /\ NextCursor(sort, rows) = {[key |-> Key(sort, h), id |-> h]}
                          /\ \A v \in rows : v \in PageOf(sort, rows) <=> ~Ahead(sort, h, v)
  BY <1>2, PageEndsAtCursor, Zenon
<1>11. CASE w \in rows
  <2>1. old[w] = 0 BY <1>8, <1>11
  <2>2. w \in PageOf(sort, rows) <=> ~Past(sort, new.cursor, w)
    <3>1. CASE NextCursor(sort, rows) = {} /\ PageOf(sort, rows) = rows
      BY <1>4, <1>11, <3>1, Zenon DEF Past
    <3>2. ASSUME NEW h \in rows, NextCursor(sort, rows) = {[key |-> Key(sort, h), id |-> h]},
                 w \in PageOf(sort, rows) <=> ~Ahead(sort, h, w)
          PROVE  w \in PageOf(sort, rows) <=> ~Past(sort, new.cursor, w)
      <4>1. h \in Works BY <1>2, Zenon
      <4>2. Ahead(sort, h, w) <=> After(sort, [key |-> Key(sort, h), id |-> h], Key(sort, w), w)
        BY <1>2, <1>3, <4>1, AheadIsAfter
      <4>3. Past(sort, new.cursor, w) <=> Ahead(sort, h, w) BY <1>4, <3>2, <4>2, Zenon DEF Past
      <4> QED BY <3>2, <4>3, Zenon
    <3> QED BY <1>10, <1>11, <3>1, <3>2, Zenon
  <2> QED BY <1>9, <2>1, <2>2
<1>12. CASE w \notin rows
  <2>1. old[w] = 1 /\ w \notin PageOf(sort, rows) BY <1>6, <1>8, <1>12
  <2>2. PICK pos \in from : TRUE BY <1>7, <1>12, Zenon
  <2>3. ~After(sort, pos, Key(sort, w), w) BY <1>7, <1>12, <2>2, Zenon DEF Past
  <2>4. pos \in [key : Nat, id : Nat] BY <2>2, CatalogueAssumption, Zenon DEF Position
  <2>5. ASSUME NEW h \in rows, After(sort, [key |-> Key(sort, h), id |-> h], Key(sort, w), w)
        PROVE  FALSE
    <3>1. h \in Nat /\ Key(sort, h) \in Nat BY <1>2, CatalogueAssumption
    <3>2. PICK p \in from : After(sort, p, Key(sort, h), h)
      BY <1>1, <2>2 DEF RowsAfter
    <3>3. After(sort, pos, Key(sort, h), h) BY <2>2, <3>2, Zenon
    <3>4. After(sort, pos, Key(sort, w), w)
      BY <1>3, <2>4, <2>5, <3>1, <3>3, AfterIsTransitive
    <3> QED BY <2>3, <3>4, Zenon
  <2>6. ~Past(sort, new.cursor, w)
    <3>1. CASE NextCursor(sort, rows) = {} BY <1>4, <3>1, Zenon DEF Past
    <3>2. ASSUME NEW h \in rows, NextCursor(sort, rows) = {[key |-> Key(sort, h), id |-> h]}
          PROVE  ~Past(sort, new.cursor, w)
      <4>1. \A p \in new.cursor : p = [key |-> Key(sort, h), id |-> h] BY <1>4, <3>2, Zenon
      <4>2. ~After(sort, [key |-> Key(sort, h), id |-> h], Key(sort, w), w) BY <2>5, Zenon
      <4> QED BY <4>1, <4>2, Zenon DEF Past
    <3> QED BY <1>10, <3>1, <3>2, Zenon
  <2> QED BY <1>9, <2>1, <2>6, Zenon
<1> QED BY <1>11, <1>12, Zenon

-----------------------------------------------------------------------------
(* The theorem of Catalogue. *)

CatCore == CatTypeOK /\ MembersHaveCollections /\ ListedOncePassed

\* Pages change no data.
LEMMA PageKeepsCore ==
    ASSUME CatCore, UNCHANGED data,
           NEW sort \in Sorts, NEW filter \in Filters,
           NEW from \in SUBSET Position, \A p, q \in from : p = q, NEW old \in [Works -> Nat],
           walk' = Scrolled(sort, filter, from, old), steady' \in SUBSET Pool(filter),
           \A w \in steady' : ListedUpTo(sort, from, old, w)
    PROVE  CatCore'
<1> USE DEF CatCore
<1>0. CatTypeOK BY Zenon
<1>1. /\ walk' \in Walk /\ walk'.sort = sort /\ walk'.filter = filter /\ walk' # NoWalk
      /\ \A p, q \in walk'.cursor : p = q
  BY <1>0, ScrollTyped, SMTT(30)
<1>2. steady' \subseteq Works BY DEF Pool
<1>3. /\ title' = title /\ clock' = clock /\ entry' = entry
      /\ coll' = coll /\ member' = member /\ pending' = pending
  BY DEF data
<1>4. CatTypeOK' BY <1>1, <1>2, <1>3, Zenon DEF CatTypeOK, NoWalk
<1>5. MembersHaveCollections' BY <1>3, Zenon DEF MembersHaveCollections
<1>6. ListedOncePassed'
  <2>1. Pool(walk.filter)' = Pool(walk'.filter) BY <1>3, Zenon DEF Pool, Owned, Wanted
  <2>2. \A w \in steady' : Key(walk.sort, w)' = Key(walk'.sort, w)
    BY <1>3, Zenon DEF Key, EffectiveAddedAt, Owned
  <2> SUFFICES ASSUME NEW w \in steady'
               PROVE  /\ w \in Pool(walk'.filter)
                      /\ walk'.listed[w] = IF Past(walk'.sort, walk'.cursor, w) THEN 0 ELSE 1
    BY <2>1, <2>2, Zenon DEF ListedOncePassed, After, Past
  <2>3. w \in Pool(filter) OBVIOUS
  <2>4. ListedUpTo(sort, from, old, w) BY Zenon
  <2>5. walk'.listed[w] = IF Past(sort, walk'.cursor, w) THEN 0 ELSE 1
    BY <2>3, <2>4, ScrollLists
  <2> QED BY <1>1, <2>3, <2>5, Zenon
<1> QED BY <1>4, <1>5, <1>6, Zenon

LEMMA FirstPageKeepsCore ==
    ASSUME CatCore, NEW sort \in Sorts, NEW filter \in Filters, FirstPage(sort, filter)
    PROVE  CatCore'
<1>1. PICK zeros : zeros = [w \in Works |-> 0] BY Zenon
<1>2. zeros \in [Works -> Nat] BY <1>1
<1>3. PICK from : from = {} BY Zenon
<1>4. from \in SUBSET Position /\ \A p, q \in from : p = q BY <1>3
<1>5. walk' = Scrolled(sort, filter, from, zeros) BY <1>1, <1>3 DEF FirstPage
<1>6. steady' \in SUBSET Pool(filter) /\ UNCHANGED data BY DEF FirstPage
<1>7. \A w \in steady' : zeros[w] = 0 BY <1>1, <1>6 DEF Pool
<1>8. \A w \in steady' : ListedUpTo(sort, from, zeros, w) BY <1>3, <1>7 DEF ListedUpTo
<1> QED BY <1>2, <1>4, <1>5, <1>6, <1>8, PageKeepsCore

LEMMA NextPageKeepsCore ==
    ASSUME CatCore, NextPage
    PROVE  CatCore'
<1> USE DEF CatCore
<1>1. /\ walk.cursor # {} /\ walk' = Scrolled(walk.sort, walk.filter, walk.cursor, walk.listed)
      /\ UNCHANGED data /\ steady' = steady
  BY DEF NextPage
<1>2. walk # NoWalk BY <1>1 DEF NoWalk
<1>3. PICK sort : sort = walk.sort OBVIOUS
<1>4. PICK filter : filter = walk.filter OBVIOUS
<1>5. PICK from : from = walk.cursor OBVIOUS
<1>6. PICK old : old = walk.listed OBVIOUS
<1>7. sort \in Sorts /\ filter \in Filters BY <1>2, <1>3, <1>4 DEF CatTypeOK
<1>8. from \in SUBSET Position /\ old \in [Works -> Nat] BY <1>5, <1>6 DEF CatTypeOK, Walk
<1>9. \A p, q \in from : p = q BY <1>5 DEF CatTypeOK
<1>10. steady' \in SUBSET Pool(filter) BY <1>1, <1>4, Zenon DEF ListedOncePassed
<1>11. \A w \in steady' : old[w] = IF Past(sort, from, w) THEN 0 ELSE 1
  BY <1>1, <1>3, <1>5, <1>6 DEF ListedOncePassed, Past
<1>12. from # {} BY <1>1, <1>5
<1>13. walk' = Scrolled(sort, filter, from, old) BY <1>1, <1>3, <1>4, <1>5, <1>6
<1>14. \A w \in steady' : ListedUpTo(sort, from, old, w) BY <1>11, <1>12 DEF ListedUpTo
<1>15. CatCore' BY <1>1, <1>7, <1>8, <1>9, <1>10, <1>13, <1>14, PageKeepsCore, Zenon
<1> QED BY <1>15, Zenon

LEMMA NoWalkIsWalk == NoWalk \in Walk /\ \A p, q \in NoWalk.cursor : p = q
BY DEF NoWalk, Walk

LEMMA LeaveListKeepsCore ==
    ASSUME CatCore, LeaveList
    PROVE  CatCore'
<1> USE DEF CatCore
<1>1. /\ walk' = NoWalk /\ steady' = {} /\ title' = title /\ clock' = clock /\ entry' = entry
      /\ coll' = coll /\ member' = member /\ pending' = pending
  BY Zenon DEF LeaveList, data
<1>2. NoWalk' = NoWalk BY Zenon DEF NoWalk
<1>3. CatTypeOK' BY <1>1, <1>2, NoWalkIsWalk, Zenon DEF CatTypeOK
<1>4. MembersHaveCollections' BY <1>1, SMTT(30) DEF MembersHaveCollections
<1>5. ListedOncePassed' BY <1>1, Zenon DEF ListedOncePassed
<1> QED BY <1>3, <1>4, <1>5

\* What the other requests do to the tables.
LEMMA ChangeKeepsTables ==
    ASSUME CatTypeOK, MembersHaveCollections, Change
    PROVE  /\ clock' \in Time /\ entry' \in [Works -> Time]
           /\ coll' \in [Collections -> BOOLEAN] /\ member' \in [Collections -> [Works -> Time]]
           /\ pending' \in [Clients -> CollectionRequest]
           /\ MembersHaveCollections'
<1>0. /\ clock \in Time /\ entry \in [Works -> Time]
      /\ coll \in [Collections -> BOOLEAN] /\ member \in [Collections -> [Works -> Time]]
      /\ pending \in [Clients -> CollectionRequest]
  BY Zenon DEF CatTypeOK
<1>1. \A r \in Clients :
        /\ pending[r].op \in {"clear", "delete", "add"} => pending[r].c \in Collections
        /\ pending[r].op = "add" => pending[r].w \in Works /\ pending[r].at \in Time
  <2> SUFFICES ASSUME NEW r \in Clients
               PROVE  /\ pending[r].op \in {"clear", "delete", "add"} => pending[r].c \in Collections
                      /\ pending[r].op = "add" => pending[r].w \in Works /\ pending[r].at \in Time
    OBVIOUS
  <2>1. \/ pending[r] = [op |-> "none"]
        \/ pending[r] \in [op : {"clear", "delete"}, c : Collections]
        \/ pending[r] \in [op : {"add"}, c : Collections, w : Works, at : Time]
    BY <1>0, Zenon DEF CollectionRequest, NoRequest
  <2> QED BY <2>1
<1>2. [w \in Works |-> 0] \in [Works -> Time] BY TimeIsNat
<1>3. ASSUME NEW r \in Clients, NEW q \in CollectionRequest, pending' = [pending EXCEPT ![r] = q]
      PROVE  pending' \in [Clients -> CollectionRequest]
  BY <1>0, <1>3
<1>4. NoRequest \in CollectionRequest BY DEF CollectionRequest
<1>5. CASE Tick
  BY <1>0, <1>5, CatalogueAssumption DEF Tick, MembersHaveCollections, Time
<1>6. ASSUME NEW w \in Works, AddEntry(w)
      PROVE  /\ clock' \in Time /\ entry' \in [Works -> Time]
             /\ coll' = coll /\ member' = member /\ pending' = pending
  BY <1>0, <1>6, Zenon DEF AddEntry
<1>7. ASSUME NEW r \in Clients, CreateClears(r)
      PROVE  /\ clock' = clock /\ entry' = entry /\ coll' = coll
             /\ member' \in [Collections -> [Works -> Time]]
             /\ pending' \in [Clients -> CollectionRequest] /\ MembersHaveCollections'
  <2>1. pending[r].c \in Collections BY <1>1, <1>7 DEF CreateClears
  <2>2. member' \in [Collections -> [Works -> Time]] BY <1>0, <1>2, <1>7, <2>1 DEF CreateClears
  <2>3. pending' \in [Clients -> CollectionRequest] BY <1>3, <1>4, <1>7, Zenon DEF CreateClears, End
  <2>4. MembersHaveCollections' BY <1>0, <1>7, <2>1 DEF CreateClears, MembersHaveCollections
  <2> QED BY <1>7, <2>2, <2>3, <2>4, Zenon DEF CreateClears
<1>8. ASSUME NEW r \in Clients, AddMember(r)
      PROVE  /\ clock' = clock /\ entry' = entry /\ coll' = coll
             /\ member' \in [Collections -> [Works -> Time]]
             /\ pending' \in [Clients -> CollectionRequest] /\ MembersHaveCollections'
  <2>1. pending[r].c \in Collections /\ pending[r].w \in Works /\ pending[r].at \in Time
    BY <1>1, <1>8 DEF AddMember
  <2>2. PICK c \in Collections : c = pending[r].c BY <2>1
  <2>3. PICK w \in Works : w = pending[r].w BY <2>1
  <2>4. PICK a \in Time : a = pending[r].at BY <2>1, Zenon
  <2>5. member' = member \/ (coll[c] /\ member' = [member EXCEPT ![c][w] = a])
    BY <1>8, <2>2, <2>3, <2>4, Zenon DEF AddMember
  <2>6. coll' = coll /\ clock' = clock /\ entry' = entry BY <1>8 DEF AddMember
  <2>7. member' \in [Collections -> [Works -> Time]] BY <1>0, <2>5
  <2>8. pending' \in [Clients -> CollectionRequest] BY <1>3, <1>4, <1>8, Zenon DEF AddMember, End
  <2>9. MembersHaveCollections' BY <1>0, <2>5, <2>6 DEF MembersHaveCollections
  <2> QED BY <2>6, <2>7, <2>8, <2>9, Zenon
<1>9. ASSUME NEW r \in Clients, DeleteCollection(r)
      PROVE  /\ clock' = clock /\ entry' = entry /\ member' = member
             /\ coll' \in [Collections -> BOOLEAN]
             /\ pending' \in [Clients -> CollectionRequest] /\ MembersHaveCollections'
  <2>1. PICK c \in Collections : c = pending[r].c BY <1>1, <1>9, Zenon DEF DeleteCollection
  <2>2. \/ coll' = coll
        \/ /\ ~\E w \in Works : member[c][w] > 0
           /\ coll' = [coll EXCEPT ![c] = FALSE]
    BY <1>9, <2>1 DEF DeleteCollection
  <2>3. clock' = clock /\ entry' = entry /\ member' = member BY <1>9, Zenon DEF DeleteCollection
  <2>4. pending' \in [Clients -> CollectionRequest] BY <1>3, <1>4, <1>9, Zenon DEF DeleteCollection, End
  <2>5. \A d \in Collections, w \in Works : member[d][w] \in Nat BY <1>0, TimeIsNat, Zenon
  <2>6. MembersHaveCollections' BY <1>0, <2>2, <2>3, <2>5 DEF MembersHaveCollections
  <2>7. coll' \in [Collections -> BOOLEAN] BY <1>0, <2>2, Zenon
  <2> QED BY <2>3, <2>4, <2>6, <2>7, Zenon
<1>10. ASSUME NEW r \in Clients, NEW c \in Collections, CreateCollection(r, c)
       PROVE  /\ clock' = clock /\ entry' = entry /\ member' = member
              /\ coll' \in [Collections -> BOOLEAN]
              /\ pending' \in [Clients -> CollectionRequest] /\ MembersHaveCollections'
  <2>1. [op |-> "clear", c |-> c] \in CollectionRequest BY DEF CollectionRequest
  <2>2. pending' \in [Clients -> CollectionRequest] BY <1>3, <1>10, <2>1, Zenon DEF CreateCollection, Begin
  <2>3. coll' \in [Collections -> BOOLEAN] BY <1>0, <1>10 DEF CreateCollection
  <2>4. MembersHaveCollections' BY <1>0, <1>10 DEF CreateCollection, MembersHaveCollections
  <2> QED BY <1>10, <2>2, <2>3, <2>4, Zenon DEF CreateCollection
<1>11. ASSUME NEW r \in Clients, NEW c \in Collections, DeleteMembers(r, c)
       PROVE  /\ clock' = clock /\ entry' = entry /\ coll' = coll
              /\ member' \in [Collections -> [Works -> Time]]
              /\ pending' \in [Clients -> CollectionRequest] /\ MembersHaveCollections'
  <2>1. [op |-> "delete", c |-> c] \in CollectionRequest BY DEF CollectionRequest
  <2>2. pending' \in [Clients -> CollectionRequest] BY <1>3, <1>11, <2>1, Zenon DEF DeleteMembers, Begin
  <2>3. member' \in [Collections -> [Works -> Time]] BY <1>0, <1>2, <1>11, Zenon DEF DeleteMembers
  <2>4. MembersHaveCollections' BY <1>0, <1>11 DEF DeleteMembers, MembersHaveCollections
  <2> QED BY <1>11, <2>2, <2>3, <2>4, Zenon DEF DeleteMembers
<1>12. ASSUME NEW r \in Clients, NEW c \in Collections, NEW w \in Works, AddWork(r, c, w)
       PROVE  /\ clock' = clock /\ entry' = entry /\ coll' = coll /\ member' = member
              /\ pending' \in [Clients -> CollectionRequest]
  <2>1. [op |-> "add", c |-> c, w |-> w, at |-> clock] \in CollectionRequest BY <1>0 DEF CollectionRequest
  <2> QED BY <1>3, <1>12, <2>1, Zenon DEF AddWork, Begin
<1>13. ASSUME NEW c \in Collections, NEW w \in Works, RemoveMember(c, w)
       PROVE  /\ clock' = clock /\ entry' = entry /\ coll' = coll /\ pending' = pending
              /\ member' \in [Collections -> [Works -> Time]] /\ MembersHaveCollections'
  <2>1. member' = [member EXCEPT ![c][w] = 0] /\ coll' = coll BY <1>13 DEF RemoveMember
  <2>2. member' \in [Collections -> [Works -> Time]] BY <1>0, <2>1, TimeIsNat
  <2>3. MembersHaveCollections' BY <1>0, <2>1, Zenon DEF MembersHaveCollections
  <2> QED BY <1>13, <2>2, <2>3 DEF RemoveMember
<1>14. coll' = coll /\ member' = member => MembersHaveCollections' BY DEF MembersHaveCollections
<1> QED
  BY <1>0, <1>5, <1>6, <1>7, <1>8, <1>9, <1>10, <1>11, <1>12, <1>13, <1>14, Zenon DEF Change


\* A work that is no longer where it was is no longer watched.
LEMMA ChangeKeepsCore ==
    ASSUME CatCore, Change, Observe
    PROVE  CatCore'
<1> USE DEF CatCore
<1>1. /\ clock' \in Time /\ entry' \in [Works -> Time]
      /\ coll' \in [Collections -> BOOLEAN] /\ member' \in [Collections -> [Works -> Time]]
      /\ pending' \in [Clients -> CollectionRequest]
      /\ MembersHaveCollections'
  BY ChangeKeepsTables
<1>2. title' = title /\ walk' = walk /\ steady' \subseteq steady BY DEF Observe
<1>3. CatTypeOK' BY <1>1, <1>2, Zenon DEF CatTypeOK, NoWalk
<1>4. ListedOncePassed'
  <2>1. CASE walk = NoWalk BY <1>2, <2>1, Zenon DEF CatTypeOK, ListedOncePassed
  <2>2. CASE walk # NoWalk
    <3>1. \A w \in steady' :
            w \in steady /\ w \in Pool(walk.filter)' /\ Key(walk.sort, w)' = Key(walk.sort, w)
      BY <2>2 DEF Observe
    <3> QED BY <1>2, <3>1, Zenon DEF ListedOncePassed, After
  <2> QED BY <2>1, <2>2
<1> QED BY <1>1, <1>3, <1>4

LEMMA CatInitCore == CatInit => CatCore
<1> SUFFICES ASSUME CatInit PROVE CatCore OBVIOUS
<1>1. CatTypeOK BY TimeIsNat, NoWalkIsWalk DEF CatInit, CatTypeOK, CollectionRequest
<1>2. MembersHaveCollections BY DEF CatInit, MembersHaveCollections
<1>3. ListedOncePassed BY DEF CatInit, ListedOncePassed
<1> QED BY <1>1, <1>2, <1>3 DEF CatCore

LEMMA CatNextCore == CatCore /\ [CatNext]_cvars => CatCore'
<1> SUFFICES ASSUME CatCore, [CatNext]_cvars PROVE CatCore' OBVIOUS
<1>1. CASE UNCHANGED cvars
  <2>1. /\ title' = title /\ clock' = clock /\ entry' = entry /\ coll' = coll
        /\ member' = member /\ pending' = pending /\ walk' = walk /\ steady' = steady
    BY <1>1 DEF cvars, data
  <2>2. CatTypeOK' BY <2>1, Zenon DEF CatCore, CatTypeOK, NoWalk
  <2>3. MembersHaveCollections' BY <2>1 DEF CatCore, MembersHaveCollections
  <2>4. Pool(walk.filter)' = Pool(walk.filter) BY <2>1, SMTT(30) DEF Pool, Owned, Wanted
  <2>5. \A w \in steady : Key(walk.sort, w)' = Key(walk.sort, w)
    BY <2>1, Zenon DEF Key, EffectiveAddedAt, Owned
  <2>6. ListedOncePassed' BY <2>1, <2>4, <2>5 DEF CatCore, ListedOncePassed, After
  <2> QED BY <2>2, <2>3, <2>6 DEF CatCore
<1>2. CASE Change /\ Observe BY <1>2, ChangeKeepsCore
<1>3. ASSUME NEW sort \in Sorts, NEW filter \in Filters, FirstPage(sort, filter) PROVE CatCore'
  BY <1>3, FirstPageKeepsCore
<1>4. CASE NextPage BY <1>4, NextPageKeepsCore
<1>5. CASE LeaveList BY <1>5, LeaveListKeepsCore, Zenon
<1> QED BY <1>1, <1>2, <1>3, <1>4, <1>5 DEF CatNext

LEMMA CatCoreHolds == CatSpec => []CatCore
BY CatInitCore, CatNextCore, PTL DEF CatSpec

\* For every library, page size and order of the list, and whatever imports and
\* collection requests run between two pages: a work that stays where it was is
\* listed once, exactly when the cursor has passed it, and no membership is left
\* without its collection (work_repository.go, collection_repository.go).
THEOREM CatalogueInvariantHolds == CatSpec => []CatalogueInvariant
<1>1. CatCore => ListedExactlyOnce
  BY DEF CatCore, ListedOncePassed, ListedExactlyOnce
<1>2. CatCore => CatalogueInvariant BY <1>1 DEF CatCore, CatalogueInvariant
<1> QED BY <1>2, CatCoreHolds, PTL
=============================================================================
