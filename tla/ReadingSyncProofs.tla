-------------------------- MODULE ReadingSyncProofs --------------------------
(***************************************************************************)
(* Proofs about the synchronisation of reading state, for every number of  *)
(* readers, rows and transactions and every LIMIT of a pull.               *)
(***************************************************************************)
EXTENDS ReadingSync, FiniteSetTheorems, TLAPS

-----------------------------------------------------------------------------
(* Highest and lowest numbers, and the rows that LIMIT lets through. *)

\* The least-number principle.
LEMMA LeastNumber ==
    ASSUME NEW S \in SUBSET Nat, S # {}
    PROVE  \E m \in S : \A k \in S : m <= k
<1>1. PICK R : R = {p \in Nat \X Nat : p[1] < p[2]} BY Zenon
<1>2. IsWellFoundedOn(R, Nat) BY <1>1, NatLessThanWellFounded DEF OpToRel
<1>3. PICK m \in S : \A k \in S : ~(<<k, m>> \in R) BY <1>2, WFMin, Zenon
<1>4. \A k \in S : ~(k < m) BY <1>1, <1>3, Zenon
<1> QED BY <1>4

\* A set of numbers has a lowest one, and below a bound a highest one.
LEMMA HasMin ==
    ASSUME NEW S \in SUBSET Nat, S # {}
    PROVE  Min(S) \in S /\ \A x \in S : Min(S) <= x
<1>1. \E n \in S : \A m \in S : n <= m BY LeastNumber
<1> QED BY <1>1, Zenon DEF Min

LEMMA HasMax ==
    ASSUME NEW n \in Nat, NEW S \in SUBSET (0..n), S # {}
    PROVE  Max(S) \in S /\ \A x \in S : x <= Max(S)
<1>1. PICK T : T = {n - x : x \in S} BY Zenon
<1>2. T \in SUBSET Nat /\ T # {}
  <2>1. \A x \in S : n - x \in Nat OBVIOUS
  <2> QED BY <1>1, <2>1, Zenon
<1>3. PICK m \in T : \A k \in T : m <= k BY <1>2, LeastNumber
<1>4. PICK y \in S : m = n - y BY <1>1, <1>3
<1>5. \A x \in S : x <= y
  <2> TAKE x \in S
  <2>1. n - x \in T BY <1>1
  <2>2. n - y <= n - x BY <1>3, <1>4, <2>1
  <2> QED BY <2>2
<1>6. \E z \in S : \A x \in S : z >= x BY <1>5
<1>7. Max(S) \in S /\ \A x \in S : Max(S) >= x BY <1>6, Zenon DEF Max
<1> QED BY <1>7

\* The same for what carries the numbers.
LEMMA LowestOf ==
    ASSUME NEW Q, Q # {}, NEW num \in [Q -> Nat]
    PROVE  \E c \in Q : \A q \in Q : num[c] <= num[q]
<1>1. PICK S : S = {num[q] : q \in Q} BY Zenon
<1>2. S \in SUBSET Nat BY <1>1
<1>3. S # {}
  <2>1. PICK q : q \in Q OBVIOUS
  <2>2. num[q] \in S BY <1>1, <2>1
  <2> QED BY <2>2
<1>4. PICK m \in S : \A k \in S : m <= k BY <1>2, <1>3, LeastNumber
<1>5. PICK c \in Q : num[c] = m BY <1>1, <1>4
<1>6. \A q \in Q : num[q] \in S BY <1>1
<1> QED BY <1>4, <1>5, <1>6

LEMMA HighestOf ==
    ASSUME NEW Q, Q # {}, NEW n \in Nat, NEW num \in [Q -> 0..n]
    PROVE  \E c \in Q : \A q \in Q : num[q] <= num[c]
<1>1. PICK S : S = {num[q] : q \in Q} BY Zenon
<1>2. S \in SUBSET (0..n) BY <1>1
<1>3. S # {}
  <2>1. PICK q : q \in Q OBVIOUS
  <2>2. num[q] \in S BY <1>1, <2>1
  <2> QED BY <2>2
<1>4. PICK m \in S : \A k \in S : k <= m BY <1>2, <1>3, HasMax, Zenon
<1>5. PICK c \in Q : num[c] = m BY <1>1, <1>4
<1>6. \A q \in Q : num[q] \in S BY <1>1
<1> QED BY <1>4, <1>5, <1>6

\* ORDER BY seq LIMIT n over distinct numbers: what is cut off lies above
\* everything let through, and then exactly n rows were let through.
LEMMA LimitCutsAbove ==
    ASSUME NEW D, IsFiniteSet(D), NEW num \in [D -> Nat], NEW n \in Nat \ {0},
           \A p, q \in D : num[p] = num[q] => p = q,
           NEW below \in [D -> SUBSET D],
           \A p, q \in D : q \in below[p] <=> num[q] < num[p],
           NEW P \in SUBSET D, \A p \in D : p \in P <=> Cardinality(below[p]) < n,
           NEW r \in D \ P
    PROVE  /\ Cardinality(P) = n
           /\ \A p \in P : num[p] < num[r]
<1>1. \A p \in D : IsFiniteSet(below[p]) /\ Cardinality(below[p]) \in Nat
  BY FS_Subset, FS_CardinalityType
<1>2. ASSUME NEW p \in D, NEW q \in D, num[q] <= num[p]
      PROVE  Cardinality(below[q]) <= Cardinality(below[p])
  <2>1. \A x \in D : x \in below[q] => x \in below[p]
    <3> SUFFICES ASSUME NEW x \in D, x \in below[q] PROVE x \in below[p] OBVIOUS
    <3>1. num[x] \in Nat /\ num[q] \in Nat /\ num[p] \in Nat OBVIOUS
    <3>2. num[x] < num[q] OBVIOUS
    <3>3. num[x] < num[p] BY <1>2, <3>1, <3>2
    <3> QED BY <3>3
  <2>2. below[q] \in SUBSET below[p] BY <2>1
  <2> QED BY <1>1, <2>2, FS_Subset
<1>3. ASSUME NEW p \in P, NEW q \in D \ P PROVE num[p] < num[q]
  <2> SUFFICES ASSUME num[q] <= num[p] PROVE FALSE OBVIOUS
  <2>1. Cardinality(below[q]) <= Cardinality(below[p]) BY <1>2
  <2>2. Cardinality(below[p]) < n /\ ~(Cardinality(below[q]) < n) BY <1>3
  <2> QED BY <1>1, <2>1, <2>2
\* The lowest of the rows cut off: below it lies all that was let through.
<1>4. PICK c \in D \ P : \A q \in D \ P : num[c] <= num[q]
  <2>1. PICK Q : Q = D \ P BY Zenon
  <2>2. PICK f : f = [q \in Q |-> num[q]] BY Zenon
  <2>3. f \in [Q -> Nat] /\ Q # {} BY <2>1, <2>2
  <2>4. PICK c \in Q : \A q \in Q : f[c] <= f[q] BY <2>3, LowestOf
  <2> QED BY <2>1, <2>2, <2>4
<1>5. below[c] = P
  <2>1. \A q \in D : num[q] < num[c] => q \in P
    <3> SUFFICES ASSUME NEW q \in D, num[q] < num[c], q \notin P PROVE FALSE OBVIOUS
    <3>1. num[c] <= num[q] BY <1>4
    <3>2. num[c] \in Nat /\ num[q] \in Nat BY <1>4
    <3> QED BY <3>1, <3>2
  <2>2. \A q \in P : q \in D /\ num[q] < num[c] BY <1>3, <1>4
  <2> QED BY <1>4, <2>1, <2>2
<1>6. IsFiniteSet(P) /\ Cardinality(P) \in Nat BY <1>1, <1>4, <1>5
<1>7. Cardinality(P) >= n
  <2>1. ~(Cardinality(below[c]) < n) BY <1>4
  <2> QED BY <1>5, <1>6, <2>1
\* The highest of the rows let through: below it lie the others.
<1>8. PICK h \in P : \A q \in P : num[q] <= num[h]
  <2>1. P # {}
    <3> SUFFICES ASSUME P = {} PROVE FALSE OBVIOUS
    <3>1. Cardinality(P) = 0 BY FS_EmptySet
    <3> QED BY <1>7, <3>1
  <2>2. PICK f : f = [q \in P |-> num[q]] BY Zenon
  <2>3. num[c] \in Nat BY <1>4
  <2>4. \A q \in P : num[q] \in Nat /\ num[q] < num[c] BY <1>3, <1>4
  <2>5. f \in [P -> 0 .. num[c]] BY <2>2, <2>3, <2>4
  <2>6. PICK h \in P : \A q \in P : f[q] <= f[h] BY <2>1, <2>3, <2>5, HighestOf, Zenon
  <2> QED BY <2>2, <2>6
<1>9. below[h] = P \ {h}
  <2>1. \A q \in D : num[q] < num[h] => q \in P \ {h}
    <3> SUFFICES ASSUME NEW q \in D, num[q] < num[h] PROVE q \in P \ {h} OBVIOUS
    <3>1. num[q] \in Nat /\ num[h] \in Nat BY <1>8
    <3>2. q # h BY <3>1
    <3>3. q \in P
      <4> SUFFICES ASSUME q \notin P PROVE FALSE OBVIOUS
      <4>1. num[h] < num[q] BY <1>3, <1>8
      <4> QED BY <3>1, <4>1
    <3> QED BY <3>2, <3>3
  <2>2. \A q \in P \ {h} : num[q] < num[h]
    <3> TAKE q \in P \ {h}
    <3>1. num[q] \in Nat /\ num[h] \in Nat BY <1>8
    <3>2. num[q] # num[h] /\ num[q] <= num[h] BY <1>8
    <3> QED BY <3>1, <3>2
  <2> QED BY <1>8, <2>1, <2>2
<1>10. Cardinality(P \ {h}) = Cardinality(P) - 1 BY <1>6, <1>8, FS_RemoveElement, Zenon
<1>11. Cardinality(below[h]) < n BY <1>8
<1>12. Cardinality(P) - 1 < n BY <1>9, <1>10, <1>11
<1>13. Cardinality(P) = n BY <1>6, <1>7, <1>12
<1> QED BY <1>3, <1>13


-----------------------------------------------------------------------------
(* What LIMIT leaves out of a delta lies above the cursor of the answer. *)

\* Over one table: Page lets Limit rows through and cuts off what lies above.
LEMMA PageCutsAbove ==
    ASSUME SyncTypeOK, NumbersAreUnique,
           NEW l \in Libraries, NEW s \in 0..MaxSeq, NEW T \in SUBSET Rows,
           NEW r \in (Delta(l, s) \cap T) \ Page(T, l, s)
    PROVE  /\ Cardinality(Page(T, l, s)) = Limit
           /\ \A p \in Page(T, l, s) : row[p].seq < row[r].seq
<1>1. PICK D : D = Delta(l, s) \cap T BY Zenon
<1>2. D \in SUBSET Rows /\ \A q \in D : row[q].seq > s BY <1>1 DEF Delta
<1>3. IsFiniteSet(D) BY <1>2, SyncAssumption, FS_Subset
<1>4. \A q \in D : row[q] \in Row /\ row[q].seq \in Nat /\ Exists(q)
  BY <1>2, SyncAssumption DEF SyncTypeOK, Row, Exists
<1>5. PICK num : num = [q \in D |-> row[q].seq] BY Zenon
<1>6. num \in [D -> Nat] BY <1>4, <1>5
<1>7. \A p, q \in D : num[p] = num[q] => p = q
  BY <1>2, <1>4, <1>5 DEF NumbersAreUnique
<1>8. PICK below : below = [p \in D |-> {q \in D : row[q].seq < row[p].seq}] BY Zenon
<1>9. below \in [D -> SUBSET D] BY <1>8
<1>10. \A p, q \in D : q \in below[p] <=> num[q] < num[p] BY <1>5, <1>8
<1>11. PICK P : P = Page(T, l, s) OBVIOUS
<1>12. P = {p \in D : Cardinality({q \in D : row[q].seq < row[p].seq}) < Limit}
  BY <1>1, <1>11 DEF Page
<1>13. P \in SUBSET D BY <1>12
<1>14. \A p \in D : p \in P <=> Cardinality(below[p]) < Limit BY <1>8, <1>12
<1>15. r \in D \ P BY <1>1, <1>11
<1>16. Limit \in Nat \ {0} BY SyncAssumption
<1>17. Cardinality(P) = Limit /\ \A p \in P : num[p] < num[r]
  BY <1>3, <1>6, <1>7, <1>9, <1>10, <1>13, <1>14, <1>15, <1>16, LimitCutsAbove, Zenon
<1>18. \A p \in P : num[p] = row[p].seq /\ num[r] = row[r].seq BY <1>5, <1>13, <1>15
<1> QED BY <1>11, <1>17, <1>18

\* The numbers of some rows.
LEMMA SeqsHaveMax ==
    ASSUME SyncTypeOK, NEW R \in SUBSET Rows, R # {}
    PROVE  /\ Max(SeqsOf(R)) \in SeqsOf(R)
           /\ Max(SeqsOf(R)) \in 0..MaxSeq
<1>1. \A r \in R : row[r].seq \in 0..MaxSeq BY DEF SyncTypeOK, Row
<1>2. SeqsOf(R) \in SUBSET (0..MaxSeq) BY <1>1 DEF SeqsOf
<1>3. SeqsOf(R) # {}
  <2>1. PICK r : r \in R OBVIOUS
  <2>2. row[r].seq \in SeqsOf(R) BY <2>1 DEF SeqsOf
  <2> QED BY <2>2
<1>4. Max(SeqsOf(R)) \in SeqsOf(R) BY <1>2, <1>3, SyncAssumption, HasMax, Zenon
<1> QED BY <1>2, <1>4

\* The cursor of an answer is a number, at most the boundary of every table.
LEMMA CursorAtBoundaries ==
    ASSUME SyncTypeOK, NEW l \in Libraries, NEW s \in 0..MaxSeq
    PROVE  /\ DeltaCursor(l, s) \in 0..MaxSeq
           /\ \A m \in Boundaries(l, s) : m \in Nat /\ DeltaCursor(l, s) <= m
           /\ \A t \in Tables : Cardinality(Page(t, l, s)) = Limit =>
                /\ Max(SeqsOf(Page(t, l, s))) \in SeqsOf(Page(t, l, s))
                /\ Max(SeqsOf(Page(t, l, s))) \in Boundaries(l, s)
<1>1. \A t \in Tables : Page(t, l, s) \in SUBSET Rows BY DEF Page, Delta
<1>2. \A t \in Tables : Cardinality(Page(t, l, s)) = Limit => Page(t, l, s) # {}
  BY SyncAssumption, FS_EmptySet
<1>3. \A t \in Tables : Cardinality(Page(t, l, s)) = Limit =>
          /\ Max(SeqsOf(Page(t, l, s))) \in SeqsOf(Page(t, l, s))
          /\ Max(SeqsOf(Page(t, l, s))) \in 0..MaxSeq
  BY <1>1, <1>2, SeqsHaveMax
<1>4. Boundaries(l, s) \in SUBSET (0..MaxSeq) BY <1>3 DEF Boundaries
<1>5. Max({s} \cup SeqsOf(Delivered(l, s))) \in 0..MaxSeq
  <2>1. Delivered(l, s) \in SUBSET Rows BY <1>1 DEF Delivered
  <2>2. \A r \in Rows : row[r].seq \in 0..MaxSeq BY DEF SyncTypeOK, Row
  <2>3. SeqsOf(Delivered(l, s)) \in SUBSET (0..MaxSeq) BY <2>1, <2>2 DEF SeqsOf
  <2>4. PICK S : S = {s} \cup SeqsOf(Delivered(l, s)) BY Zenon
  <2>5. S \in SUBSET (0..MaxSeq) /\ S # {} BY <2>3, <2>4
  <2>6. Max(S) \in S BY <2>5, SyncAssumption, HasMax
  <2> QED BY <2>4, <2>5, <2>6
<1>6. PICK X : X = {Max({s} \cup SeqsOf(Delivered(l, s)))} \cup Boundaries(l, s) BY Zenon
<1>7. X \in SUBSET (0..MaxSeq) /\ X # {} BY <1>4, <1>5, <1>6
<1>8. X \in SUBSET Nat BY <1>7, SyncAssumption
<1>9. Min(X) \in X /\ \A x \in X : Min(X) <= x BY <1>7, <1>8, HasMin
<1>10. DeltaCursor(l, s) = Min(X) BY <1>6 DEF DeltaCursor
<1>11. \A m \in Boundaries(l, s) : m \in X BY <1>6
<1>12. \A t \in Tables : Cardinality(Page(t, l, s)) = Limit =>
          Max(SeqsOf(Page(t, l, s))) \in Boundaries(l, s)
  BY DEF Boundaries
<1> QED BY <1>3, <1>7, <1>8, <1>9, <1>10, <1>11, <1>12, Zenon

\* A pull leaves out no selected row below the cursor it returns: the boundary
\* of the row's table bounds the cursor (reading_sync_repository.go).
LEMMA LimitSkipsNothingByNumbers ==
    SyncTypeOK /\ NumbersAreUnique => LimitSkipsNothing
<1> SUFFICES ASSUME SyncTypeOK, NumbersAreUnique, NEW l \in Libraries,
                    NEW s \in {since[d] : d \in Devices} \cup {cursor[d] : d \in Devices},
                    NEW cut, cut = Delta(l, s) \ Delivered(l, s), cut # {}
             PROVE  DeltaCursor(l, s) < Min(SeqsOf(cut))
  BY DEF LimitSkipsNothing
<1>1. s \in 0..MaxSeq BY DEF SyncTypeOK
<1>2. \A r \in Rows : row[r].seq \in 0..MaxSeq BY DEF SyncTypeOK, Row
<1>3. Delta(l, s) \in SUBSET Rows BY DEF Delta
<1>4. PICK r \in cut : row[r].seq = Min(SeqsOf(cut))
  <2>1. \A q \in cut : row[q].seq \in Nat BY <1>2, <1>3, SyncAssumption
  <2>2. SeqsOf(cut) \in SUBSET Nat BY <2>1 DEF SeqsOf
  <2>3. SeqsOf(cut) # {}
    <3>1. PICK q : q \in cut OBVIOUS
    <3>2. row[q].seq \in SeqsOf(cut) BY <3>1 DEF SeqsOf
    <3> QED BY <3>2
  <2>4. Min(SeqsOf(cut)) \in SeqsOf(cut) BY <2>2, <2>3, HasMin
  <2> QED BY <2>4, Zenon DEF SeqsOf
<1>5. r \in Rows /\ r \in Delta(l, s) /\ r \notin Delivered(l, s) BY <1>3
<1>6. PICK T \in Tables : r \in T BY <1>5 DEF Rows, Tables
<1>7. \A t \in Tables : t \in SUBSET Rows BY DEF Rows, Tables
<1>8. r \notin Page(T, l, s) BY <1>5, <1>6 DEF Delivered
<1>9. /\ Cardinality(Page(T, l, s)) = Limit
      /\ \A p \in Page(T, l, s) : row[p].seq < row[r].seq
  BY <1>1, <1>5, <1>6, <1>7, <1>8, PageCutsAbove
<1>10. PICK m : m = Max(SeqsOf(Page(T, l, s))) OBVIOUS
<1>11. m \in SeqsOf(Page(T, l, s)) /\ m \in Boundaries(l, s)
  BY <1>1, <1>6, <1>9, <1>10, CursorAtBoundaries
<1>12. m < row[r].seq BY <1>9, <1>11 DEF SeqsOf
<1>13. m \in Nat /\ DeltaCursor(l, s) <= m /\ DeltaCursor(l, s) \in 0..MaxSeq
  BY <1>1, <1>11, CursorAtBoundaries
<1>14. row[r].seq \in 0..MaxSeq BY <1>2, <1>5
<1>15. row[r].seq \in Nat /\ DeltaCursor(l, s) \in Nat BY <1>13, <1>14, SyncAssumption
<1> QED BY <1>4, <1>12, <1>13, <1>15


-----------------------------------------------------------------------------
(* Write transactions. *)

\* What the locks, the decisions and the numbers rest on, without what follows
\* from them.
SyncCore == SyncTypeOK /\ LocksHold /\ DecisionsAreSound /\ NumbersAreUnique

LEMMA SyncNumbers ==
    /\ MaxSeq \in Nat /\ MaxXid \in Nat /\ MaxEpoch \in Nat /\ MaxPercentage \in Nat
    /\ Limit \in Nat \ {0}
BY SyncAssumption

LEMMA RowFields ==
    ASSUME NEW v \in Row
    PROVE  /\ v.seq \in 0..MaxSeq /\ v.seq \in Nat
           /\ v.xid \in 0..MaxXid /\ v.xid \in Nat
           /\ v.epoch \in 0..MaxEpoch /\ v.epoch \in Nat
           /\ v.percentage \in 0..MaxPercentage /\ v.percentage \in Nat
BY SyncNumbers DEF Row

LEMMA ReportFields ==
    ASSUME NEW p \in Report
    PROVE  /\ p.percentage \in 0..MaxPercentage /\ p.percentage \in Nat
           /\ p.observedEpoch \in 0..MaxEpoch /\ p.observedEpoch \in Nat
BY SyncNumbers DEF Report

LEMMA TxFields ==
    ASSUME NEW t \in Tx
    PROVE  /\ t.pc \in {"idle", "locked", "written"}
           /\ t.kind \in {"none", "progress", "mark"}
           /\ t.row \in Rows \cup {"none"}
           /\ t.report \in Report
           /\ t.found \in Row
           /\ t.new \in Row
           /\ t.xid \in 0..MaxXid
           /\ t.cursor \in 0..MaxSeq
BY DEF Tx

LEMMA AbsentIsRow == Absent \in Row /\ Absent.seq = 0
BY SyncNumbers DEF Absent, Row

LEMMA NoTxIsTx == NoTx \in Tx /\ NoTx.pc = "idle"
<1>1. NoReport \in Report BY SyncNumbers DEF NoReport, Report
<1>2. Absent \in Row BY AbsentIsRow
<1>3. 0 \in 0..MaxXid /\ 0 \in 0..MaxSeq BY SyncNumbers
<1> QED BY <1>1, <1>2, <1>3 DEF NoTx, Tx

\* A step that gives one reader another transaction.
LEMMA TxStep ==
    ASSUME SyncTypeOK, NEW d \in Readers, NEW t \in Tx, tx' = [tx EXCEPT ![d] = t]
    PROVE  /\ tx' \in [Readers -> Tx]
           /\ tx'[d] = t
           /\ \A e \in Readers : e # d => tx'[e] = tx[e]
BY DEF SyncTypeOK

\* A transaction in the middle of its work is at a row.
LEMMA AtARow ==
    ASSUME SyncTypeOK, LocksHold, NEW d \in Readers, tx[d].pc # "idle"
    PROVE  /\ tx[d].row \in Rows
           /\ tx[d].kind = "progress" => tx[d].row \in Progress
           /\ tx[d].kind = "mark" => tx[d].row \in Bookmarks \cup Highlights
           /\ tx[d].kind \in {"progress", "mark"}
BY DEF LocksHold, Rows

\* The locks survive when rows and the rows of transactions stay as they are.
LEMMA LocksKept ==
    ASSUME LocksHold, row' = row,
           \A e \in Readers : tx'[e].pc # "idle" =>
               /\ tx[e].pc # "idle" /\ tx'[e].row = tx[e].row
               /\ tx'[e].kind = tx[e].kind /\ tx'[e].found = tx[e].found
    PROVE  LocksHold'
BY DEF LocksHold

\* The decisions of the transactions a step leaves alone.
LEMMA DecisionsKept ==
    ASSUME DecisionsAreSound, \A e \in Readers : tx'[e] = tx[e] \/ tx'[e].pc = "idle"
    PROVE  DecisionsAreSound'
BY DEF DecisionsAreSound, Seen, AtLeast

\* The numbers stay unique when no number is given.
LEMMA NumbersKept ==
    ASSUME NumbersAreUnique, row' = row, nextSeq' = nextSeq,
           \A e \in Readers : Numbered(e)' => Numbered(e) /\ tx'[e].new = tx[e].new
    PROVE  NumbersAreUnique'
BY DEF NumbersAreUnique, Exists, Numbered


\* A reader opens a transaction at a row: those who are there already are
\* progress writers, and one of two found no row.
LEMMA LockTaken ==
    ASSUME LocksHold, row' = row, NEW d \in Readers,
           \A e \in Readers : e # d => tx'[e] = tx[e],
           \/ tx'[d].kind = "progress" /\ tx'[d].row \in Progress
           \/ tx'[d].kind = "mark" /\ tx'[d].row \in Bookmarks \cup Highlights,
           row[tx'[d].row] = tx'[d].found,
           \A e \in Readers : e # d /\ tx[e].pc # "idle" /\ tx[e].row = tx'[d].row =>
               /\ tx'[d].kind = "progress" /\ tx[e].kind = "progress"
               /\ tx[e].found.seq = 0
    PROVE  LocksHold'
<1> SUFFICES ASSUME NEW e \in Readers, tx'[e].pc # "idle"
             PROVE  /\ \/ tx'[e].kind = "progress" /\ tx'[e].row \in Progress
                       \/ tx'[e].kind = "mark" /\ tx'[e].row \in Bookmarks \cup Highlights
                    /\ tx'[e].found.seq > 0 => row'[tx'[e].row] = tx'[e].found
                    /\ \A f \in Readers \ {e} :
                         tx'[f].pc # "idle" /\ tx'[f].row = tx'[e].row =>
                           /\ tx'[e].kind = "progress"
                           /\ tx'[e].found.seq = 0 \/ tx'[f].found.seq = 0
  BY DEF LocksHold
<1>1. CASE e = d
  <2>1. \A f \in Readers \ {d} : tx'[f] = tx[f] OBVIOUS
  <2> QED BY <1>1, <2>1
<1>2. CASE e # d
  <2>1. tx'[e] = tx[e] BY <1>2
  <2>2. ASSUME NEW f \in Readers \ {e}, tx'[f].pc # "idle", tx'[f].row = tx'[e].row
        PROVE  tx'[e].kind = "progress" /\ (tx'[e].found.seq = 0 \/ tx'[f].found.seq = 0)
    <3>1. CASE f = d BY <1>2, <2>1, <2>2, <3>1
    <3>2. CASE f # d
      <4>1. tx'[f] = tx[f] BY <3>2
      <4> QED BY <2>1, <2>2, <4>1 DEF LocksHold
    <3> QED BY <3>1, <3>2
  <2>3. /\ \/ tx'[e].kind = "progress" /\ tx'[e].row \in Progress
           \/ tx'[e].kind = "mark" /\ tx'[e].row \in Bookmarks \cup Highlights
        /\ tx'[e].found.seq > 0 => row'[tx'[e].row] = tx'[e].found
    BY <2>1 DEF LocksHold
  <2> QED BY <2>2, <2>3
<1> QED BY <1>1, <1>2

\* The trigger gives one writer the next number, or the one after it.
LEMMA NumberGiven ==
    ASSUME SyncTypeOK, NumbersAreUnique, row' = row, NEW d \in Readers, NEW s \in Nat,
           tx'[d].new.seq = s, nextSeq <= s, nextSeq' = s + 1,
           \A e \in Readers : e # d => tx'[e] = tx[e]
    PROVE  NumbersAreUnique'
<1>1. nextSeq \in Nat BY DEF SyncTypeOK
<1>2. \A r \in Rows : row[r].seq \in Nat BY RowFields DEF SyncTypeOK
<1>3. \A r \in Rows : row[r].seq < nextSeq BY DEF NumbersAreUnique
<1>4. \A r \in Rows : row'[r].seq < nextSeq' BY <1>1, <1>2, <1>3
<1>5. \A r, q \in Rows : Exists(r)' /\ row'[r].seq = row'[q].seq => r = q
  BY DEF NumbersAreUnique, Exists
<1>6. ASSUME NEW e \in Readers, e # d, Numbered(e)'
      PROVE  /\ Numbered(e) /\ tx'[e].new.seq = tx[e].new.seq
             /\ tx'[e].new.seq \in Nat /\ tx'[e].new.seq < nextSeq
             /\ \A r \in Rows : tx'[e].new.seq # row'[r].seq
  <2>1. tx'[e] = tx[e] BY <1>6
  <2>2. Numbered(e) BY <1>6, <2>1 DEF Numbered
  <2>3. tx[e].new.seq \in Nat BY TxFields, RowFields DEF SyncTypeOK
  <2>4. tx[e].new.seq < nextSeq /\ \A r \in Rows : tx[e].new.seq # row[r].seq
    BY <2>2 DEF NumbersAreUnique
  <2> QED BY <2>1, <2>2, <2>3, <2>4
<1>7. ASSUME NEW e \in Readers, Numbered(e)'
      PROVE  /\ tx'[e].new.seq < nextSeq'
             /\ \A r \in Rows : tx'[e].new.seq # row'[r].seq
  <2>1. CASE e = d
    <3>1. \A r \in Rows : row[r].seq # s BY <1>1, <1>2, <1>3
    <3> QED BY <2>1, <3>1
  <2>2. CASE e # d
    <3>1. tx'[e].new.seq \in Nat /\ tx'[e].new.seq < nextSeq BY <1>6, <1>7, <2>2
    <3>2. tx'[e].new.seq < nextSeq' BY <1>1, <3>1
    <3> QED BY <1>6, <1>7, <2>2, <3>2
  <2> QED BY <2>1, <2>2
<1>8. ASSUME NEW e \in Readers, NEW f \in Readers, f # e, Numbered(e)', Numbered(f)'
      PROVE  tx'[f].new.seq # tx'[e].new.seq
  <2>1. CASE e = d
    <3>1. tx'[f].new.seq \in Nat /\ tx'[f].new.seq < nextSeq BY <1>6, <1>8, <2>1
    <3> QED BY <1>1, <2>1, <3>1
  <2>2. CASE f = d
    <3>1. tx'[e].new.seq \in Nat /\ tx'[e].new.seq < nextSeq BY <1>6, <1>8, <2>2
    <3> QED BY <1>1, <2>2, <3>1
  <2>3. CASE e # d /\ f # d
    <3>1. Numbered(e) /\ tx'[e].new.seq = tx[e].new.seq BY <1>6, <1>8, <2>3
    <3>2. Numbered(f) /\ tx'[f].new.seq = tx[f].new.seq BY <1>6, <1>8, <2>3
    <3>3. tx[f].new.seq # tx[e].new.seq BY <1>8, <3>1, <3>2 DEF NumbersAreUnique
    <3> QED BY <3>1, <3>2, <3>3
  <2> QED BY <2>1, <2>2, <2>3
<1> QED BY <1>4, <1>5, <1>7, <1>8 DEF NumbersAreUnique

\* FindByWorkForUpdate waits for whoever found the row, so it finds it current.
LEMMA FindKeepsCore ==
    ASSUME SyncCore, NEW d \in Readers, NEW w \in Progress, NEW report \in Report,
           FindByWorkForUpdate(d, w, report)
    PROVE  SyncCore'
<1> USE DEF SyncCore
<1>1. w \in Rows /\ row[w] \in Row BY DEF Rows, SyncTypeOK
<1>2. PICK x : x = IF Exists(w) THEN nextXid ELSE 0 OBVIOUS
<1>3. PICK c : c = IF d \in Devices THEN cursor[d] ELSE 0 OBVIOUS
<1>4. x \in 0..MaxXid /\ c \in 0..MaxSeq
  BY <1>2, <1>3, SyncNumbers DEF FindByWorkForUpdate, SyncTypeOK
<1>5. PICK t : t = [pc |-> "locked", kind |-> "progress", row |-> w, report |-> report,
                    found |-> row[w], new |-> row[w], xid |-> x, cursor |-> c] BY Zenon
<1>6. t \in Tx BY <1>1, <1>4, <1>5, Zenon DEF Tx
<1>7. tx' = [tx EXCEPT ![d] = t] BY <1>2, <1>3, <1>5 DEF FindByWorkForUpdate
<1>8. /\ tx' \in [Readers -> Tx] /\ tx'[d] = t
      /\ \A e \in Readers : e # d => tx'[e] = tx[e]
  BY <1>6, <1>7, TxStep, Zenon
<1>9. /\ t.pc = "locked" /\ t.kind = "progress" /\ t.row = w /\ t.report = report
      /\ t.found = row[w] /\ t.new = row[w]
  BY <1>5, Zenon
<1>10. /\ row' = row /\ nextSeq' = nextSeq /\ tx[d].pc = "idle" /\ ~LockedByOther(d, w)
       /\ report.override => row[w].epoch < MaxEpoch
  BY DEF FindByWorkForUpdate
<1>11. nextXid' \in 1..(MaxXid + 1)
  BY SyncNumbers DEF FindByWorkForUpdate, SyncTypeOK
<1>12. SyncTypeOK' BY <1>8, <1>11 DEF FindByWorkForUpdate, SyncTypeOK
<1>13. ASSUME NEW e \in Readers \ {d}, tx[e].pc # "idle", tx[e].row = w
       PROVE  tx[e].kind = "progress" /\ tx[e].found.seq = 0
  <2>1. tx[e].kind = "progress" BY <1>13, AtARow, SyncAssumption
  <2>2. ~(tx[e].found.seq > 0) BY <1>10, <1>13 DEF LockedByOther
  <2>3. tx[e].found.seq \in Nat BY <1>13, TxFields, RowFields DEF SyncTypeOK
  <2> QED BY <2>1, <2>2, <2>3
<1>14. LocksHold' BY <1>8, <1>9, <1>10, <1>13, LockTaken, SMTT(30)
<1>15. DecisionsAreSound'
  BY <1>8, <1>9, <1>10, ZenonT(30) DEF DecisionsAreSound, Seen, AtLeast
<1>16. NumbersAreUnique'
  <2>1. \A e \in Readers : Numbered(e)' => Numbered(e) /\ tx'[e].new = tx[e].new
    BY <1>8, <1>9, Zenon DEF Numbered
  <2> QED BY <1>10, <2>1, NumbersKept
<1> QED BY <1>12, <1>14, <1>15, <1>16

\* The record SaveForUser leaves: the decision, numbered.
LEMMA DecisionTyped ==
    ASSUME SyncCore, NEW d \in Readers, tx[d].pc = "locked", NEW v, v = Decision(d, tx[d])
    PROVE  /\ v \in Row
           /\ tx[d].found.seq = 0 => v.percentage = tx[d].report.percentage
           /\ tx[d].found.seq > 0 /\ tx[d].report.override =>
                /\ v.epoch = tx[d].found.epoch + 1
                /\ v.percentage = tx[d].report.percentage
           /\ tx[d].found.seq > 0 /\ ~tx[d].report.override =>
                \/ /\ v.epoch = tx[d].found.epoch
                   /\ v.percentage = tx[d].report.percentage
                   /\ v.percentage > tx[d].found.percentage
                   /\ Seen(tx[d].found, tx[d].report)
                \/ /\ v = tx[d].found
                   /\ \/ v.percentage >= tx[d].report.percentage
                      \/ v.epoch > tx[d].report.observedEpoch
<1> USE DEF SyncCore
<1>1. PICK u : u = tx[d].found OBVIOUS
<1>2. PICK p : p = tx[d].report OBVIOUS
<1>3. u \in Row /\ p \in Report BY <1>1, <1>2, TxFields DEF SyncTypeOK
<1>4. /\ u.seq \in 0..MaxSeq /\ u.xid \in 0..MaxXid /\ u.epoch \in 0..MaxEpoch /\ u.epoch \in Nat
      /\ u.percentage \in 0..MaxPercentage /\ u.percentage \in Nat /\ u.seq \in Nat
  BY <1>3, RowFields
<1>5. /\ p.percentage \in 0..MaxPercentage /\ p.percentage \in Nat
      /\ p.observedEpoch \in 0..MaxEpoch /\ p.observedEpoch \in Nat
  BY <1>3, ReportFields
<1>6. p.override => u.epoch < MaxEpoch BY <1>1, <1>2 DEF DecisionsAreSound
<1>7. CASE u.seq = 0
  <2>1. v = [Absent EXCEPT !.percentage = p.percentage] BY <1>1, <1>2, <1>7 DEF Decision, FirstProgress
  <2>2. v = [seq |-> 0, xid |-> 0, epoch |-> 0, percentage |-> p.percentage] BY <2>1 DEF Absent
  <2>3. v \in Row BY <1>5, <2>2, SyncNumbers DEF Row
  <2> QED BY <1>1, <1>2, <1>7, <2>2, <2>3
<1>8. CASE u.seq > 0 /\ p.override
  <2>1. v = [u EXCEPT !.epoch = @ + 1, !.percentage = p.percentage]
    BY <1>1, <1>2, <1>4, <1>8 DEF Decision, OverrideProgress
  <2>2. v = [seq |-> u.seq, xid |-> u.xid, epoch |-> u.epoch + 1, percentage |-> p.percentage]
    BY <1>3, <2>1, Zenon DEF Row
  <2>3. u.epoch + 1 \in 0..MaxEpoch BY <1>4, <1>6, <1>8, SyncNumbers
  <2>4. v \in Row BY <1>4, <1>5, <2>2, <2>3 DEF Row
  <2> QED BY <1>1, <1>2, <1>4, <1>8, <2>2, <2>4
<1>9. CASE u.seq > 0 /\ ~p.override
  <2>1. PICK q : q = IF d \in Devices THEN Clamped(u, p) ELSE p OBVIOUS
  <2>2. v = ReconcileProgress(u, q) BY <1>1, <1>2, <1>4, <1>9, <2>1 DEF Decision
  <2>3. /\ q.percentage = p.percentage
        /\ q.observedEpoch = p.observedEpoch \/ (q.observedEpoch = u.epoch /\ p.observedEpoch > u.epoch)
    BY <1>3, <2>1, Zenon DEF Clamped, Report
  <2>4. CASE Advances(u, q)
    <3>1. v = [u EXCEPT !.percentage = p.percentage] BY <2>2, <2>3, <2>4 DEF ReconcileProgress
    <3>2. v = [seq |-> u.seq, xid |-> u.xid, epoch |-> u.epoch, percentage |-> p.percentage]
      BY <1>3, <3>1 DEF Row
    <3>3. v \in Row BY <1>4, <1>5, <3>2 DEF Row
    <3>4. q.observedEpoch >= u.epoch /\ p.percentage > u.percentage
      BY <2>3, <2>4 DEF Advances, Seen
    <3>5. Seen(u, p) BY <1>4, <1>5, <2>3, <3>4 DEF Seen
    <3> QED BY <1>1, <1>2, <1>9, <3>2, <3>3, <3>4, <3>5
  <2>5. CASE ~Advances(u, q)
    <3>1. v = u BY <2>2, <2>5 DEF ReconcileProgress
    <3>2. ~(q.observedEpoch >= u.epoch) \/ ~(p.percentage > u.percentage)
      BY <2>3, <2>5 DEF Advances, Seen
    <3>3. u.percentage >= p.percentage \/ u.epoch > p.observedEpoch
      BY <1>4, <1>5, <2>3, <3>2
    <3> QED BY <1>1, <1>2, <1>3, <1>9, <3>1, <3>3
  <2> QED BY <2>4, <2>5
<1>10. u.seq = 0 \/ (u.seq > 0 /\ p.override) \/ (u.seq > 0 /\ ~p.override) BY <1>4
<1> QED BY <1>7, <1>8, <1>9, <1>10, Zenon


\* SaveForUser numbers what was decided: the number is above every other.
LEMMA SaveKeepsCore ==
    ASSUME SyncCore, NEW d \in Readers, SaveForUser(d)
    PROVE  SyncCore'
<1> USE DEF SyncCore
<1>1. PICK v : v = Decision(d, tx[d]) OBVIOUS
<1>2. PICK s : s = IF tx[d].found.seq = 0 THEN nextSeq ELSE nextSeq + 1 OBVIOUS
<1>3. PICK x : x = IF tx[d].xid = 0 THEN nextXid ELSE tx[d].xid OBVIOUS
<1>4. /\ tx[d] \in Tx /\ tx[d].found \in Row /\ tx[d].report \in Report /\ tx[d].found.seq \in Nat
      /\ tx[d].xid \in 0..MaxXid
  BY TxFields, RowFields DEF SyncTypeOK
<1>5. /\ tx[d].pc = "locked" /\ Saves(d, tx[d]) /\ s <= MaxSeq /\ x <= MaxXid
      /\ nextSeq' = s + 1 /\ nextXid' = IF tx[d].xid = 0 THEN nextXid + 1 ELSE nextXid
      /\ row' = row /\ pull' = pull /\ cursor' = cursor /\ revoked' = revoked /\ since' = since
  BY <1>2, <1>3 DEF SaveForUser
<1>6. nextSeq \in Nat /\ nextSeq > 0 /\ s \in Nat /\ s >= nextSeq /\ s \in 0..MaxSeq
  BY <1>2, <1>5, SyncNumbers DEF SyncTypeOK
<1>7. nextXid \in Nat /\ x \in 0..MaxXid
  BY <1>3, <1>4, <1>5, SyncNumbers, SMTT(30) DEF SyncTypeOK
<1>8. v \in Row BY <1>1, <1>5, DecisionTyped
<1>9. PICK n : n = [v EXCEPT !.seq = s, !.xid = x] OBVIOUS
<1>10. n = [seq |-> s, xid |-> x, epoch |-> v.epoch, percentage |-> v.percentage]
  BY <1>8, <1>9, Zenon DEF Row
<1>11. n \in Row BY <1>6, <1>7, <1>8, <1>10, RowFields DEF Row
<1>12. PICK t : t = [tx[d] EXCEPT !.pc = "written", !.xid = x, !.new = n] OBVIOUS
<1>13. t \in Tx BY <1>4, <1>7, <1>11, <1>12, Zenon DEF Tx
<1>14. tx' = [tx EXCEPT ![d] = t]
  <2>1. tx' = [tx EXCEPT ![d].pc = "written", ![d].xid = x,
                         ![d].new = [v EXCEPT !.seq = s, !.xid = x]]
    BY <1>1, <1>2, <1>3 DEF SaveForUser
  <2> QED BY <1>9, <1>12, <2>1, Zenon DEF SyncTypeOK
<1>15. /\ tx' \in [Readers -> Tx] /\ tx'[d] = t
       /\ \A e \in Readers : e # d => tx'[e] = tx[e]
  BY <1>13, <1>14, TxStep, Zenon
<1>16. /\ t.pc = "written" /\ t.new = n /\ t.kind = tx[d].kind /\ t.row = tx[d].row
       /\ t.found = tx[d].found /\ t.report = tx[d].report
  BY <1>4, <1>12 DEF Tx
<1>17. SyncTypeOK'
  <2>1. nextSeq' \in 1..(MaxSeq + 1) BY <1>5, <1>6, SyncNumbers
  <2>2. nextXid' \in 1..(MaxXid + 1) BY <1>3, <1>5, <1>7, SyncNumbers DEF SyncTypeOK
  <2> QED BY <1>5, <1>15, <2>1, <2>2 DEF SyncTypeOK
<1>18. LocksHold' BY <1>5, <1>15, <1>16, LocksKept, Zenon
<1>19. tx[d].kind = "progress" /\ tx[d].row \in Progress /\ tx[d].row \in Rows
  BY <1>5, AtARow DEF DecisionsAreSound
<1>20. tx[d].found.seq < nextSeq
  <2>1. CASE tx[d].found.seq = 0 BY <1>6, <2>1
  <2>2. CASE tx[d].found.seq # 0
    <3>1. row[tx[d].row] = tx[d].found BY <1>4, <1>5, <2>2, SMTT(30) DEF LocksHold
    <3> QED BY <1>19, <3>1 DEF NumbersAreUnique
  <2> QED BY <2>1, <2>2
<1>21. DecisionsAreSound'
  <2>1. n.seq = s /\ n.epoch = v.epoch /\ n.percentage = v.percentage BY <1>10
  <2>2. n.seq > 0 /\ n.seq # t.found.seq BY <1>4, <1>6, <1>16, <1>20, <2>1
  <2>3. /\ v.epoch \in Nat /\ v.percentage \in Nat
        /\ t.found.epoch \in Nat /\ t.found.percentage \in Nat
        /\ t.report.percentage \in Nat
    BY <1>4, <1>8, <1>16, RowFields, ReportFields, SMTT(30)
  <2>4. \/ t.found.seq = 0 /\ v.percentage = t.report.percentage
        \/ /\ t.found.seq > 0 /\ t.report.override
           /\ v.epoch = t.found.epoch + 1 /\ v.percentage = t.report.percentage
        \/ /\ t.found.seq > 0
           /\ v.epoch = t.found.epoch /\ v.percentage = t.report.percentage
           /\ v.percentage > t.found.percentage
           /\ Seen(t.found, t.report)
    <3>1. CASE tx[d].found.seq = 0 BY <1>1, <1>5, <1>16, <3>1, DecisionTyped, Zenon
    <3>2. CASE tx[d].found.seq > 0 /\ tx[d].report.override
      <4>1. v.epoch = tx[d].found.epoch + 1 /\ v.percentage = tx[d].report.percentage
        BY <1>1, <1>5, <3>2, DecisionTyped, Zenon
      <4>2. t.found = tx[d].found /\ t.report = tx[d].report BY <1>16, Zenon
      <4> QED BY <3>2, <4>1, <4>2, Zenon
    <3>3. CASE tx[d].found.seq > 0 /\ ~tx[d].report.override
      <4>1. v # tx[d].found BY <1>1, <1>5, <3>3 DEF Saves
      <4> QED BY <1>1, <1>5, <1>16, <3>3, <4>1, DecisionTyped
    <3> QED BY <1>4, <3>1, <3>2, <3>3, SMTT(30)
  <2>5. n.percentage >= t.report.percentage BY <2>1, <2>3, <2>4
  <2>6. t.found.seq > 0 => /\ AtLeast(n, t.found)
                           /\ t.report.override \/ Seen(t.found, t.report)
    BY <2>1, <2>3, <2>4 DEF AtLeast
  <2>7. \A e \in Readers : e # d => tx'[e] = tx[e] BY <1>15
  <2> QED BY <1>15, <1>16, <2>2, <2>5, <2>6, <2>7, ZenonT(60) DEF DecisionsAreSound, Seen, AtLeast
<1>22. NumbersAreUnique'
  <2>1. tx'[d].new.seq = s BY <1>10, <1>15, <1>16
  <2> QED BY <1>5, <1>6, <1>15, <2>1, NumberGiven
<1> QED BY <1>17, <1>18, <1>21, <1>22

\* A report that changes nothing is behind what is stored, or behind an override.
LEMMA NothingToSaveKeepsCore ==
    ASSUME SyncCore, NEW d \in Readers, NothingToSave(d)
    PROVE  SyncCore'
<1> USE DEF SyncCore
<1>1. /\ tx[d] \in Tx /\ tx[d].found \in Row /\ tx[d].found.seq \in Nat
      /\ tx[d].found.epoch \in Nat /\ tx[d].found.percentage \in Nat
  BY TxFields, RowFields DEF SyncTypeOK
<1>2. /\ tx[d].pc = "locked" /\ ~Saves(d, tx[d])
      /\ row' = row /\ pull' = pull /\ cursor' = cursor /\ revoked' = revoked /\ since' = since
      /\ nextSeq' = nextSeq /\ nextXid' = nextXid
  BY DEF NothingToSave
<1>3. PICK t : t = [tx[d] EXCEPT !.pc = "written"] BY Zenon
<1>4. t \in Tx BY <1>1, <1>3 DEF Tx
<1>5. tx' = [tx EXCEPT ![d] = t] BY <1>3 DEF NothingToSave, SyncTypeOK
<1>6. /\ tx' \in [Readers -> Tx] /\ tx'[d] = t
      /\ \A e \in Readers : e # d => tx'[e] = tx[e]
  BY <1>4, <1>5, TxStep, Zenon
<1>7. /\ t.pc = "written" /\ t.new = tx[d].new /\ t.kind = tx[d].kind /\ t.row = tx[d].row
      /\ t.found = tx[d].found /\ t.report = tx[d].report
  BY <1>1, <1>3, Zenon DEF Tx
<1>8. tx[d].new = tx[d].found BY <1>2 DEF DecisionsAreSound
<1>9. SyncTypeOK' BY <1>2, <1>6, Zenon DEF SyncTypeOK
<1>10. LocksHold' BY <1>2, <1>6, <1>7, LocksKept, SMTT(30)
<1>11. DecisionsAreSound'
  <2>1. /\ tx[d].found.seq > 0 /\ ~tx[d].report.override
        /\ Decision(d, tx[d]) = tx[d].found
    <3>1. tx[d].found.seq # 0 /\ ~tx[d].report.override BY <1>2 DEF Saves
    <3>2. Decision(d, tx[d]) = tx[d].found BY <1>2, Zenon DEF Saves
    <3> QED BY <1>1, <3>1, <3>2
  <2>2. \/ tx[d].found.percentage >= tx[d].report.percentage
        \/ tx[d].found.epoch > tx[d].report.observedEpoch
    BY <1>1, <1>2, <2>1, DecisionTyped
  <2>3. AtLeast(tx[d].found, tx[d].found) BY <1>1, SMTT(30) DEF AtLeast
  <2>4. \A e \in Readers : e # d => tx'[e] = tx[e] BY <1>6
  <2>5. \A e \in Readers : tx'[e].pc = "locked" =>
           /\ tx'[e].kind = "progress" /\ tx'[e].new = tx'[e].found
           /\ tx'[e].report.override => tx'[e].found.epoch < MaxEpoch
    <3>1. "written" # "locked" OBVIOUS
    <3> QED BY <1>2, <1>6, <1>7, <2>4, <3>1, Zenon DEF DecisionsAreSound
  <2>6. \A e \in Readers : tx'[e].pc = "written" =>
           /\ tx'[e].new.seq > 0
           /\ tx'[e].new.seq # tx'[e].found.seq \/ tx'[e].new = tx'[e].found
    BY <1>2, <1>6, <1>7, <1>8, <2>1, <2>4, Zenon DEF DecisionsAreSound
  <2>7. \A e \in Readers : tx'[e].pc = "written" /\ tx'[e].kind = "progress" =>
           /\ \/ tx'[e].new.percentage >= tx'[e].report.percentage
              \/ tx'[e].new.epoch > tx'[e].report.observedEpoch
           /\ tx'[e].found.seq > 0 =>
                 /\ AtLeast(tx'[e].new, tx'[e].found)
                 /\ \/ tx'[e].new = tx'[e].found
                    \/ tx'[e].report.override
                    \/ Seen(tx'[e].found, tx'[e].report)
    <3> SUFFICES ASSUME NEW e \in Readers, tx'[e].pc = "written", tx'[e].kind = "progress"
                 PROVE  /\ \/ tx'[e].new.percentage >= tx'[e].report.percentage
                           \/ tx'[e].new.epoch > tx'[e].report.observedEpoch
                        /\ tx'[e].found.seq > 0 =>
                              /\ AtLeast(tx'[e].new, tx'[e].found)
                              /\ \/ tx'[e].new = tx'[e].found
                                 \/ tx'[e].report.override
                                 \/ Seen(tx'[e].found, tx'[e].report)
      BY Zenon
    <3>1. CASE e # d BY <2>4, <3>1, Zenon DEF DecisionsAreSound
    <3>2. CASE e = d
      <4>1. /\ tx'[e].new = tx[d].found /\ tx'[e].found = tx[d].found
            /\ tx'[e].report = tx[d].report
        BY <1>6, <1>7, <1>8, <3>2, Zenon
      <4> QED BY <2>2, <2>3, <4>1, Zenon
    <3> QED BY <3>1, <3>2, Zenon
  <2> QED BY <2>5, <2>6, <2>7, Zenon DEF DecisionsAreSound, AtLeast, Seen
<1>12. NumbersAreUnique'
  <2>1. \A e \in Readers : Numbered(e)' => Numbered(e) /\ tx'[e].new = tx[e].new
    BY <1>6, <1>7, <1>8 DEF Numbered
  <2> QED BY <1>2, <2>1, NumbersKept
<1> QED BY <1>9, <1>10, <1>11, <1>12


\* SaveMark numbers its row in one statement and has it to itself.
LEMMA SaveMarkKeepsCore ==
    ASSUME SyncCore, NEW d \in Readers, NEW m \in Bookmarks \cup Highlights, SaveMark(d, m)
    PROVE  SyncCore'
<1> USE DEF SyncCore
<1>1. m \in Rows /\ m \notin Progress /\ row[m] \in Row BY SyncAssumption DEF Rows, SyncTypeOK
<1>2. /\ tx[d].pc = "idle" /\ \A e \in Readers : tx[e].pc = "idle" \/ tx[e].row # m
      /\ nextSeq <= MaxSeq /\ nextXid <= MaxXid
      /\ nextSeq' = nextSeq + 1 /\ nextXid' = nextXid + 1
      /\ row' = row /\ pull' = pull /\ cursor' = cursor /\ revoked' = revoked /\ since' = since
  BY DEF SaveMark
<1>3. /\ nextSeq \in Nat /\ nextSeq > 0 /\ nextSeq \in 0..MaxSeq
      /\ nextXid \in Nat /\ nextXid \in 0..MaxXid /\ nextXid > 0
  BY <1>2, SyncNumbers DEF SyncTypeOK
<1>4. PICK n : n = [Absent EXCEPT !.seq = nextSeq, !.xid = nextXid] OBVIOUS
<1>5. n = [seq |-> nextSeq, xid |-> nextXid, epoch |-> 0, percentage |-> 0]
  BY <1>4, Zenon DEF Absent
<1>6. n \in Row BY <1>3, <1>5, SyncNumbers DEF Row
<1>7. PICK t : t = [NoTx EXCEPT !.pc = "written", !.kind = "mark", !.row = m, !.found = row[m],
                                !.xid = nextXid, !.new = n] OBVIOUS
<1>8. t \in Tx BY <1>1, <1>3, <1>6, <1>7, NoTxIsTx, Zenon DEF Tx
<1>9. tx' = [tx EXCEPT ![d] = t] BY <1>4, <1>7 DEF SaveMark
<1>10. /\ tx' \in [Readers -> Tx] /\ tx'[d] = t
       /\ \A e \in Readers : e # d => tx'[e] = tx[e]
  BY <1>8, <1>9, TxStep, Zenon
<1>11. t.pc = "written" /\ t.kind = "mark" /\ t.row = m /\ t.found = row[m] /\ t.new = n
  BY <1>7, NoTxIsTx DEF Tx
<1>12. SyncTypeOK'
  <2>1. nextSeq' \in 1..(MaxSeq + 1) /\ nextXid' \in 1..(MaxXid + 1)
    BY <1>2, <1>3, SyncNumbers
  <2> QED BY <1>2, <1>10, <2>1 DEF SyncTypeOK
<1>13. LocksHold' BY <1>2, <1>10, <1>11, LockTaken
<1>14. n.seq = nextSeq BY <1>5
<1>15. \A r \in Rows : row[r].seq \in Nat /\ row[r].seq < nextSeq
  BY RowFields, Zenon DEF NumbersAreUnique, SyncTypeOK
<1>16. DecisionsAreSound'
  <2>1. n.seq > 0 /\ n.seq # row[m].seq BY <1>1, <1>3, <1>14, <1>15, SMTT(30)
  <2> QED BY <1>10, <1>11, <2>1, SMTT(30) DEF DecisionsAreSound, Seen, AtLeast
<1>17. NumbersAreUnique'
  <2>1. tx'[d].new.seq = nextSeq BY <1>10, <1>11, <1>14, Zenon
  <2> QED BY <1>2, <1>3, <1>10, <2>1, NumberGiven
<1> QED BY <1>12, <1>13, <1>16, <1>17

\* DeleteMark takes a row that no transaction is at.
LEMMA DeleteMarkKeepsCore ==
    ASSUME SyncCore, NEW d \in Readers, NEW m \in Bookmarks \cup Highlights, DeleteMark(d, m)
    PROVE  SyncCore'
<1> USE DEF SyncCore
<1>1. /\ \A e \in Readers : tx[e].pc = "idle" \/ tx[e].row # m
      /\ row' = [row EXCEPT ![m] = Absent]
      /\ tx' = tx /\ nextSeq' = nextSeq
  BY DEF DeleteMark
<1>2. m \in Rows BY DEF Rows
<1>3. /\ row' \in [Rows -> Row] /\ row'[m].seq = 0
      /\ \A r \in Rows : r # m => row'[r] = row[r]
  BY <1>1, <1>2, AbsentIsRow DEF SyncTypeOK
<1>4. SyncTypeOK' BY <1>3, Zenon DEF DeleteMark, SyncTypeOK
<1>5. LocksHold'
  <2>1. \A e \in Readers : tx[e].pc # "idle" => row'[tx[e].row] = row[tx[e].row]
    BY <1>1, <1>3, AtARow, Zenon
  <2> QED BY <1>1, <2>1 DEF LocksHold
<1>6. DecisionsAreSound' BY <1>1, DecisionsKept, Zenon
<1>7. NumbersAreUnique'
  <2>1. \A r \in Rows : row'[r].seq = 0 \/ row'[r] = row[r] BY <1>2, <1>3
  <2>2. nextSeq > 0 BY DEF SyncTypeOK
  <2>3. \A r \in Rows : row[r].seq < nextSeq BY DEF NumbersAreUnique
  <2>4. \A r \in Rows : row'[r].seq < nextSeq' BY <1>1, <2>1, <2>2, <2>3, Zenon
  <2>5. ASSUME NEW r \in Rows, NEW q \in Rows, row'[r].seq > 0, row'[r].seq = row'[q].seq
        PROVE  r = q
    <3>1. row'[r] = row[r] /\ row'[q] = row[q] BY <2>1, <2>5, SMTT(30)
    <3> QED BY <2>5, <3>1 DEF NumbersAreUnique, Exists
  <2>6. \A e \in Readers : Numbered(e)' => Numbered(e) /\ tx[e].new.seq > 0
    BY <1>1, Zenon DEF Numbered, DecisionsAreSound
  <2>7. ASSUME NEW e \in Readers, Numbered(e)'
        PROVE  /\ tx'[e].new.seq < nextSeq'
               /\ \A r \in Rows : tx'[e].new.seq # row'[r].seq
               /\ \A f \in Readers \ {e} : Numbered(f)' => tx'[f].new.seq # tx'[e].new.seq
    <3>1. Numbered(e) /\ tx[e].new.seq > 0 BY <2>6, <2>7, Zenon
    <3>2. /\ tx[e].new.seq < nextSeq
          /\ \A r \in Rows : tx[e].new.seq # row[r].seq
          /\ \A f \in Readers \ {e} : Numbered(f) => tx[f].new.seq # tx[e].new.seq
      BY <3>1, Zenon DEF NumbersAreUnique
    <3>0. tx[e].new.seq # 0 BY <3>1
    <3>3. \A r \in Rows : tx[e].new.seq # row'[r].seq BY <2>1, <3>0, <3>2, Zenon
    <3> QED BY <1>1, <2>6, <3>2, <3>3
  <2> QED BY <2>4, <2>5, <2>7 DEF NumbersAreUnique, Exists
<1> QED BY <1>4, <1>5, <1>6, <1>7

\* What a commit does to the rows: the transaction that found its row replaces
\* the version it found, and one that found none is the only one let in.
LEMMA CommitEffect ==
    ASSUME SyncCore, NEW d \in Readers, Commit(d)
    PROVE  /\ tx[d].pc = "written" /\ tx[d].row \in Rows /\ tx[d].new \in Row
           /\ row' \in [Rows -> Row] /\ row'[tx[d].row] = tx[d].new
           /\ \A r \in Rows : r # tx[d].row => row'[r] = row[r]
           /\ Exists(tx[d].row) => tx[d].found.seq > 0 /\ row[tx[d].row] = tx[d].found
           /\ ~Numbered(d) => row' = row
           /\ tx' \in [Readers -> Tx] /\ tx'[d].pc = "idle"
           /\ \A e \in Readers : e # d => tx'[e] = tx[e]
<1> USE DEF SyncCore
<1>1. /\ tx[d].pc = "written" /\ IndexAdmits(tx[d]) /\ tx' = [tx EXCEPT ![d] = NoTx]
      /\ row' = [row EXCEPT ![tx[d].row] = tx[d].new]
  BY Zenon DEF Commit
<1>2. tx[d].row \in Rows BY <1>1, AtARow, SMTT(30)
<1>3. tx[d].new \in Row /\ tx[d].found \in Row /\ tx[d].found.seq \in Nat
  BY TxFields, RowFields, Zenon DEF SyncTypeOK
<1>4. /\ row' \in [Rows -> Row] /\ row'[tx[d].row] = tx[d].new
      /\ \A r \in Rows : r # tx[d].row => row'[r] = row[r]
  BY <1>1, <1>2, <1>3, Zenon DEF SyncTypeOK
<1>5. tx[d].found.seq > 0 => row[tx[d].row] = tx[d].found BY <1>1 DEF LocksHold
<1>6. Exists(tx[d].row) => tx[d].found.seq > 0 BY <1>1, <1>3 DEF IndexAdmits
<1>7. ~Numbered(d) => row' = row
  <2> SUFFICES ASSUME ~Numbered(d) PROVE row' = row BY SMTT(30)
  <2>1. tx[d].new = tx[d].found /\ tx[d].new.seq > 0 BY <1>1, Zenon DEF Numbered, DecisionsAreSound
  <2>2. row[tx[d].row] = tx[d].new BY <1>5, <2>1
  <2> QED BY <1>1, <1>2, <2>2 DEF SyncTypeOK
<1>8. /\ tx' \in [Readers -> Tx] /\ tx'[d].pc = "idle"
      /\ \A e \in Readers : e # d => tx'[e] = tx[e]
  BY <1>1, NoTxIsTx, TxStep, Zenon
<1> QED BY <1>1, <1>2, <1>3, <1>4, <1>5, <1>6, <1>7, <1>8, ZenonT(30)


-----------------------------------------------------------------------------
(* Pulling. *)

LEMMA AnsweredTyped ==
    ASSUME SyncTypeOK, NEW d \in Devices, NEW c \in 0..MaxSeq
    PROVE  Answered(d, c) \in [Devices -> 0..MaxSeq]
<1>1. PICK S : S = {since[d], c} BY Zenon
<1>2. S \in SUBSET (0..MaxSeq) /\ S # {} BY <1>1 DEF SyncTypeOK
<1>3. Max(S) \in 0..MaxSeq BY <1>2, SyncAssumption, HasMax, Zenon
<1> QED BY <1>1, <1>3 DEF Answered, SyncTypeOK


\* The committed version is the decided one, and its number is its own.
LEMMA CommitKeepsCore ==
    ASSUME SyncCore, NEW d \in Readers, Commit(d)
    PROVE  SyncCore'
<1> USE DEF SyncCore
<1>1. /\ tx[d].pc = "written" /\ tx[d].row \in Rows /\ tx[d].new \in Row
      /\ row' \in [Rows -> Row] /\ row'[tx[d].row] = tx[d].new
      /\ \A r \in Rows : r # tx[d].row => row'[r] = row[r]
      /\ Exists(tx[d].row) => tx[d].found.seq > 0 /\ row[tx[d].row] = tx[d].found
      /\ ~Numbered(d) => row' = row
      /\ tx' \in [Readers -> Tx] /\ tx'[d].pc = "idle"
      /\ \A e \in Readers : e # d => tx'[e] = tx[e]
  BY CommitEffect
<1>2. nextSeq' = nextSeq /\ nextXid' = nextXid /\ pull' = pull /\ revoked' = revoked
  BY Zenon DEF Commit
<1>3. tx[d].new.seq \in 0..MaxSeq /\ tx[d].cursor \in 0..MaxSeq BY TxFields, RowFields, Zenon DEF SyncTypeOK
<1>4. cursor' \in [Devices -> 0..MaxSeq] BY <1>3, Zenon DEF Commit, AdvanceCursor, SyncTypeOK
<1>5. since' \in [Devices -> 0..MaxSeq]
  <2>1. PICK a : a = IF NextInLine(d, tx[d]) /\ d \notin revoked THEN tx[d].new.seq ELSE tx[d].cursor
    OBVIOUS
  <2>2. a \in 0..MaxSeq BY <1>3, <2>1, Zenon
  <2>3. since' = since \/ (d \in Devices /\ since' = Answered(d, a)) BY <2>1, Zenon DEF Commit
  <2> QED BY <2>2, <2>3, AnsweredTyped DEF SyncTypeOK
<1>6. SyncTypeOK' BY <1>1, <1>2, <1>4, <1>5, Zenon DEF SyncTypeOK
<1>7. LocksHold'
  <2>1. ASSUME NEW e \in Readers, tx'[e].pc # "idle", tx'[e].found.seq > 0
        PROVE  row'[tx'[e].row] = tx'[e].found
    <3>1. e # d /\ tx'[e] = tx[e] BY <1>1, <2>1, Zenon
    <3>2. tx[e].row \in Rows /\ row[tx[e].row] = tx[e].found
      BY <2>1, <3>1, AtARow, Zenon DEF LocksHold
    <3>3. tx[e].row # tx[d].row
      <4> SUFFICES ASSUME tx[e].row = tx[d].row PROVE FALSE BY SMTT(30)
      <4>1. tx[d].found.seq > 0 BY <1>1, <2>1, <3>1, <3>2, Zenon DEF Exists
      <4>2. tx[d].found.seq = 0 \/ tx[e].found.seq = 0 BY <1>1, <2>1, <3>1, Zenon DEF LocksHold
      <4> QED BY <2>1, <3>1, <4>1, <4>2
    <3> QED BY <1>1, <3>1, <3>2, <3>3, Zenon
  <2>2. \A e \in Readers : tx'[e].pc # "idle" => e # d /\ tx'[e] = tx[e] BY <1>1, Zenon
  <2> QED BY <2>1, <2>2, SMTT(30) DEF LocksHold
<1>8. DecisionsAreSound' BY <1>1, DecisionsKept
<1>9. NumbersAreUnique'
  <2>1. \A e \in Readers : Numbered(e)' => e # d /\ Numbered(e) /\ tx'[e].new = tx[e].new
    BY <1>1, Zenon DEF Numbered
  <2>2. CASE ~Numbered(d) BY <1>1, <1>2, <2>1, <2>2, NumbersKept, Zenon
  <2>3. CASE Numbered(d)
    <3>1. /\ tx[d].new.seq < nextSeq
          /\ \A r \in Rows : tx[d].new.seq # row[r].seq
          /\ \A e \in Readers \ {d} : Numbered(e) => tx[e].new.seq # tx[d].new.seq
      BY <2>3, Zenon DEF NumbersAreUnique
    <3>2. \A r \in Rows : row'[r].seq < nextSeq' BY <1>1, <1>2, <3>1 DEF NumbersAreUnique
    <3>3. ASSUME NEW r \in Rows, NEW q \in Rows, row'[r].seq > 0, row'[r].seq = row'[q].seq
          PROVE  r = q
      <4>1. CASE r = tx[d].row BY <1>1, <3>1, <3>3, <4>1, Zenon
      <4>2. CASE q = tx[d].row BY <1>1, <3>1, <3>3, <4>2, Zenon
      <4>3. CASE r # tx[d].row /\ q # tx[d].row
        <5>1. row'[r] = row[r] /\ row'[q] = row[q] BY <1>1, <4>3, Zenon
        <5> QED BY <3>3, <5>1, SMTT(30) DEF NumbersAreUnique, Exists
      <4> QED BY <4>1, <4>2, <4>3, Zenon
    <3>4. ASSUME NEW e \in Readers, Numbered(e)'
          PROVE  /\ tx'[e].new.seq < nextSeq'
                 /\ \A r \in Rows : tx'[e].new.seq # row'[r].seq
                 /\ \A f \in Readers \ {e} : Numbered(f)' => tx'[f].new.seq # tx'[e].new.seq
      <4>1. e # d /\ Numbered(e) /\ tx'[e].new = tx[e].new BY <2>1, <3>4, Zenon
      <4>2. /\ tx[e].new.seq < nextSeq
            /\ \A r \in Rows : tx[e].new.seq # row[r].seq
            /\ \A f \in Readers \ {e} : Numbered(f) => tx[f].new.seq # tx[e].new.seq
        BY <4>1, Zenon DEF NumbersAreUnique
      <4>3. tx[e].new.seq # tx[d].new.seq BY <3>1, <4>1
      <4>4. \A r \in Rows : row'[r] = row[r] \/ row'[r] = tx[d].new BY <1>1
      <4>5. \A r \in Rows : tx[e].new.seq # row'[r].seq BY <4>2, <4>3, <4>4
      <4> QED BY <1>2, <2>1, <4>1, <4>2, <4>5, SMTT(30)
    <3> QED BY <3>2, <3>3, <3>4, ZenonT(30) DEF NumbersAreUnique, Exists
  <2> QED BY <2>2, <2>3, Zenon
<1> QED BY <1>6, <1>7, <1>8, <1>9

\* A rollback leaves the rows and gives no number back.
LEMMA RollbackKeepsCore ==
    ASSUME SyncCore, NEW d \in Readers, Rollback(d)
    PROVE  SyncCore'
<1> USE DEF SyncCore
<1>1. /\ tx' \in [Readers -> Tx] /\ tx'[d] = NoTx
      /\ \A e \in Readers : e # d => tx'[e] = tx[e]
  BY NoTxIsTx, TxStep, Zenon DEF Rollback
<1>2. row' = row /\ nextSeq' = nextSeq /\ tx'[d].pc = "idle" BY <1>1, NoTxIsTx DEF Rollback
<1>3. SyncTypeOK' BY <1>1 DEF Rollback, SyncTypeOK
<1>4. LocksHold' BY <1>1, <1>2, LocksKept
<1>5. DecisionsAreSound' BY <1>1, <1>2, DecisionsKept
<1>6. NumbersAreUnique' BY <1>1, <1>2, NumbersKept DEF Numbered
<1> QED BY <1>3, <1>4, <1>5, <1>6

\* Rows, transactions and numbers are all the other facts speak of.
LEMMA PullsKeepCore ==
    ASSUME SyncCore, SyncTypeOK', row' = row, tx' = tx, nextSeq' = nextSeq
    PROVE  SyncCore'
<1> USE DEF SyncCore
<1>1. LocksHold' BY LocksKept
<1>2. DecisionsAreSound' BY DecisionsKept
<1>3. NumbersAreUnique' BY NumbersKept DEF Numbered
<1> QED BY <1>1, <1>2, <1>3


LEMMA PullFields ==
    ASSUME NEW p \in Pull
    PROVE  p.cursor \in 0..MaxSeq /\ p.since \in 0..MaxSeq /\ p.next \in 0..MaxSeq
BY DEF Pull

LEMMA NoPullIsPull == NoPull \in Pull
BY SyncNumbers DEF NoPull, Pull

\* A pull and a revocation leave rows, transactions and numbers alone.
LEMMA DeviceStepKeepsCore ==
    ASSUME SyncCore, NEW d \in Devices,
           \/ AskPull(d) \/ PullFails(d) \/ AnswerPull(d) \/ Revoke(d)
           \/ \E l \in Libraries : GetReadingSyncData(d, l)
    PROVE  SyncCore'
<1> USE DEF SyncCore
<1>1. row' = row /\ tx' = tx /\ nextSeq' = nextSeq /\ nextXid' = nextXid
  BY Zenon DEF AskPull, PullFails, AnswerPull, Revoke, GetReadingSyncData
<1>2. pull[d] \in Pull BY DEF SyncTypeOK
<1>3. CASE AskPull(d)
  <2>1. PICK S : S = {since[d], cursor[d]} BY Zenon
  <2>2. S \in SUBSET (0..MaxSeq) /\ S # {} BY <2>1 DEF SyncTypeOK
  <2>3. Max(S) \in 0..MaxSeq BY <2>2, SyncAssumption, HasMax, Zenon
  <2>4. PICK p : p = [NoPull EXCEPT !.pc = "asked", !.cursor = cursor[d], !.since = Max(S)] OBVIOUS
  <2>5. p = [pc |-> "asked", cursor |-> cursor[d], since |-> Max(S), hasUpdates |-> FALSE, next |-> 0]
    BY <2>4, Zenon DEF NoPull
  <2>6. p \in Pull BY <2>3, <2>5, SyncNumbers DEF Pull, SyncTypeOK
  <2>7. pull' = [pull EXCEPT ![d] = p] BY <1>3, <2>1, <2>4 DEF AskPull
  <2>8. SyncTypeOK' BY <1>1, <1>3, <2>6, <2>7 DEF AskPull, SyncTypeOK
  <2> QED BY <1>1, <2>8, PullsKeepCore
<1>4. CASE PullFails(d)
  <2>1. SyncTypeOK' BY <1>1, <1>4, NoPullIsPull, SMTT(30) DEF PullFails, SyncTypeOK
  <2> QED BY <1>1, <2>1, PullsKeepCore
<1>5. CASE AnswerPull(d)
  <2>1. pull[d].next \in 0..MaxSeq BY <1>2, PullFields, Zenon
  <2>2. cursor' \in [Devices -> 0..MaxSeq]
    BY <1>5, <2>1 DEF AnswerPull, AdvanceCursor, SyncTypeOK
  <2>3. since' = since \/ since' = Answered(d, pull[d].next) BY <1>5 DEF AnswerPull
  <2>4. since' \in [Devices -> 0..MaxSeq] BY <2>1, <2>3, AnsweredTyped, SMTT(30) DEF SyncTypeOK
  <2>5. SyncTypeOK'
    BY <1>1, <1>5, <2>2, <2>4, NoPullIsPull, Zenon DEF AnswerPull, SyncTypeOK
  <2> QED BY <1>1, <2>5, PullsKeepCore
<1>6. CASE Revoke(d)
  <2>1. SyncTypeOK' BY <1>1, <1>6 DEF Revoke, SyncTypeOK
  <2> QED BY <1>1, <2>1, PullsKeepCore
<1>7. ASSUME NEW l \in Libraries, GetReadingSyncData(d, l) PROVE SyncCore'
  <2>1. PICK s : s = Min({pull[d].since, Ceiling}) OBVIOUS
  <2>2. Ceiling \in 0..MaxSeq
    <3>1. PICK S : S = {0} \cup SeqsOf(Rows) BY Zenon
    <3>2. \A r \in Rows : row[r].seq \in 0..MaxSeq BY DEF SyncTypeOK, Row
    <3>3. S \in SUBSET (0..MaxSeq) /\ S # {} BY <3>1, <3>2, SyncNumbers DEF SeqsOf
    <3>4. Max(S) \in 0..MaxSeq BY <3>3, SyncAssumption, HasMax, Zenon
    <3> QED BY <3>1, <3>4 DEF Ceiling
  <2>3. s \in 0..MaxSeq
    <3>1. PICK S : S = {pull[d].since, Ceiling} BY Zenon
    <3>2. S \in SUBSET (0..MaxSeq) /\ S # {} BY <1>2, <2>2, <3>1, PullFields, Zenon
    <3>3. S \in SUBSET Nat BY <3>2, SyncNumbers
    <3>4. Min(S) \in S BY <3>2, <3>3, HasMin
    <3> QED BY <2>1, <3>1, <3>2, <3>4
  <2>4. PICK n : n = DeltaCursor(l, s) OBVIOUS
  <2>5. n \in 0..MaxSeq BY <2>3, <2>4, CursorAtBoundaries
  <2>6. PICK h \in BOOLEAN : h = (Delivered(l, s) # {}) BY Zenon
  <2>7. PICK p : p = [pull[d] EXCEPT !.pc = "read", !.since = 0, !.next = n, !.hasUpdates = h] OBVIOUS
  <2>8. p \in Pull
    <3>1. p = [pc |-> "read", cursor |-> pull[d].cursor, since |-> 0, hasUpdates |-> h, next |-> n]
      BY <1>2, <2>7, Zenon DEF Pull
    <3>2. 0 \in 0..MaxSeq /\ pull[d].cursor \in 0..MaxSeq BY <1>2, SyncNumbers, PullFields
    <3> QED BY <2>5, <3>1, <3>2, Zenon DEF Pull
  <2>9. pull' = [pull EXCEPT ![d] = p]
    <3>1. pull' = [pull EXCEPT ![d].pc = "read", ![d].since = 0, ![d].next = n, ![d].hasUpdates = h]
      BY <1>7, <2>1, <2>4, <2>6, Zenon DEF GetReadingSyncData
    <3> QED BY <2>7, <3>1, Zenon DEF SyncTypeOK
  <2>10. pull' \in [Devices -> Pull] BY <2>8, <2>9, SMTT(30) DEF SyncTypeOK
  <2>11. cursor' = cursor /\ revoked' = revoked /\ since' = since BY <1>7, Zenon DEF GetReadingSyncData
  <2>12. SyncTypeOK' BY <1>1, <2>10, <2>11 DEF SyncTypeOK
  <2> QED BY <1>1, <2>12, PullsKeepCore
<1> QED BY <1>3, <1>4, <1>5, <1>6, <1>7, SMTT(30)


-----------------------------------------------------------------------------
(* The theorems of ReadingSync. *)

LEMMA SyncInitCore == SyncInit => SyncCore
<1> SUFFICES ASSUME SyncInit PROVE SyncCore OBVIOUS
<1>1. SyncTypeOK
  BY SyncNumbers, AbsentIsRow, NoTxIsTx, NoPullIsPull DEF SyncInit, SyncTypeOK
<1>2. \A d \in Readers : tx[d].pc = "idle" BY NoTxIsTx, Zenon DEF SyncInit
<1>3. LocksHold /\ DecisionsAreSound BY <1>2 DEF LocksHold, DecisionsAreSound
<1>4. \A r \in Rows : row[r].seq = 0 BY AbsentIsRow DEF SyncInit
<1>5. nextSeq = 1 BY DEF SyncInit
<1>6. NumbersAreUnique BY <1>2, <1>4, <1>5 DEF NumbersAreUnique, Exists, Numbered
<1> QED BY <1>1, <1>3, <1>6 DEF SyncCore

LEMMA SyncNextCore == SyncCore /\ [SyncNext]_svars => SyncCore'
<1> SUFFICES ASSUME SyncCore, [SyncNext]_svars PROVE SyncCore' OBVIOUS
<1>1. CASE UNCHANGED svars
  <2>1. SyncTypeOK' BY <1>1 DEF svars, SyncCore, SyncTypeOK
  <2> QED BY <1>1, <2>1, PullsKeepCore DEF svars
<1>2. ASSUME NEW d \in Readers, NEW w \in Progress, NEW report \in Report,
             FindByWorkForUpdate(d, w, report)
      PROVE  SyncCore'
  BY <1>2, FindKeepsCore
<1>3. ASSUME NEW d \in Readers, SaveForUser(d) PROVE SyncCore' BY <1>3, SaveKeepsCore
<1>4. ASSUME NEW d \in Readers, NothingToSave(d) PROVE SyncCore' BY <1>4, NothingToSaveKeepsCore
<1>5. ASSUME NEW d \in Readers, NEW m \in Bookmarks \cup Highlights, SaveMark(d, m) PROVE SyncCore'
  BY <1>5, SaveMarkKeepsCore
<1>6. ASSUME NEW d \in Readers, NEW m \in Bookmarks \cup Highlights, DeleteMark(d, m) PROVE SyncCore'
  BY <1>6, DeleteMarkKeepsCore
<1>7. ASSUME NEW d \in Readers, Commit(d) PROVE SyncCore' BY <1>7, CommitKeepsCore
<1>8. ASSUME NEW d \in Readers, Rollback(d) PROVE SyncCore' BY <1>8, RollbackKeepsCore
<1>9. ASSUME NEW d \in Devices,
             \/ AskPull(d) \/ PullFails(d) \/ AnswerPull(d) \/ Revoke(d)
             \/ \E l \in Libraries : GetReadingSyncData(d, l)
      PROVE  SyncCore'
  BY <1>9, DeviceStepKeepsCore
<1> QED
  BY <1>1, <1>2, <1>3, <1>4, <1>5, <1>6, <1>7, <1>8, <1>9 DEF SyncNext

LEMMA SyncCoreHolds == SyncSpec => []SyncCore
BY SyncInitCore, SyncNextCore, PTL DEF SyncSpec

\* For any devices, browsers, rows and limit: the row locks keep what a write
\* transaction found, what it decided is sound, numbers are given once, and no
\* pull passes a row that LIMIT left out (device_sync.go, reader/api/progress.go,
\* reading_sync_repository.go).
THEOREM SyncInvariantHolds == SyncSpec => []SyncInvariant
<1>1. SyncCore => SyncInvariant
  BY LimitSkipsNothingByNumbers DEF SyncCore, SyncInvariant
<1> QED BY <1>1, SyncCoreHolds, PTL

\* The version of a row changes only where a transaction commits or a mark is
\* deleted.
LEMMA RowsChange ==
    ASSUME [SyncNext]_svars, NEW w \in Progress, row'[w] # row[w], SyncCore
    PROVE  \E d \in Readers : Commit(d) /\ tx[d].row = w
<1>1. row' # row BY Zenon
<1>2. \A d \in Readers, m \in Bookmarks \cup Highlights : DeleteMark(d, m) => row'[w] = row[w]
  BY SyncAssumption, SMTT(30) DEF DeleteMark, SyncCore, SyncTypeOK, Rows
<1>3. \E d \in Readers : Commit(d)
  BY <1>1, <1>2, Zenon DEF SyncNext, svars, FindByWorkForUpdate, SaveForUser, NothingToSave,
     SaveMark, Rollback, AskPull, GetReadingSyncData, PullFails, AnswerPull, Revoke
<1>4. PICK d \in Readers : Commit(d) BY <1>3
<1>5. tx[d].row = w BY <1>4, CommitEffect DEF Rows
<1> QED BY <1>4, <1>5

LEMMA CursorStep ==
    ASSUME SyncTypeOK, [SyncNext]_svars, NEW d \in Devices
    PROVE  cursor'[d] >= cursor[d] /\ (d \in revoked => cursor'[d] = cursor[d])
<1>1. cursor[d] \in Nat BY SyncNumbers, SMTT(30) DEF SyncTypeOK
<1>2. \/ cursor' = cursor
      \/ \E e \in Devices, c \in 0..MaxSeq : cursor' = AdvanceCursor(e, c)
  <2>1. ASSUME NEW e \in Readers, Commit(e)
        PROVE  cursor' = cursor \/ \E f \in Devices, c \in 0..MaxSeq : cursor' = AdvanceCursor(f, c)
    <3>1. tx[e].new.seq \in 0..MaxSeq BY TxFields, RowFields DEF SyncTypeOK
    <3> QED BY <2>1, <3>1, Zenon DEF Commit, NextInLine
  <2>2. ASSUME NEW e \in Devices, AnswerPull(e)
        PROVE  cursor' = cursor \/ \E f \in Devices, c \in 0..MaxSeq : cursor' = AdvanceCursor(f, c)
    <3>1. pull[e].next \in 0..MaxSeq BY PullFields DEF SyncTypeOK
    <3> QED BY <2>2, <3>1 DEF AnswerPull
  <2> QED
    BY <2>1, <2>2, Zenon DEF SyncNext, svars, FindByWorkForUpdate, SaveForUser, NothingToSave,
       SaveMark, DeleteMark, Rollback, AskPull, GetReadingSyncData, PullFails, Revoke
<1>3. CASE cursor' = cursor BY <1>1, <1>3
<1>4. ASSUME NEW e \in Devices, NEW c \in 0..MaxSeq, cursor' = AdvanceCursor(e, c)
      PROVE  cursor'[d] >= cursor[d] /\ (d \in revoked => cursor'[d] = cursor[d])
  BY <1>1, <1>4, SyncNumbers DEF AdvanceCursor, SyncTypeOK
<1> QED BY <1>2, <1>3, <1>4

\* Neither the canonical progress of a work nor the stored cursor of a device
\* moves back, whatever requests overlap (device_sync.go, reader/api/progress.go,
\* AdvanceCursor).
THEOREM NothingIsTakenBack == SyncSpec => NothingMovesBack
<1>1. SyncCore /\ [SyncNext]_svars =>
        \A w \in Progress : Exists(w) => Exists(w)' /\ AtLeast(row'[w], row[w])
  <2> SUFFICES ASSUME SyncCore, [SyncNext]_svars, NEW w \in Progress, row[w].seq > 0
               PROVE  row'[w].seq > 0 /\ AtLeast(row'[w], row[w])
    BY DEF Exists
  <2>1. w \in Rows /\ row[w].epoch \in Nat /\ row[w].percentage \in Nat
    BY RowFields DEF Rows, SyncCore, SyncTypeOK
  <2>2. CASE row'[w] = row[w] BY <2>1, <2>2, SMTT(30) DEF AtLeast
  <2>3. CASE row'[w] # row[w]
    <3>1. PICK d \in Readers : Commit(d) /\ tx[d].row = w BY <2>3, RowsChange, Zenon
    <3>2. /\ tx[d].pc = "written" /\ row'[w] = tx[d].new
          /\ tx[d].found.seq > 0 /\ row[w] = tx[d].found
      BY <3>1, CommitEffect, SMTT(30) DEF Exists
    <3>3. tx[d].kind = "progress"
      BY <3>1, <3>2, SyncAssumption, Zenon DEF SyncCore, LocksHold
    <3> QED BY <3>2, <3>3 DEF SyncCore, DecisionsAreSound
  <2> QED BY <2>2, <2>3
<1>2. SyncCore /\ [SyncNext]_svars =>
        \A d \in Devices : /\ cursor'[d] >= cursor[d]
                           /\ d \in revoked => cursor'[d] = cursor[d]
  BY CursorStep DEF SyncCore
<1>3. SyncSpec => ProgressOnlyAdvances
  BY <1>1, SyncCoreHolds, PTL DEF SyncSpec, ProgressOnlyAdvances
<1>4. SyncSpec => CursorOnlyAdvances
  BY <1>2, SyncCoreHolds, PTL DEF SyncSpec, CursorOnlyAdvances
<1> QED BY <1>3, <1>4, Zenon DEF NothingMovesBack

\* A report answered without an error is folded into the canonical progress, or
\* an override its device had not seen supersedes it (ReconcileProgress).
THEOREM AnsweredReportIsFoldedIn == SyncSpec => AnsweredReportCounts
<1>1. SyncCore /\ [SyncNext]_svars =>
        \A d \in Readers : Commit(d) /\ tx[d].kind = "progress" =>
            \/ row'[tx[d].row].percentage >= tx[d].report.percentage
            \/ row'[tx[d].row].epoch > tx[d].report.observedEpoch
  BY CommitEffect, Zenon DEF SyncCore, DecisionsAreSound
<1> QED BY <1>1, SyncCoreHolds, PTL DEF SyncSpec, AnsweredReportCounts

\* Behind an override only what has seen the new epoch, or another override,
\* moves the progress of a work (ReconcileProgress and the clamp of the push).
THEOREM OverrideIsKept == SyncSpec => OverrideSticks
<1>1. SyncCore /\ [SyncNext]_svars =>
        \A w \in Progress : Exists(w) /\ row'[w] # row[w] =>
          \E d \in Readers : /\ tx[d].pc = "written" /\ tx[d].row = w
                             /\ tx[d].report.override \/ Seen(row[w], tx[d].report)
  <2> SUFFICES ASSUME SyncCore, [SyncNext]_svars, NEW w \in Progress, Exists(w), row'[w] # row[w]
               PROVE  \E d \in Readers : /\ tx[d].pc = "written" /\ tx[d].row = w
                                         /\ tx[d].report.override \/ Seen(row[w], tx[d].report)
    BY Zenon
  <2>1. PICK d \in Readers : Commit(d) /\ tx[d].row = w BY RowsChange, Zenon
  <2>2. /\ tx[d].pc = "written" /\ row'[w] = tx[d].new
        /\ tx[d].found.seq > 0 /\ row[w] = tx[d].found
    BY <2>1, CommitEffect, SMTT(30)
  <2>3. tx[d].kind = "progress" BY <2>1, <2>2, SyncAssumption, Zenon DEF SyncCore, LocksHold
  <2>4. tx[d].report.override \/ Seen(tx[d].found, tx[d].report)
    BY <2>2, <2>3, Zenon DEF SyncCore, DecisionsAreSound
  <2> QED BY <2>1, <2>2, <2>4, Zenon
<1> QED BY <1>1, SyncCoreHolds, PTL DEF SyncSpec, OverrideSticks
=============================================================================
