---------------------------- MODULE ReadingSync ----------------------------
(* Reading progress, bookmarks and highlights of one user, written by        *)
(* several devices and pulled by each of them.  Writes are PostgreSQL         *)
(* transactions under READ COMMITTED; a trigger numbers every write from the  *)
(* sequence sync_seq.  A pull returns the rows numbered above the device's    *)
(* cursor, holding back those of transactions at or above the snapshot's      *)
(* low-water mark.  Positions, labels, notes and times are left out.          *)
EXTENDS Naturals, FiniteSets, FiniteSetsExt

CONSTANTS
    Devices,            \* the user's paired devices
    Browsers,           \* open reader pages, which use the single-device endpoint
    Progress,           \* the rows of reading_progress, one per work
    Bookmarks,          \* rows of bookmarks
    Highlights,         \* rows of highlights
    Libraries,
    Lib,                \* the library of each row
    Limit,              \* syncDeltaLimit
    MaxPercentage,
    MaxSeq,             \* bound on sync_seq
    MaxEpoch,           \* bound on overrides of one work
    MaxXid,             \* bound on transaction ids
    Lossy,              \* whether a response can be lost on its way
    CeilingQueryWorks   \* FALSE: the query of GetSyncSequenceCeiling fails,
                        \* as it does on the schema of the migrations

Tables == {Progress, Bookmarks, Highlights}
Rows == Progress \cup Bookmarks \cup Highlights
Readers == Devices \cup Browsers

ASSUME SyncAssumption ==
    /\ Devices \cap Browsers = {}
    /\ Progress \cap Bookmarks = {} /\ Progress \cap Highlights = {} /\ Bookmarks \cap Highlights = {}
    /\ IsFiniteSet(Rows)
    /\ Lib \in [Rows -> Libraries]
    /\ Limit \in Nat \ {0} /\ MaxPercentage \in Nat /\ MaxSeq \in Nat /\ MaxEpoch \in Nat
    /\ MaxXid \in Nat
    /\ Lossy \in BOOLEAN /\ CeilingQueryWorks \in BOOLEAN

VARIABLES
    row,        \* the committed rows
    tx,         \* the write transaction of a request of each reader
    pull,       \* the GET /sync/reading request of each device
    cursor,     \* paired_devices.sync_cursor
    revoked,    \* the devices whose revoked_at is set
    nextXid,    \* the next transaction id
    nextSeq,    \* the next value of sync_seq
    since       \* device side: the highest cursor it was answered

svars == <<row, tx, pull, cursor, revoked, nextXid, nextSeq, since>>

\* A version of a row; for bookmarks and highlights epoch and percentage are 0.
\* Version 0 of sync_sequence stands for a row that does not exist.
Row == [seq : 0..MaxSeq, xid : 0..MaxXid, epoch : 0..MaxEpoch, percentage : 0..MaxPercentage]
Absent == [seq |-> 0, xid |-> 0, epoch |-> 0, percentage |-> 0]
Exists(r) == row[r].seq > 0

Report == [percentage : 0..MaxPercentage, observedEpoch : 0..MaxEpoch, override : BOOLEAN]
NoReport == [percentage |-> 0, observedEpoch |-> 0, override |-> FALSE]

\* A write transaction: what it found when it locked its row, the version it
\* leaves, and the request's copy of the device's cursor.
Tx == [pc : {"idle", "locked", "written"}, kind : {"none", "progress", "mark"},
       row : Rows \cup {"none"}, report : Report, found : Row, new : Row, xid : 0..MaxXid, cursor : 0..MaxSeq]

NoTx == [pc |-> "idle", kind |-> "none", row |-> "none", report |-> NoReport,
         found |-> Absent, new |-> Absent, xid |-> 0, cursor |-> 0]

\* A pull: the request's copy of the cursor, the lower bound it uses, and the
\* answer once the delta has been read.
Pull == [pc : {"idle", "asked", "read"}, cursor : 0..MaxSeq, since : 0..MaxSeq,
         hasUpdates : BOOLEAN, next : 0..MaxSeq]
NoPull == [pc |-> "idle", cursor |-> 0, since |-> 0, hasUpdates |-> FALSE, next |-> 0]

SyncInit ==
    /\ row = [r \in Rows |-> Absent]
    /\ tx = [d \in Readers |-> NoTx]
    /\ pull = [d \in Devices |-> NoPull]
    /\ cursor = [d \in Devices |-> 0]
    /\ revoked = {}
    /\ nextXid = 1
    /\ nextSeq = 1
    /\ since = [d \in Devices |-> 0]

----------------------------------------------------------------------------
(* The canonical progress of a work                                           *)

\* Mutant: a report must have seen a later epoch than the stored one.
SeenLater(version, report) == report.observedEpoch > version.epoch

\* The report was made with the stored epoch in sight.
Seen(version, report) == report.observedEpoch >= version.epoch

\* Mutant: the epochs are not compared.
AdvancesBehindEpoch(version, report) == report.percentage > version.percentage

\* The automatic report competes on percentage at the stored epoch.
Advances(version, report) ==
    Seen(version, report) /\ report.percentage > version.percentage

ReconcileProgress(version, report) ==
    IF Advances(version, report)
    THEN [version EXCEPT !.percentage = report.percentage]
    ELSE version

FirstProgress(report) == [Absent EXCEPT !.percentage = report.percentage]

OverrideProgress(version, report) ==
    [version EXCEPT !.epoch = @ + 1, !.percentage = report.percentage]

\* The clamp of the sync handler: only the server assigns epochs.
Clamped(version, report) ==
    [report EXCEPT !.observedEpoch = IF @ > version.epoch THEN version.epoch ELSE @]

\* What a progress transaction stores; equal to found when it stores nothing.
Decision(d, t) ==
    CASE t.found.seq = 0 -> FirstProgress(t.report)
      [] t.found.seq > 0 /\ t.report.override -> OverrideProgress(t.found, t.report)
      [] OTHER -> ReconcileProgress(t.found, IF d \in Devices THEN Clamped(t.found, t.report)
                                                                 ELSE t.report)

Saves(d, t) == t.found.seq = 0 \/ t.report.override \/ Decision(d, t) # t.found

----------------------------------------------------------------------------
(* Write transactions                                                         *)

\* Mutant: SELECT without FOR UPDATE.
NeverLocked(d, r) == FALSE

\* A transaction that found the row locks it until it ends; an inserting one
\* does not exclude another one from finding no row either.
LockedByOther(d, r) ==
    \E e \in Readers \ {d} : tx[e].pc # "idle" /\ tx[e].row = r /\ tx[e].found.seq > 0

\* POST /sync/progress and POST /reading/works/{id}/progress up to the row
\* lock: a revoked device is refused; SELECT ... FOR UPDATE waits for the lock
\* and then takes a transaction id, unless there is no row.  An override
\* ignores the epoch a report observed, and a first report also whether it is an
\* override: one value stands for all.
FindByWorkForUpdate(d, w, report) ==
    /\ tx[d].pc = "idle"
    /\ d \notin revoked
    /\ ~LockedByOther(d, w)
    /\ report.override => row[w].epoch < MaxEpoch
    /\ report.override => report.observedEpoch = 0
    /\ ~Exists(w) => report.observedEpoch = 0 /\ ~report.override
    /\ Exists(w) => nextXid <= MaxXid
    /\ tx' = [tx EXCEPT ![d] = [pc |-> "locked", kind |-> "progress", row |-> w, report |-> report,
                                found |-> row[w], new |-> row[w],
                                xid |-> IF Exists(w) THEN nextXid ELSE 0,
                                cursor |-> IF d \in Devices THEN cursor[d] ELSE 0]]
    /\ nextXid' = IF Exists(w) THEN nextXid + 1 ELSE nextXid
    /\ UNCHANGED <<row, pull, cursor, revoked, nextSeq, since>>

\* SaveForUser: an upsert whose BEFORE INSERT trigger takes a number even when
\* the row exists; the BEFORE UPDATE trigger then takes another one.
SaveForUser(d) ==
    LET t == tx[d]
        seq == IF t.found.seq = 0 THEN nextSeq ELSE nextSeq + 1
        xid == IF t.xid = 0 THEN nextXid ELSE t.xid
    IN  /\ t.pc = "locked"
        /\ Saves(d, t)
        /\ seq <= MaxSeq /\ xid <= MaxXid
        /\ tx' = [tx EXCEPT ![d].pc = "written", ![d].xid = xid,
                            ![d].new = [Decision(d, t) EXCEPT !.seq = seq, !.xid = xid]]
        /\ nextSeq' = seq + 1
        /\ nextXid' = IF t.xid = 0 THEN nextXid + 1 ELSE nextXid
        /\ UNCHANGED <<row, pull, cursor, revoked, since>>

\* A rejected or unchanged report writes no row.
NothingToSave(d) ==
    /\ tx[d].pc = "locked"
    /\ ~Saves(d, tx[d])
    /\ tx' = [tx EXCEPT ![d].pc = "written"]
    /\ UNCHANGED <<row, pull, cursor, revoked, nextXid, nextSeq, since>>

\* A bookmark or a highlight is created, or the note of a highlight is patched:
\* one statement, numbered by the trigger before it commits.
SaveMark(d, m) ==
    /\ tx[d].pc = "idle"
    /\ d \notin revoked
    /\ m \in Bookmarks => ~Exists(m)
    /\ \A e \in Readers : tx[e].pc = "idle" \/ tx[e].row # m
    /\ nextSeq <= MaxSeq /\ nextXid <= MaxXid
    /\ tx' = [tx EXCEPT ![d] =
                [NoTx EXCEPT !.pc = "written", !.kind = "mark", !.row = m, !.found = row[m],
                             !.xid = nextXid, !.new = [Absent EXCEPT !.seq = nextSeq, !.xid = nextXid]]]
    /\ nextSeq' = nextSeq + 1
    /\ nextXid' = nextXid + 1
    /\ UNCHANGED <<row, pull, cursor, revoked, since>>

\* DeleteAndUser removes the row; no delta mentions it.
DeleteMark(d, m) ==
    /\ d \notin revoked
    /\ Exists(m)
    /\ \A e \in Readers : tx[e].pc = "idle" \/ tx[e].row # m
    /\ row' = [row EXCEPT ![m] = Absent]
    /\ UNCHANGED <<tx, pull, cursor, revoked, nextXid, nextSeq, since>>

\* AdvanceCursor: only forwards, and not for a revoked device.
AdvanceCursor(d, c) ==
    IF d \notin revoked /\ cursor[d] < c THEN [cursor EXCEPT ![d] = c] ELSE cursor

\* The unique index on the work lets one of two concurrent first reports in.
IndexAdmits(t) == t.found.seq = 0 => ~Exists(t.row)

\* The push moves the device's cursor only onto the number right after it.
NextInLine(d, t) == d \in Devices /\ t.kind = "progress" /\ t.new.seq = t.cursor + 1

\* The device keeps the cursor it is answered as its next since.
Answered(d, c) == [since EXCEPT ![d] = Max({@, c})]

\* The transaction commits, with the push's cursor, and the answer is sent: it
\* carries the canonical progress, and for a push the cursor.
Commit(d) ==
    LET t == tx[d]
        advances == NextInLine(d, t)
        answer == IF advances /\ d \notin revoked THEN t.new.seq ELSE t.cursor
    IN  /\ t.pc = "written"
        /\ IndexAdmits(t)
        /\ row' = [row EXCEPT ![t.row] = t.new]
        /\ cursor' = IF advances THEN AdvanceCursor(d, t.new.seq) ELSE cursor
        /\ tx' = [tx EXCEPT ![d] = NoTx]
        /\ \/ since' = IF d \in Devices /\ t.kind = "progress" THEN Answered(d, answer) ELSE since
           \/ Lossy /\ since' = since
        /\ UNCHANGED <<pull, revoked, nextXid, nextSeq>>

\* The transaction rolls back: a lost database connection, or the unique index
\* refuses the row (the request is answered with Conflict).
Rollback(d) ==
    /\ tx[d].pc # "idle"
    /\ tx' = [tx EXCEPT ![d] = NoTx]
    /\ UNCHANGED <<row, pull, cursor, revoked, nextXid, nextSeq, since>>

----------------------------------------------------------------------------
(* Pulling                                                                    *)

\* pg_snapshot_xmin: the lowest transaction id still in progress.
SnapshotXmin == Min({nextXid} \cup {tx[d].xid : d \in {e \in Readers : tx[e].xid > 0}})

\* The rows the three queries select before LIMIT.
Delta(l, s) == {r \in Rows : Lib[r] = l /\ row[r].seq > s /\ row[r].xid < SnapshotXmin}

SeqsOf(R) == {row[r].seq : r \in R}

\* The rows of one table that LIMIT lets through, lowest numbers first.
Page(t, l, s) ==
    LET D == Delta(l, s) \cap t
    IN  {r \in D : Cardinality({q \in D : row[q].seq < row[r].seq}) < Limit}

Delivered(l, s) == UNION {Page(t, l, s) : t \in Tables}

\* Mutant: the cursor is the highest number delivered.
NoBoundaries(l, s) == {}

\* The last number of every table that hit the limit.
Boundaries(l, s) ==
    {Max(SeqsOf(Page(t, l, s))) : t \in {u \in Tables : Cardinality(Page(u, l, s)) = Limit}}

DeltaCursor(l, s) == Min({Max({s} \cup SeqsOf(Delivered(l, s)))} \cup Boundaries(l, s))

\* GetSyncSequenceCeiling: the highest committed number.
Ceiling == Max({0} \cup SeqsOf(Rows))

\* The middleware reads the device; the requested lower bound is raised to the
\* device's cursor.
AskPull(d) ==
    /\ pull[d].pc = "idle"
    /\ d \notin revoked
    /\ pull' = [pull EXCEPT ![d] = [NoPull EXCEPT !.pc = "asked", !.cursor = cursor[d],
                                                  !.since = Max({since[d], cursor[d]})]]
    /\ UNCHANGED <<row, tx, cursor, revoked, nextXid, nextSeq, since>>

\* The lower bound is clamped to the ceiling and one REPEATABLE READ snapshot
\* is read for the active library.
GetReadingSyncData(d, l) ==
    LET s == Min({pull[d].since, Ceiling})
    IN  /\ pull[d].pc = "asked"
        /\ CeilingQueryWorks
        /\ pull' = [pull EXCEPT ![d].pc = "read", ![d].since = 0, ![d].next = DeltaCursor(l, s),
                                ![d].hasUpdates = Delivered(l, s) # {}]
        /\ UNCHANGED <<row, tx, cursor, revoked, nextXid, nextSeq, since>>

\* The ceiling or the delta cannot be read: the request is answered with 500.
PullFails(d) ==
    /\ pull[d].pc = "asked"
    /\ pull' = [pull EXCEPT ![d] = NoPull]
    /\ UNCHANGED <<row, tx, cursor, revoked, nextXid, nextSeq, since>>

\* The device's cursor is advanced when there are updates (a failure to do so
\* is only logged), and then the answer is sent.
AnswerPull(d) ==
    LET p == pull[d]
    IN  /\ p.pc = "read"
        /\ \/ cursor' = IF p.hasUpdates /\ p.next > p.cursor THEN AdvanceCursor(d, p.next) ELSE cursor
           \/ cursor' = cursor
        /\ pull' = [pull EXCEPT ![d] = NoPull]
        /\ \/ since' = Answered(d, p.next)
           \/ Lossy /\ since' = since
        /\ UNCHANGED <<row, tx, revoked, nextXid, nextSeq>>

\* DELETE /devices/{id}
Revoke(d) ==
    /\ d \notin revoked
    /\ revoked' = revoked \cup {d}
    /\ UNCHANGED <<row, tx, pull, cursor, nextXid, nextSeq, since>>

SyncNext ==
    \/ \E d \in Readers :
        \/ \E w \in Progress, report \in Report : FindByWorkForUpdate(d, w, report)
        \/ SaveForUser(d)
        \/ NothingToSave(d)
        \/ \E m \in Bookmarks \cup Highlights : SaveMark(d, m) \/ DeleteMark(d, m)
        \/ Commit(d)
        \/ Rollback(d)
    \/ \E d \in Devices :
        \/ AskPull(d)
        \/ \E l \in Libraries : GetReadingSyncData(d, l)
        \/ PullFails(d)
        \/ AnswerPull(d)
        \/ Revoke(d)

SyncSpec == SyncInit /\ [][SyncNext]_svars

----------------------------------------------------------------------------
(* Properties                                                                 *)

\* Every variable has the type its database column or request field gives it.
SyncTypeOK ==
    /\ row \in [Rows -> Row]
    /\ tx \in [Readers -> Tx]
    /\ pull \in [Devices -> Pull]
    /\ cursor \in [Devices -> 0..MaxSeq]
    /\ revoked \subseteq Devices
    /\ nextXid \in 1..(MaxXid + 1)
    /\ nextSeq \in 1..(MaxSeq + 1)
    /\ since \in [Devices -> 0..MaxSeq]

\* The lexicographic order on (epoch, percentage) of ReconcileProgress.
AtLeast(v, u) ==
    v.epoch > u.epoch \/ (v.epoch = u.epoch /\ v.percentage >= u.percentage)

\* Whatever reports and overrides overlap, on the push endpoint and on the
\* single-device one, the canonical progress of a work only moves up in the
\* order of ReconcileProgress.
ProgressOnlyAdvances ==
    [][\A w \in Progress : Exists(w) => Exists(w)' /\ AtLeast(row'[w], row[w])]_svars

\* A report that was answered without an error is folded in: right after its
\* transaction the canonical progress is at least the report, unless an
\* override the device had not seen supersedes it.
AnsweredReportCounts ==
    [][\A d \in Readers :
         Commit(d) /\ tx[d].kind = "progress" =>
            \/ row'[tx[d].row].percentage >= tx[d].report.percentage
            \/ row'[tx[d].row].epoch > tx[d].report.observedEpoch]_svars

\* After an override only a device that has seen the new epoch, or another
\* override, moves the progress of the work.
OverrideSticks ==
    [][\A w \in Progress : Exists(w) /\ row'[w] # row[w] =>
         \E d \in Readers : /\ tx[d].pc = "written" /\ tx[d].row = w
                            /\ tx[d].report.override \/ Seen(row[w], tx[d].report)]_svars

\* A device's stored cursor never moves back, although pulls and pushes of the
\* device that read it earlier finish later, and it rests once the device is
\* revoked.
CursorOnlyAdvances ==
    [][\A d \in Devices : /\ cursor'[d] >= cursor[d]
                          /\ d \in revoked => cursor'[d] = cursor[d]]_svars

\* Nothing a device relies on is taken back by a slower request: neither the
\* progress of a work nor a stored cursor (device_sync.go, reader/api/progress.go).
NothingMovesBack == ProgressOnlyAdvances /\ CursorOnlyAdvances

\* LIMIT cuts nothing off below the cursor: whatever is committed and in
\* flight, a pull from where a device stands leaves out no selected row below
\* the cursor it returns.
LimitSkipsNothing ==
    \A l \in Libraries, s \in {since[d] : d \in Devices} \cup {cursor[d] : d \in Devices} :
        LET cut == Delta(l, s) \ Delivered(l, s)
        IN  cut # {} => DeltaCursor(l, s) < Min(SeqsOf(cut))

\* What the row locks and the unique index give a write transaction: the row it
\* found is still there as it was, and no other transaction that found it is
\* open; the writer of a bookmark or a highlight has it to itself.
LocksHold ==
    \A d \in Readers : tx[d].pc # "idle" =>
        /\ \/ tx[d].kind = "progress" /\ tx[d].row \in Progress
           \/ tx[d].kind = "mark" /\ tx[d].row \in Bookmarks \cup Highlights
        /\ tx[d].found.seq > 0 => row[tx[d].row] = tx[d].found
        /\ \A e \in Readers \ {d} : tx[e].pc # "idle" /\ tx[e].row = tx[d].row =>
              tx[d].kind = "progress" /\ (tx[d].found.seq = 0 \/ tx[e].found.seq = 0)

\* What a transaction has decided: a report is folded in or superseded, nothing
\* moves back, and behind an override only what has seen it, or overrides it.
DecisionsAreSound ==
    \A d \in Readers :
        /\ tx[d].pc = "locked" =>
              /\ tx[d].kind = "progress" /\ tx[d].new = tx[d].found
              /\ tx[d].report.override => tx[d].found.epoch < MaxEpoch
        /\ tx[d].pc = "written" =>
              /\ tx[d].new.seq > 0
              /\ tx[d].new.seq # tx[d].found.seq \/ tx[d].new = tx[d].found
        /\ tx[d].pc = "written" /\ tx[d].kind = "progress" =>
              /\ \/ tx[d].new.percentage >= tx[d].report.percentage
                 \/ tx[d].new.epoch > tx[d].report.observedEpoch
              /\ tx[d].found.seq > 0 =>
                    /\ AtLeast(tx[d].new, tx[d].found)
                    /\ \/ tx[d].new = tx[d].found
                       \/ tx[d].report.override
                       \/ Seen(tx[d].found, tx[d].report)

\* The trigger numbers every write, committed or not, from sync_seq: a number is
\* given once.
Numbered(d) == tx[d].pc = "written" /\ tx[d].new.seq # tx[d].found.seq

NumbersAreUnique ==
    /\ \A r \in Rows : row[r].seq < nextSeq
    /\ \A r, q \in Rows : Exists(r) /\ row[r].seq = row[q].seq => r = q
    /\ \A d \in Readers : Numbered(d) =>
          /\ tx[d].new.seq < nextSeq
          /\ \A r \in Rows : tx[d].new.seq # row[r].seq
          /\ \A e \in Readers \ {d} : Numbered(e) => tx[e].new.seq # tx[d].new.seq

\* What holds in every state, whatever reports, overrides, bookmarks and pulls
\* of whatever devices overlap (device_sync.go, reading_sync_repository.go).
SyncInvariant ==
    SyncTypeOK /\ LocksHold /\ DecisionsAreSound /\ NumbersAreUnique /\ LimitSkipsNothing

\* What the comment on the floor of since says: the device has consumed every
\* row up to its stored cursor.  So when the cursor moves, and not over the
\* device's own write, the answer that carries the rows reaches the device.
ConsumedUpToCursor ==
    [][\A d \in Devices : cursor'[d] > cursor[d] /\ row' = row => since'[d] >= cursor'[d]]_svars

\* What the comment on the watermark gate says: no write that is numbered below
\* another device's cursor is still to be committed, so no cursor passes a row
\* before it can be seen.
GateSkipsNothing ==
    [][\A d \in Devices, r \in Rows :
         row'[r] # row[r] /\ Exists(r)' /\ tx'[d] = tx[d] => row'[r].seq > cursor[d]]_svars

========
