------------------------ MODULE ImportPipelineProofs ------------------------
(***************************************************************************)
(* Proofs about the import pipeline for every number of sources, files,    *)
(* candidates, discoveries, executions of jobs and reviews.  The argument  *)
(* is about what a step keeps: the rows of the candidates (RowsKept), what *)
(* the jobs say of them (JobsKept) and the books of the library            *)
(* (BooksKept).  What each process knows of its candidate follows from the *)
(* first two, what the library promises from the third.                    *)
(***************************************************************************)
EXTENDS ImportPipeline, TLAPS

\* No candidate appears, and none changes its source or file.
RowsKept ==
    \A c \in Candidates : cand'[c] # None =>
        cand[c] # None /\ cand'[c].source = cand[c].source /\ cand'[c].file = cand[c].file

\* No candidate loses its metadata.
MetadataKept == \A c \in Candidates : cand'[c] # None /\ cand[c].meta => cand'[c].meta

\* No job appears or goes away, and none changes its source or file.
JobsKept ==
    \A c \in Candidates :
        /\ job'[c].state = "none" <=> job[c].state = "none"
        /\ job'[c].source = job[c].source
        /\ job'[c].file = job[c].file

\* No book of a source that stays leaves the library or its source.
BooksKept ==
    /\ sources' \subseteq sources
    /\ entries \subseteq entries'
    /\ \A o \in offerings : o.source \in sources' =>
         \E p \in offerings' : p.source = o.source /\ p.edition = o.edition

-----------------------------------------------------------------------------
(* What the processes know of their candidates. *)

\* A step that keeps rows and jobs keeps what the discoveries know.
LEMMA DiscoveriesUndisturbed ==
    ASSUME ImportInvariant, RowsKept, JobsKept, UNCHANGED <<discovery, raced>>
    PROVE  DiscoveriesOwnTheirIds' /\ LoneDiscovery'
<1>1. DiscoveriesOwnTheirIds'
  BY DEF ImportInvariant, DiscoveriesOwnTheirIds, RowsKept, JobsKept, Exists
<1>2. \A s, f : Seen(s, f)' => Seen(s, f) BY DEF RowsKept, Seen, Exists
<1>3. LoneDiscovery' BY <1>2 DEF ImportInvariant, LoneDiscovery
<1> QED BY <1>1, <1>3

\* A step that keeps rows and jobs keeps the jobs in step with the rows, and
\* proposes no file twice.
LEMMA RowsUndisturbed ==
    ASSUME ImportInvariant, RowsKept, JobsKept, UNCHANGED raced
    PROVE  /\ \A c \in Candidates :
                /\ job'[c].state # "none" => job'[c].source \in Sources /\ job'[c].file \in Files
                /\ cand'[c] # None => /\ job'[c].state # "none"
                                      /\ job'[c].source = cand'[c].source
                                      /\ job'[c].file = cand'[c].file
           /\ OneCandidatePerFile'
<1>1. OneCandidatePerFile' BY DEF ImportInvariant, OneCandidatePerFile, RowsKept, Exists
<1> QED BY <1>1 DEF ImportInvariant, JobsDescribeCandidates, RowsKept, JobsKept, Exists

\* A step that keeps rows, metadata and jobs keeps what the reviews know.
LEMMA ReviewsUndisturbed ==
    ASSUME ImportInvariant, RowsKept, MetadataKept, JobsKept, UNCHANGED <<discovery, review>>
    PROVE  ReviewsAreOfCandidates'
<1> SUFFICES ASSUME NEW v \in Reviews, review[v].at = "decide"
             PROVE  /\ review[v].cand \in Candidates
                    /\ review[v].read \in Row
                    /\ job'[review[v].cand].state # "none"
                    /\ job'[review[v].cand].source = review[v].read.source
                    /\ job'[review[v].cand].file = review[v].read.file
                    /\ cand'[review[v].cand] # None => cand'[review[v].cand].meta
                    /\ \A d \in Discoveries : discovery[d].at = "create" => discovery[d].cand # review[v].cand
  BY DEF ReviewsAreOfCandidates, Exists
<1>1. /\ review[v].cand \in Candidates
      /\ cand[review[v].cand] # None => cand[review[v].cand].meta
  BY DEF ImportInvariant, ReviewsAreOfCandidates, Exists
<1>2. cand'[review[v].cand] # None => cand[review[v].cand] # None BY <1>1 DEF RowsKept
<1>3. cand'[review[v].cand] # None => cand'[review[v].cand].meta
  BY <1>1, <1>2 DEF MetadataKept
<1> QED BY <1>1, <1>3 DEF ImportInvariant, ReviewsAreOfCandidates, JobsKept

\* A step that leaves the jobs and rows under review alone keeps what the reviews
\* know, as long as no discovery is about to create one of those rows.
ReviewsLeftAlone ==
    \A v \in Reviews : review[v].at = "decide" =>
        /\ job'[review[v].cand] = job[review[v].cand]
        /\ cand'[review[v].cand] = cand[review[v].cand]
        /\ \A o \in Discoveries :
              discovery'[o].at = "create" => discovery'[o].cand # review[v].cand

LEMMA ReviewsKeepTheirRows ==
    ASSUME ImportInvariant, ReviewsLeftAlone, UNCHANGED review
    PROVE  ReviewsAreOfCandidates'
<1>1. \A v \in Reviews : review[v].at = "decide" =>
         /\ review[v].cand \in Candidates
         /\ review[v].read \in Row
         /\ job'[review[v].cand].state # "none"
         /\ job'[review[v].cand].source = review[v].read.source
         /\ job'[review[v].cand].file = review[v].read.file
         /\ cand'[review[v].cand] # None => cand'[review[v].cand].meta
  BY DEF ImportInvariant, ReviewsAreOfCandidates, ReviewsLeftAlone, Exists
<1> QED BY <1>1 DEF ReviewsAreOfCandidates, ReviewsLeftAlone, Exists

\* A step after which the discoveries have the sources and files they had, and
\* after which the same files have candidates, keeps lone discoveries alone.
DiscoveriesAlike ==
    /\ \A s, f : Seen(s, f)' <=> Seen(s, f)
    /\ \A o \in Discoveries :
          /\ discovery'[o].source = discovery[o].source /\ discovery'[o].file = discovery[o].file
          /\ discovery'[o].at = "idle" <=> discovery[o].at = "idle"
          /\ discovery'[o].at \in {"enqueue", "create"} <=> discovery[o].at \in {"enqueue", "create"}

LEMMA LoneDiscoveriesStay ==
    ASSUME ImportInvariant, DiscoveriesAlike, UNCHANGED raced
    PROVE  LoneDiscovery'
<1> SUFFICES ASSUME ~raced PROVE LoneDiscovery' BY DEF LoneDiscovery
<1>1. \A o \in Discoveries : discovery'[o].at # "idle" =>
         \A p \in Discoveries : discovery'[p].source = discovery'[o].source => p = o
  BY DEF ImportInvariant, LoneDiscovery, DiscoveriesAlike
<1>2. \A o \in Discoveries :
         discovery'[o].at # "idle" /\ discovery'[o].at \in {"enqueue", "create"} =>
            ~Seen(discovery'[o].source, discovery'[o].file)
  BY DEF ImportInvariant, LoneDiscovery, DiscoveriesAlike
<1>3. \A s, f : Seen(s, f)' <=> Seen(s, f) BY DEF DiscoveriesAlike
<1> QED BY <1>1, <1>2, <1>3 DEF LoneDiscovery, Seen

-----------------------------------------------------------------------------
(* What the library promises. *)

\* New editions stay whole in a step that keeps jobs and books and makes none.
LEMMA WholeBooksStayWhole ==
    ASSUME ImportInvariant, JobsKept, BooksKept, UNCHANGED madeFor
    PROVE  NoHalfImport'
<1> SUFFICES ASSUME NEW e \in NewEditions, madeFor[e] # None
             PROVE  /\ e \in entries'
                    /\ job'[madeFor[e]].source \in sources' =>
                         \E o \in offerings' : o.edition = e /\ o.source = job'[madeFor[e]].source
  BY DEF NoHalfImport
<1>1. madeFor[e] \in Candidates BY DEF ImportInvariant, TypeOK
<1>2. job'[madeFor[e]].source = job[madeFor[e]].source BY <1>1 DEF JobsKept
<1>3. /\ e \in entries
      /\ job[madeFor[e]].source \in sources =>
           \E o \in offerings : o.edition = e /\ o.source = job[madeFor[e]].source
  BY DEF ImportInvariant, NoHalfImport
<1> QED BY <1>2, <1>3 DEF BooksKept

\* An imported candidate keeps its book in a step that keeps rows and books and
\* imports nothing else than what it provides with a book.
LEMMA ImportedStaysOwned ==
    ASSUME ImportInvariant, RowsKept, BooksKept,
           \A c \in Candidates : cand'[c] # None => cand'[c].source \in sources',
           \A c \in Candidates : cand'[c] # None /\ cand'[c].status \in Imported =>
              \/ cand[c].status \in Imported
              \/ \E o \in offerings' : o.source = cand'[c].source /\ o.edition \in entries'
    PROVE  ImportedIsOwned'
<1> SUFFICES ASSUME NEW c \in Candidates, cand'[c] # None, cand'[c].status \in Imported,
                    cand[c].status \in Imported
             PROVE  \E o \in offerings' : o.source = cand'[c].source /\ o.edition \in entries'
  BY DEF ImportedIsOwned, Exists
<1>1. cand[c] # None /\ cand'[c].source = cand[c].source BY DEF RowsKept
<1>2. PICK o \in offerings : o.source = cand[c].source /\ o.edition \in entries
  BY <1>1 DEF ImportInvariant, ImportedIsOwned, Exists
<1> QED BY <1>1, <1>2 DEF BooksKept

-----------------------------------------------------------------------------
(* The statements. *)

\* UPDATE import_candidates: one row changes, in its status and its metadata only.
LEMMA RowChanges ==
    ASSUME TypeOK, NEW c \in Candidates, Exists(c), NEW status \in Status, NEW q,
           \/ q = [cand[c] EXCEPT !.status = status]
           \/ q = [cand[c] EXCEPT !.status = status, !.meta = TRUE],
           cand' = [cand EXCEPT ![c] = q]
    PROVE  /\ cand' \in [Candidates -> Row \cup {None}]
           /\ RowsKept
           /\ MetadataKept
           /\ cand'[c].status = status
           /\ \A d \in Candidates \ {c} : cand'[d] = cand[d]
<1>1. cand \in [Candidates -> Row \cup {None}] /\ cand[c] \in Row BY DEF TypeOK, Exists
<1>2. q \in Row BY <1>1, Zenon DEF Row
<1>3. q.source = cand[c].source /\ q.file = cand[c].file /\ q.status = status BY <1>1, Zenon DEF Row
<1>4. cand[c].meta => q.meta BY <1>1, Zenon DEF Row
<1>5. cand'[c] = q /\ \A d \in Candidates \ {c} : cand'[d] = cand[d] BY <1>1
<1>6. cand' \in [Candidates -> Row \cup {None}] BY <1>1, <1>2
<1>7. RowsKept BY <1>3, <1>5 DEF RowsKept, Exists
<1>8. MetadataKept
  <2> SUFFICES ASSUME NEW d \in Candidates, cand[d].meta PROVE cand'[d].meta BY DEF MetadataKept
  <2>1. CASE d = c BY <1>4, <1>5, <2>1
  <2>2. CASE d # c BY <1>5, <2>2
  <2> QED BY <2>1, <2>2
<1> QED BY <1>3, <1>5, <1>6, <1>7, <1>8

LEMMA UpdateStatusKeeps ==
    ASSUME TypeOK, NEW c \in Candidates, NEW status \in Status, UpdateStatus(c, status)
    PROVE  /\ cand' \in [Candidates -> Row \cup {None}]
           /\ RowsKept
           /\ MetadataKept
           /\ cand'[c].status = status
           /\ \A d \in Candidates \ {c} : cand'[d] = cand[d]
<1>1. PICK q : q = [cand[c] EXCEPT !.status = status] BY Zenon
<1>2. cand' = [cand EXCEPT ![c] = q] /\ Exists(c) BY <1>1 DEF UpdateStatus
<1> QED BY <1>1, <1>2, RowChanges, Zenon

\* A step that leaves the books alone keeps what the library promises, as long
\* as the one row it changes is not made an imported one.
LEMMA BooksLeftAlone ==
    ASSUME ImportInvariant, RowsKept, JobsKept, UNCHANGED <<sources, offerings, madeFor, entries>>,
           NEW c \in Candidates, \A d \in Candidates \ {c} : cand'[d] = cand[d],
           cand'[c] = cand[c] \/ cand'[c].status \notin Imported
    PROVE  ImportedIsOwned' /\ NoHalfImport' /\ NothingOfARemovedSource'
<1>1. BooksKept BY DEF BooksKept
<1>2. NothingOfARemovedSource'
  BY DEF ImportInvariant, NothingOfARemovedSource, RowsKept, Exists
<1>3. ImportedIsOwned'
  BY <1>1, <1>2, ImportedStaysOwned DEF NothingOfARemovedSource, Exists
<1> QED BY <1>1, <1>2, <1>3, WholeBooksStayWhole

\* The metadata of what is before a person, when one row changes.
LEMMA MetadataLeftAlone ==
    ASSUME ImportInvariant, NEW c \in Candidates,
           \A d \in Candidates \ {c} : cand'[d] = cand[d],
           \/ cand'[c] = cand[c]
           \/ cand'[c].status \notin {"pending", "confirmed", "rejected"}
           \/ cand'[c].meta
    PROVE  ReviewedHasMetadata'
<1> SUFFICES ASSUME NEW d \in Candidates, cand'[d] # None,
                    cand'[d].status \in {"pending", "confirmed", "rejected"}
             PROVE  cand'[d].meta
  BY DEF ReviewedHasMetadata, Exists
<1>1. CASE cand'[d] = cand[d] BY <1>1 DEF ImportInvariant, ReviewedHasMetadata, Exists
<1>2. CASE cand'[d] # cand[d] BY <1>2
<1> QED BY <1>1, <1>2

\* The transaction that ends an import keeps rows and books, and leaves its
\* candidate with a book.
LEMMA ImportIntoKeeps ==
    ASSUME ImportInvariant, UNCHANGED sources, NEW c \in Candidates, NEW e \in Editions,
           NEW s, NEW f, s = job[c].source, f = job[c].file, job[c].state # "none",
           NEW status \in Imported, ImportInto(c, s, f, e, status)
    PROVE  /\ cand' \in [Candidates -> Row \cup {None}]
           /\ offerings' \subseteq Offering
           /\ entries' \subseteq Editions
           /\ RowsKept /\ MetadataKept /\ BooksKept
           /\ cand'[c].status = status
           /\ \A d \in Candidates \ {c} : cand'[d] = cand[d]
           /\ ImportedIsOwned' /\ NothingOfARemovedSource'
           /\ e \in entries'
           /\ \E o \in offerings' : o.edition = e /\ o.source = s
<1>1. TypeOK /\ s \in Sources /\ f \in Files
  BY DEF ImportInvariant, JobsDescribeCandidates
<1>2. status \in Status BY DEF Imported, Status
<1>3. UpdateStatus(c, status) /\ s \in sources /\ entries' = entries \cup {e} /\ offerings' = Offered(s, e, f)
  BY DEF ImportInto, AddEntry
<1>4. /\ cand' \in [Candidates -> Row \cup {None}]
      /\ RowsKept /\ MetadataKept
      /\ cand'[c].status = status
      /\ \A d \in Candidates \ {c} : cand'[d] = cand[d]
  BY <1>1, <1>2, <1>3, UpdateStatusKeeps
<1>5. PICK n : n = [source |-> s, edition |-> e, file |-> f] BY Zenon
<1>6. n \in Offering /\ n.source = s /\ n.edition = e BY <1>1, <1>5 DEF Offering
<1>7. offerings' = {o \in offerings : o.source # s \/ o.edition # e} \cup {n}
  BY <1>3, <1>5 DEF Offered
<1>8. offerings' \subseteq Offering /\ entries' \subseteq Editions
  BY <1>1, <1>3, <1>6, <1>7 DEF TypeOK
<1>9. BooksKept BY <1>3, <1>6, <1>7 DEF BooksKept
<1>10. \E o \in offerings' : o.edition = e /\ o.source = s BY <1>6, <1>7
<1>11. NothingOfARemovedSource'
  BY <1>3, <1>4, <1>6, <1>7 DEF ImportInvariant, NothingOfARemovedSource, RowsKept, Exists
<1>12. cand'[c] # None => cand'[c].source = s
  BY <1>4 DEF RowsKept, ImportInvariant, JobsDescribeCandidates, Exists
<1>13. ImportedIsOwned'
  BY <1>3, <1>4, <1>9, <1>10, <1>11, <1>12, ImportedStaysOwned DEF NothingOfARemovedSource, Exists
<1> QED BY <1>3, <1>4, <1>8, <1>9, <1>10, <1>11, <1>13

-----------------------------------------------------------------------------
(* The executions of import jobs. *)

\* Rows, runs and new editions keep their jobs in a step that keeps rows and
\* jobs, and starts runs and makes editions only for candidates with a job.
LEMMA JobsStillDescribe ==
    ASSUME ImportInvariant, RowsKept, JobsKept, UNCHANGED raced,
           \A x \in Runs : run'[x].at # "idle" =>
              run'[x].cand \in Candidates /\ job[run'[x].cand].state # "none",
           \A e \in NewEditions : madeFor'[e] # None =>
              madeFor'[e] \in Candidates /\ job[madeFor'[e]].state # "none"
    PROVE  JobsDescribeCandidates' /\ OneCandidatePerFile'
<1>1. \A x \in Runs : run'[x].at # "idle" =>
         run'[x].cand \in Candidates /\ job'[run'[x].cand].state # "none"
  BY DEF JobsKept
<1>2. \A e \in NewEditions : madeFor'[e] # None => job'[madeFor'[e]].state # "none" BY DEF JobsKept
<1> QED BY <1>1, <1>2, RowsUndisturbed DEF JobsDescribeCandidates, Exists

\* What is known of the runs and the new editions of a state.
LEMMA HaveJobs ==
    ASSUME ImportInvariant
    PROVE  /\ \A x \in Runs : run[x].at # "idle" =>
                run[x].cand \in Candidates /\ job[run[x].cand].state # "none"
           /\ \A e \in NewEditions : madeFor[e] # None =>
                madeFor[e] \in Candidates /\ job[madeFor[e]].state # "none"
BY DEF ImportInvariant, TypeOK, JobsDescribeCandidates

\* The queue's answer to the end of a run keeps what the jobs say.
LEMMA SettleKeeps ==
    ASSUME ImportInvariant, NEW x \in Runs, run[x].at # "idle", NEW retry \in BOOLEAN, Settle(x, retry)
    PROVE  /\ job' \in [Candidates -> JobRow]
           /\ run' \in [Runs -> Execution]
           /\ JobsKept
           /\ \A y \in Runs : run'[y].at # "idle" => run'[y] = run[y]
<1>0. /\ job \in [Candidates -> JobRow] /\ run \in [Runs -> Execution]
      /\ run[x].cand \in Candidates /\ job[run[x].cand].state # "none"
  BY HaveJobs DEF ImportInvariant, TypeOK
<1>1. run' = [run EXCEPT ![x] = IdleRun] /\ IdleRun \in Execution /\ IdleRun.at = "idle"
  BY DEF Settle, IdleRun, Execution
<1>2. run' \in [Runs -> Execution] /\ \A y \in Runs : run'[y].at # "idle" => run'[y] = run[y]
  BY <1>0, <1>1
<1>3. PICK q : q = [job[run[x].cand] EXCEPT !.run = None, !.state = IF retry THEN "ready" ELSE "done"]
  OBVIOUS
<1>4. /\ q \in JobRow /\ q.state # "none"
      /\ q.source = job[run[x].cand].source /\ q.file = job[run[x].cand].file
  BY <1>0, <1>3, Zenon DEF JobRow
<1>5. job' = job \/ job' = [job EXCEPT ![run[x].cand] = q] BY <1>3 DEF Settle
<1>6. job' \in [Candidates -> JobRow] /\ JobsKept BY <1>0, <1>4, <1>5 DEF JobsKept
<1> QED BY <1>2, <1>6

\* A step of a run that keeps rows, jobs and books keeps the invariant.
LEMMA RunStep ==
    ASSUME ImportInvariant,
           RowsKept, MetadataKept, JobsKept,
           cand' \in [Candidates -> Row \cup {None}], offerings' \subseteq Offering,
           entries' \subseteq Editions, job' \in [Candidates -> JobRow], run' \in [Runs -> Execution],
           \A y \in Runs : run'[y].at # "idle" =>
              run'[y].cand \in Candidates /\ job[run'[y].cand].state # "none",
           ImportedIsOwned', NoHalfImport', NothingOfARemovedSource', ReviewedHasMetadata',
           UNCHANGED <<sources, madeFor, discovery, review, raced>>
    PROVE  ImportInvariant'
<1>1. TypeOK' BY DEF ImportInvariant, TypeOK
<1>2. DiscoveriesOwnTheirIds' /\ LoneDiscovery' BY DiscoveriesUndisturbed
<1>3. JobsDescribeCandidates' /\ OneCandidatePerFile' BY HaveJobs, JobsStillDescribe
<1>4. ReviewsAreOfCandidates' BY ReviewsUndisturbed
<1> QED BY <1>1, <1>2, <1>3, <1>4 DEF ImportInvariant

\* A step of a run that writes no row.
LEMMA RunReads ==
    ASSUME ImportInvariant, JobsKept, job' \in [Candidates -> JobRow], run' \in [Runs -> Execution],
           \A y \in Runs : run'[y].at # "idle" =>
              run'[y].cand \in Candidates /\ job[run'[y].cand].state # "none",
           UNCHANGED <<db, discovery, review, raced>>
    PROVE  ImportInvariant'
<1>1. RowsKept /\ MetadataKept /\ BooksKept BY DEF db, RowsKept, MetadataKept, BooksKept
<1>2. /\ cand' \in [Candidates -> Row \cup {None}] /\ offerings' \subseteq Offering
      /\ entries' \subseteq Editions
  BY DEF db, ImportInvariant, TypeOK
<1>3. NoHalfImport' BY <1>1, WholeBooksStayWhole DEF db
<1>4. ImportedIsOwned' /\ NothingOfARemovedSource' /\ ReviewedHasMetadata'
  BY DEF db, ImportInvariant, ImportedIsOwned, NothingOfARemovedSource, ReviewedHasMetadata, Exists
<1> QED BY <1>1, <1>2, <1>3, <1>4, RunStep DEF db

\* Each step of an execution of an import job keeps the invariant.
LEMMA ImportKeeps ==
    ASSUME ImportInvariant, NEW x \in Runs, Import(x)
    PROVE  ImportInvariant'
<1>0. /\ TypeOK /\ run \in [Runs -> Execution] /\ job \in [Candidates -> JobRow]
      /\ \A y \in Runs : run[y].at # "idle" =>
           run[y].cand \in Candidates /\ job[run[y].cand].state # "none"
  BY HaveJobs DEF ImportInvariant, TypeOK
<1>1. ASSUME NEW c \in Candidates, RunBegin(x, c) PROVE ImportInvariant'
  <2>1. PICK j : j = [job[c] EXCEPT !.tries = job[c].tries + 1, !.run = x] OBVIOUS
  <2>2. PICK q : q = [at |-> "resolve", cand |-> c, hit |-> None] BY Zenon
  <2>3. job' = [job EXCEPT ![c] = j] /\ run' = [run EXCEPT ![x] = q] /\ job[c].state = "ready"
    BY <1>1, <2>1, <2>2 DEF RunBegin
  <2>4. q \in Execution /\ q.cand = c BY <2>2 DEF Execution
  <2>5. job[c] \in JobRow /\ job[c].tries < MaxTries BY <1>0, <1>1 DEF RunBegin
  <2>6. j \in JobRow /\ j.state = job[c].state /\ j.source = job[c].source /\ j.file = job[c].file
    <3>1. job[c].tries + 1 \in 0..MaxTries BY <2>5, ImportAssumption DEF JobRow
    <3> QED BY <2>1, <2>5, <3>1, Zenon DEF JobRow
  <2>7. JobsKept /\ job' \in [Candidates -> JobRow] BY <1>0, <2>3, <2>6 DEF JobsKept
  <2>8. /\ run' \in [Runs -> Execution]
        /\ \A y \in Runs : run'[y].at # "idle" =>
              run'[y].cand \in Candidates /\ job[run'[y].cand].state # "none"
    BY <1>0, <2>3, <2>4
  <2> QED BY <1>1, <2>7, <2>8, RunReads DEF RunBegin
<1>2. ASSUME NEW q \in Execution, run[x].at # "idle", q.cand = run[x].cand,
             run' = [run EXCEPT ![x] = q], UNCHANGED <<db, job, discovery, review, raced>>
      PROVE  ImportInvariant'
  <2>1. JobsKept BY <1>2 DEF JobsKept
  <2>2. /\ run' \in [Runs -> Execution]
        /\ \A y \in Runs : run'[y].at # "idle" =>
              run'[y].cand \in Candidates /\ job[run'[y].cand].state # "none"
    BY <1>0, <1>2
  <2> QED BY <1>0, <1>2, <2>1, <2>2, RunReads
<1>3. ASSUME Extract(x) PROVE ImportInvariant'
  <2>1. PICK q : q = [run[x] EXCEPT !.at = "match"] BY Zenon
  <2>2. q \in Execution /\ q.cand = run[x].cand BY <1>0, <2>1 DEF Execution
  <2>3. run' = [run EXCEPT ![x] = q] BY <1>3, <2>1 DEF Extract
  <2> QED BY <1>2, <1>3, <2>2, <2>3, Zenon DEF Extract
<1>4. ASSUME NEW hit \in Editions \cup {None}, Match(x, hit) PROVE ImportInvariant'
  <2>1. PICK q : q = [run[x] EXCEPT !.at = "persist", !.hit = hit] OBVIOUS
  <2>2. q \in Execution /\ q.cand = run[x].cand BY <1>0, <2>1, Zenon DEF Execution
  <2>3. run' = [run EXCEPT ![x] = q] BY <1>0, <1>4, <2>1, Zenon DEF Match
  <2> QED BY <1>2, <1>4, <2>2, <2>3, Zenon DEF Match
<1>5. ASSUME NEW retry \in BOOLEAN, run[x].at # "idle", Settle(x, retry)
      PROVE  /\ job' \in [Candidates -> JobRow] /\ run' \in [Runs -> Execution] /\ JobsKept
             /\ \A y \in Runs : run'[y].at # "idle" =>
                  run'[y].cand \in Candidates /\ job[run'[y].cand].state # "none"
  BY <1>0, <1>5, SettleKeeps
<1>6. ASSUME AutoImport(x) PROVE ImportInvariant'
  <2>1. PICK c : c = run[x].cand OBVIOUS
  <2>2. /\ run[x].at # "idle" /\ run[x].hit \in Editions /\ c \in Candidates /\ job[c].state # "none"
        /\ Settle(x, FALSE) /\ UNCHANGED <<sources, madeFor, discovery, review, raced>>
        /\ ImportInto(c, job[c].source, job[c].file, run[x].hit, "auto_imported")
    BY <1>0, <1>6, <2>1, Zenon DEF AutoImport, Execution
  <2>3. "auto_imported" \in Imported BY DEF Imported
  <2>4. /\ cand' \in [Candidates -> Row \cup {None}]
        /\ offerings' \subseteq Offering /\ entries' \subseteq Editions
        /\ RowsKept /\ MetadataKept /\ BooksKept
        /\ cand'[c].status = "auto_imported"
        /\ \A d \in Candidates \ {c} : cand'[d] = cand[d]
        /\ ImportedIsOwned' /\ NothingOfARemovedSource'
    BY <2>2, <2>3, ImportIntoKeeps
  <2>5. ReviewedHasMetadata' BY <2>2, <2>4, MetadataLeftAlone
  <2>6. NoHalfImport' BY <1>5, <2>2, <2>4, WholeBooksStayWhole, Zenon
  <2> QED BY <1>5, <2>2, <2>4, <2>5, <2>6, RunStep, Zenon
<1>7. ASSUME Propose(x) PROVE ImportInvariant'
  <2>1. PICK c : c = run[x].cand OBVIOUS
  <2>2. PICK q : q = [cand[c] EXCEPT !.status = "pending", !.meta = TRUE] OBVIOUS
  <2>3. /\ run[x].at # "idle" /\ c \in Candidates /\ Exists(c) /\ Settle(x, FALSE)
        /\ cand' = [cand EXCEPT ![c] = q]
        /\ UNCHANGED <<sources, offerings, madeFor, entries, discovery, review, raced>>
    BY <1>0, <1>7, <2>1, <2>2, Zenon DEF Propose, UpdateExtractedAndMatches
  <2>4. "pending" \in Status /\ "pending" \notin Imported BY DEF Status, Imported
  <2>5. /\ cand' \in [Candidates -> Row \cup {None}] /\ RowsKept /\ MetadataKept
        /\ cand'[c].status = "pending"
        /\ \A d \in Candidates \ {c} : cand'[d] = cand[d]
    BY <1>0, <2>2, <2>3, <2>4, RowChanges, Zenon
  <2>6. cand'[c] = q BY <1>0, <2>3 DEF TypeOK
  <2>7. cand[c] \in Row BY <1>0, <2>3 DEF TypeOK, Exists
  <2>8. q.meta BY <2>2, <2>7 DEF Row
  <2>9. ReviewedHasMetadata' BY <2>3, <2>5, <2>6, <2>8, MetadataLeftAlone
  <2>10. ImportedIsOwned' /\ NoHalfImport' /\ NothingOfARemovedSource'
    BY <1>5, <2>3, <2>4, <2>5, BooksLeftAlone, Zenon
  <2>11. offerings' \subseteq Offering /\ entries' \subseteq Editions BY <1>0, <2>3 DEF TypeOK
  <2> QED BY <1>5, <2>3, <2>5, <2>9, <2>10, <2>11, RunStep, Zenon
<1>8. ASSUME RunFails(x) PROVE ImportInvariant'
  <2>1. PICK retry \in BOOLEAN : Settle(x, retry) BY <1>8 DEF RunFails
  <2>2. PICK c : c = run[x].cand OBVIOUS
  <2>3. /\ run[x].at # "idle" /\ c \in Candidates /\ UpdateFailed(c)
        /\ UNCHANGED <<sources, offerings, madeFor, entries, discovery, review, raced>>
    BY <1>0, <1>8, <2>2 DEF RunFails
  <2>4. CASE UNCHANGED cand BY <1>5, <2>1, <2>3, <2>4, RunReads DEF db
  <2>5. CASE Exists(c) /\ cand' = [cand EXCEPT ![c].status = "failed"]
    <3>1. "failed" \in Status /\ "failed" \notin Imported BY DEF Status, Imported
    <3>2. UpdateStatus(c, "failed") BY <2>5 DEF UpdateStatus
    <3>3. /\ cand' \in [Candidates -> Row \cup {None}] /\ RowsKept /\ MetadataKept
          /\ cand'[c].status = "failed"
          /\ \A d \in Candidates \ {c} : cand'[d] = cand[d]
      BY <1>0, <2>3, <3>1, <3>2, UpdateStatusKeeps
    <3>4. ReviewedHasMetadata' BY <2>3, <3>3, MetadataLeftAlone
    <3>5. ImportedIsOwned' /\ NoHalfImport' /\ NothingOfARemovedSource'
      BY <1>5, <2>1, <2>3, <3>1, <3>3, BooksLeftAlone
    <3>6. offerings' \subseteq Offering /\ entries' \subseteq Editions BY <1>0, <2>3 DEF TypeOK
    <3> QED BY <1>5, <2>1, <2>3, <3>3, <3>4, <3>5, <3>6, RunStep
  <2> QED BY <2>3, <2>4, <2>5 DEF UpdateFailed
<1>9. ASSUME RunDies(x) PROVE ImportInvariant'
  BY <1>5, <1>9, RunReads, Zenon DEF RunDies
<1> QED BY <1>1, <1>3, <1>4, <1>6, <1>7, <1>8, <1>9 DEF Import

-----------------------------------------------------------------------------
(* The reviews, and the removal of a source. *)

\* Each step of a confirm or reject request keeps the invariant.
LEMMA ReviewKeeps ==
    ASSUME ImportInvariant, NEW v \in Reviews, Review(v)
    PROVE  ImportInvariant'
<1>0. /\ TypeOK /\ review \in [Reviews -> ReviewRequest]
      /\ job \in [Candidates -> JobRow] /\ madeFor \in [NewEditions -> Candidates \cup {None}]
  BY DEF ImportInvariant, TypeOK
<1>1. ASSUME NEW c \in Candidates, ReviewRead(v, c) PROVE ImportInvariant'
  <2>1. PICK q : q = [at |-> "decide", cand |-> c, read |-> cand[c]] BY Zenon
  <2>2. /\ review' = [review EXCEPT ![v] = q] /\ cand[c] # None /\ cand[c].status = "pending"
        /\ UNCHANGED <<sources, cand, offerings, madeFor, entries, job, discovery, run, raced>>
    BY <1>1, <2>1 DEF ReviewRead, Exists, db
  <2>3. cand[c] \in Row BY <1>0, <2>2 DEF TypeOK
  <2>4. q \in ReviewRequest /\ q.cand = c /\ q.read = cand[c] /\ q.at = "decide"
    BY <2>1, <2>3 DEF ReviewRequest
  <2>5. review' \in [Reviews -> ReviewRequest] /\ review'[v] = q
        /\ \A w \in Reviews \ {v} : review'[w] = review[w]
    BY <1>0, <2>2, <2>4
  <2>6. TypeOK' BY <1>0, <2>2, <2>5 DEF TypeOK
  <2>7. cand[c].meta BY <2>2 DEF ImportInvariant, ReviewedHasMetadata, Exists
  <2>8. job[c].state # "none" /\ job[c].source = cand[c].source /\ job[c].file = cand[c].file
    BY <2>2 DEF ImportInvariant, JobsDescribeCandidates, Exists
  <2>9. \A d \in Discoveries : discovery[d].at = "create" => discovery[d].cand # c
    BY <2>2 DEF ImportInvariant, DiscoveriesOwnTheirIds, Exists
  <2>10. ReviewsAreOfCandidates'
    <3> SUFFICES ASSUME NEW w \in Reviews, review'[w].at = "decide"
                 PROVE  /\ review'[w].cand \in Candidates
                        /\ review'[w].read \in Row
                        /\ job[review'[w].cand].state # "none"
                        /\ job[review'[w].cand].source = review'[w].read.source
                        /\ job[review'[w].cand].file = review'[w].read.file
                        /\ cand[review'[w].cand] # None => cand[review'[w].cand].meta
                        /\ \A d \in Discoveries :
                              discovery[d].at = "create" => discovery[d].cand # review'[w].cand
      BY <2>2 DEF ReviewsAreOfCandidates, Exists
    <3>1. CASE w = v BY <2>3, <2>4, <2>5, <2>7, <2>8, <2>9, <3>1
    <3>2. CASE w # v BY <2>5, <3>2 DEF ImportInvariant, ReviewsAreOfCandidates, Exists
    <3> QED BY <3>1, <3>2
  <2>11. RowsKept /\ JobsKept BY <2>2 DEF RowsKept, JobsKept
  <2>12. DiscoveriesOwnTheirIds' /\ LoneDiscovery' BY <2>2, <2>11, DiscoveriesUndisturbed
  <2>13. JobsDescribeCandidates' /\ OneCandidatePerFile' BY <2>2, <2>11, HaveJobs, JobsStillDescribe
  <2>14. ImportedIsOwned' /\ NoHalfImport' /\ NothingOfARemovedSource' /\ ReviewedHasMetadata'
    BY <2>2 DEF ImportInvariant, ImportedIsOwned, NoHalfImport, NothingOfARemovedSource,
                ReviewedHasMetadata, Exists
  <2> QED BY <2>6, <2>10, <2>12, <2>13, <2>14 DEF ImportInvariant
\* A decision: what it is to show of the rows, the books and the new editions.
<1>2. ASSUME ReviewDone(v), RowsKept, MetadataKept, cand' \in [Candidates -> Row \cup {None}],
             offerings' \subseteq Offering, entries' \subseteq Editions,
             madeFor' \in [NewEditions -> Candidates \cup {None}],
             \A e \in NewEditions : madeFor'[e] # None => job[madeFor'[e]].state # "none",
             ImportedIsOwned', NoHalfImport', NothingOfARemovedSource', ReviewedHasMetadata'
      PROVE  ImportInvariant'
  <2>1. review' = [review EXCEPT ![v] = IdleReview] /\ UNCHANGED <<sources, job, discovery, run, raced>>
    BY <1>2 DEF ReviewDone
  <2>2. IdleReview \in ReviewRequest /\ IdleReview.at = "idle" BY DEF IdleReview, ReviewRequest
  <2>3. /\ review' \in [Reviews -> ReviewRequest]
        /\ \A w \in Reviews : review'[w].at = "decide" => review'[w] = review[w]
    BY <1>0, <2>1, <2>2
  <2>4. TypeOK' BY <1>0, <1>2, <2>1, <2>3 DEF TypeOK
  <2>5. JobsKept BY <2>1, Zenon DEF JobsKept
  <2>6. DiscoveriesOwnTheirIds' /\ LoneDiscovery' BY <1>2, <2>1, <2>5, DiscoveriesUndisturbed
  <2>7. JobsDescribeCandidates' /\ OneCandidatePerFile'
    BY <1>2, <2>1, <2>5, HaveJobs, JobsStillDescribe
  <2>8. ReviewsAreOfCandidates'
    <3> SUFFICES ASSUME NEW w \in Reviews, review'[w].at = "decide"
                 PROVE  /\ review'[w].cand \in Candidates
                        /\ review'[w].read \in Row
                        /\ job[review'[w].cand].state # "none"
                        /\ job[review'[w].cand].source = review'[w].read.source
                        /\ job[review'[w].cand].file = review'[w].read.file
                        /\ cand'[review'[w].cand] # None => cand'[review'[w].cand].meta
                        /\ \A d \in Discoveries :
                              discovery[d].at = "create" => discovery[d].cand # review'[w].cand
      BY <2>1 DEF ReviewsAreOfCandidates, Exists
    <3>1. review'[w] = review[w] /\ review[w].at = "decide" BY <2>3
    <3>2. review[w].cand \in Candidates /\ (cand[review[w].cand] # None => cand[review[w].cand].meta)
      BY <3>1 DEF ImportInvariant, ReviewsAreOfCandidates, Exists
    <3>3. cand'[review[w].cand] # None => cand'[review[w].cand].meta
      BY <1>2, <3>2 DEF RowsKept, MetadataKept
    <3> QED BY <3>1, <3>3, SMTT(30) DEF ImportInvariant, ReviewsAreOfCandidates
  <2> QED BY <1>2, <2>4, <2>6, <2>7, <2>8 DEF ImportInvariant
<1>3. ASSUME ReviewDone(v)
      PROVE  /\ review[v].cand \in Candidates
             /\ job[review[v].cand].state # "none"
             /\ job[review[v].cand].source = review[v].read.source
             /\ job[review[v].cand].file = review[v].read.file
             /\ cand[review[v].cand] # None => cand[review[v].cand].meta
             /\ JobsKept
             /\ UNCHANGED <<sources, job>>
  BY <1>3 DEF ReviewDone, ImportInvariant, ReviewsAreOfCandidates, Exists, JobsKept
\* A confirmation, into an edition of the library or a new one.
<1>4. ASSUME NEW e \in Editions, ReviewDone(v),
             ImportInto(review[v].cand, review[v].read.source, review[v].read.file, e, "confirmed"),
             \/ UNCHANGED madeFor
             \/ e \in NewEditions /\ madeFor' = [madeFor EXCEPT ![e] = review[v].cand]
      PROVE  ImportInvariant'
  <2>1. PICK c : c = review[v].cand OBVIOUS
  <2>2. /\ c \in Candidates /\ job[c].state # "none" /\ JobsKept /\ UNCHANGED <<sources, job>>
        /\ ImportInto(c, job[c].source, job[c].file, e, "confirmed")
    BY <1>3, <1>4, <2>1
  <2>3. "confirmed" \in Imported BY DEF Imported
  <2>4. /\ cand' \in [Candidates -> Row \cup {None}]
        /\ offerings' \subseteq Offering /\ entries' \subseteq Editions
        /\ RowsKept /\ MetadataKept /\ BooksKept
        /\ cand'[c].status = "confirmed"
        /\ \A d \in Candidates \ {c} : cand'[d] = cand[d]
        /\ ImportedIsOwned' /\ NothingOfARemovedSource'
        /\ e \in entries'
        /\ \E o \in offerings' : o.edition = e /\ o.source = job[c].source
    BY <2>2, <2>3, ImportIntoKeeps
  <2>5. cand[c] # None BY <2>2 DEF ImportInto, UpdateStatus, Exists
  <2>6. cand[c].meta BY <1>3, <1>4, <2>1, <2>5
  <2>7. cand'[c] # None => cand'[c].meta BY <2>2, <2>4, <2>6 DEF MetadataKept
  <2>8. ReviewedHasMetadata'
    <3> SUFFICES ASSUME NEW d \in Candidates, cand'[d] # None,
                        cand'[d].status \in {"pending", "confirmed", "rejected"}
                 PROVE  cand'[d].meta
      BY DEF ReviewedHasMetadata, Exists
    <3>1. CASE d = c BY <2>7, <3>1
    <3>2. CASE d # c BY <2>4, <3>2 DEF ImportInvariant, ReviewedHasMetadata, Exists
    <3> QED BY <3>1, <3>2
  <2>9. /\ madeFor' \in [NewEditions -> Candidates \cup {None}]
        /\ \A n \in NewEditions : madeFor'[n] = madeFor[n] \/ (n = e /\ madeFor'[n] = c)
    BY <1>0, <1>4, <2>1, <2>2
  <2>10. \A n \in NewEditions : madeFor'[n] # None => job[madeFor'[n]].state # "none"
    BY <2>2, <2>9, HaveJobs
  <2>11. NoHalfImport'
    <3> SUFFICES ASSUME NEW n \in NewEditions, madeFor'[n] # None
                 PROVE  /\ n \in entries'
                        /\ job[madeFor'[n]].source \in sources =>
                             \E o \in offerings' : o.edition = n /\ o.source = job[madeFor'[n]].source
      BY <2>2 DEF NoHalfImport
    <3>1. CASE n = e /\ madeFor'[n] = c BY <2>4, <3>1, Zenon
    <3>2. CASE madeFor'[n] = madeFor[n]
      <4>1. /\ n \in entries
            /\ job[madeFor[n]].source \in sources =>
                 \E o \in offerings : o.edition = n /\ o.source = job[madeFor[n]].source
        BY <3>2 DEF ImportInvariant, NoHalfImport
      <4> QED BY <2>2, <2>4, <3>2, <4>1 DEF BooksKept
    <3> QED BY <2>9, <3>1, <3>2
  <2> QED BY <1>2, <1>4, <2>4, <2>8, <2>9, <2>10, <2>11
<1>5. ASSUME NEW e \in Editions, ConfirmAttachExisting(v, e) PROVE ImportInvariant'
  BY <1>4, <1>5 DEF ConfirmAttachExisting
<1>6. ASSUME NEW e \in NewEditions, ConfirmCreateNew(v, e) PROVE ImportInvariant'
  <2>1. e \in Editions BY DEF Editions
  <2> QED BY <1>4, <1>6, <2>1, Zenon DEF ConfirmCreateNew
<1>7. ASSUME Reject(v) PROVE ImportInvariant'
  <2>1. PICK c : c = review[v].cand OBVIOUS
  <2>2. /\ ReviewDone(v) /\ c \in Candidates /\ UpdateStatus(c, "rejected") /\ JobsKept
        /\ UNCHANGED <<sources, offerings, madeFor, entries>>
    BY <1>3, <1>7, <2>1 DEF Reject
  <2>3. "rejected" \in Status /\ "rejected" \notin Imported BY DEF Status, Imported
  <2>4. /\ cand' \in [Candidates -> Row \cup {None}] /\ RowsKept /\ MetadataKept
        /\ cand'[c].status = "rejected"
        /\ \A d \in Candidates \ {c} : cand'[d] = cand[d]
    BY <1>0, <2>2, <2>3, UpdateStatusKeeps
  <2>5. cand[c] # None BY <2>2 DEF UpdateStatus, Exists
  <2>6. cand[c].meta BY <1>3, <2>1, <2>2, <2>5
  <2>7. cand'[c] # None => cand'[c].meta BY <2>2, <2>4, <2>6 DEF MetadataKept
  <2>8. ReviewedHasMetadata'
    <3> SUFFICES ASSUME NEW d \in Candidates, cand'[d] # None,
                        cand'[d].status \in {"pending", "confirmed", "rejected"}
                 PROVE  cand'[d].meta
      BY DEF ReviewedHasMetadata, Exists
    <3>1. CASE d = c BY <2>7, <3>1
    <3>2. CASE d # c BY <2>4, <3>2 DEF ImportInvariant, ReviewedHasMetadata, Exists
    <3> QED BY <3>1, <3>2
  <2>9. ImportedIsOwned' /\ NoHalfImport' /\ NothingOfARemovedSource'
    BY <2>2, <2>3, <2>4, BooksLeftAlone
  <2>10. /\ offerings' \subseteq Offering /\ entries' \subseteq Editions
         /\ madeFor' \in [NewEditions -> Candidates \cup {None}]
         /\ \A e \in NewEditions : madeFor'[e] # None => job[madeFor'[e]].state # "none"
    BY <1>0, <2>2, HaveJobs DEF TypeOK
  <2> QED BY <1>2, <2>2, <2>4, <2>8, <2>9, <2>10, Zenon
<1>8. ASSUME ReviewFails(v) PROVE ImportInvariant'
  <2>1. ReviewDone(v) /\ UNCHANGED <<cand, offerings, madeFor, entries>> BY <1>8 DEF ReviewFails
  <2>2. UNCHANGED <<sources, job>> BY <1>3, <2>1
  <2>3. RowsKept /\ MetadataKept BY <2>1 DEF RowsKept, MetadataKept
  <2>4. /\ cand' \in [Candidates -> Row \cup {None}]
        /\ offerings' \subseteq Offering /\ entries' \subseteq Editions
        /\ madeFor' \in [NewEditions -> Candidates \cup {None}]
        /\ \A e \in NewEditions : madeFor'[e] # None => job[madeFor'[e]].state # "none"
    BY <1>0, <2>1, HaveJobs DEF TypeOK
  <2>5. ImportedIsOwned' /\ NoHalfImport' /\ NothingOfARemovedSource' /\ ReviewedHasMetadata'
    BY <2>1, <2>2 DEF ImportInvariant, ImportedIsOwned, NoHalfImport, NothingOfARemovedSource,
                      ReviewedHasMetadata, Exists
  <2> QED BY <1>2, <2>1, <2>3, <2>4, <2>5
<1> QED BY <1>1, <1>5, <1>6, <1>7, <1>8 DEF Review, ConfirmOpenLibraryMatch

\* Removing a source takes its rows and offerings with it, and keeps the invariant.
LEMMA RemoveSourceKeeps ==
    ASSUME ImportInvariant, NEW s \in Sources, RemoveSource(s)
    PROVE  ImportInvariant'
<1>1. /\ sources' = sources \ {s} /\ offerings' = {o \in offerings : o.source # s}
      /\ \A c \in Candidates : cand'[c] = IF cand[c] # None /\ cand[c].source = s THEN None ELSE cand[c]
      /\ cand' = [c \in Candidates |-> cand'[c]]
      /\ UNCHANGED <<madeFor, entries, job, discovery, run, review, raced>>
  BY DEF RemoveSource, Exists
<1>2. \A c \in Candidates : cand'[c] # None => cand'[c] = cand[c] /\ cand[c].source # s BY <1>1
<1>3. TypeOK' BY <1>1 DEF ImportInvariant, TypeOK
<1>4. RowsKept /\ JobsKept BY <1>1, <1>2 DEF RowsKept, JobsKept
<1>5. MetadataKept BY <1>2 DEF MetadataKept
<1>6. BooksKept BY <1>1 DEF BooksKept
<1>7. NothingOfARemovedSource' BY <1>1, <1>2 DEF ImportInvariant, NothingOfARemovedSource, Exists
<1>8. ImportedIsOwned'
  BY <1>2, <1>4, <1>6, <1>7, ImportedStaysOwned DEF NothingOfARemovedSource, Exists
<1>9. NoHalfImport' BY <1>1, <1>4, <1>6, WholeBooksStayWhole
<1>10. ReviewedHasMetadata' BY <1>2 DEF ImportInvariant, ReviewedHasMetadata, Exists
<1>11. DiscoveriesOwnTheirIds' /\ LoneDiscovery' BY <1>1, <1>4, DiscoveriesUndisturbed
<1>12. JobsDescribeCandidates' /\ OneCandidatePerFile' BY <1>1, <1>4, HaveJobs, JobsStillDescribe
<1>13. ReviewsAreOfCandidates' BY <1>1, <1>4, <1>5, ReviewsUndisturbed
<1> QED BY <1>3, <1>7, <1>8, <1>9, <1>10, <1>11, <1>12, <1>13 DEF ImportInvariant

-----------------------------------------------------------------------------
(* Discovery. *)

\* A step of a discovery that enqueues and creates nothing: what is to be shown
\* of the request it leaves.
LEMMA DiscoveryMoves ==
    ASSUME ImportInvariant, NEW d \in Discoveries, NEW q \in DiscoveryRequest,
           discovery' = [discovery EXCEPT ![d] = q], raced' \in BOOLEAN, raced => raced',
           q.at # "create", q.at = "idle" <=> q.source = None,
           q.at = "enqueue" => q.file \in Files /\ (raced' \/ ~Seen(q.source, q.file)),
           q.at = "idle" \/ q.source = discovery[d].source \/ raced'
              \/ \A o \in Discoveries : discovery[o].source # q.source,
           UNCHANGED <<db, job, run, review>>
    PROVE  ImportInvariant'
<1>0. discovery \in [Discoveries -> DiscoveryRequest] BY DEF ImportInvariant, TypeOK
<1>1. /\ discovery' \in [Discoveries -> DiscoveryRequest] /\ discovery'[d] = q
      /\ \A o \in Discoveries \ {d} : discovery'[o] = discovery[o]
  BY <1>0
<1>2. UNCHANGED <<sources, cand, offerings, madeFor, entries, job, run, review>> BY DEF db
<1>3. TypeOK' BY <1>1, <1>2, Zenon DEF ImportInvariant, TypeOK
<1>4. DiscoveriesOwnTheirIds' BY <1>1, <1>2, SMTT(30) DEF ImportInvariant, DiscoveriesOwnTheirIds, Exists
<1>5. \A s, f : Seen(s, f)' <=> Seen(s, f) BY <1>2, Zenon DEF Seen, Exists
<1>6. LoneDiscovery'
  <2> SUFFICES ASSUME ~raced', NEW o \in Discoveries, discovery'[o].at # "idle"
               PROVE  /\ \A p \in Discoveries : discovery'[p].source = discovery'[o].source => p = o
                      /\ discovery'[o].at \in {"enqueue", "create"} =>
                           ~Seen(discovery'[o].source, discovery'[o].file)
    BY <1>5 DEF LoneDiscovery
  <2>1. ~raced OBVIOUS
  <2>2. \A p \in Discoveries : discovery[p].at # "idle" =>
          /\ \A r \in Discoveries : discovery[r].source = discovery[p].source => r = p
          /\ discovery[p].at \in {"enqueue", "create"} => ~Seen(discovery[p].source, discovery[p].file)
    BY <2>1 DEF ImportInvariant, LoneDiscovery
  <2>3. \A p \in Discoveries : discovery[p].at = "idle" <=> discovery[p].source = None
    BY DEF ImportInvariant, DiscoveriesOwnTheirIds
  <2>4. CASE o = d
    <3>1. \A p \in Discoveries \ {d} : discovery[p].source # q.source BY <1>1, <2>2, <2>3, <2>4
    <3> QED BY <1>1, <2>4, <3>1
  <2>5. CASE o # d
    <3>1. discovery[o].at # "idle" /\ discovery[o].source # None /\ discovery'[o] = discovery[o]
      BY <1>1, <2>3, <2>5
    <3>2. q.source # discovery[o].source BY <2>2, <2>5, <3>1
    <3> QED BY <1>1, <2>2, <2>5, <3>1, <3>2
  <2> QED BY <2>4, <2>5
<1>7. JobsDescribeCandidates' BY <1>2 DEF ImportInvariant, JobsDescribeCandidates, Exists
<1>8. \A o \in Discoveries : discovery'[o].at = "create" => discovery'[o] = discovery[o] BY <1>1, Zenon
<1>9. ReviewsAreOfCandidates' BY <1>2, <1>8 DEF ImportInvariant, ReviewsAreOfCandidates, Exists
<1>10. ImportedIsOwned' /\ NoHalfImport' /\ NothingOfARemovedSource' /\ ReviewedHasMetadata'
  BY <1>2 DEF ImportInvariant, ImportedIsOwned, NoHalfImport, NothingOfARemovedSource,
              ReviewedHasMetadata, Exists
<1>11. OneCandidatePerFile' BY <1>2 DEF ImportInvariant, OneCandidatePerFile, Exists
<1> QED BY <1>3, <1>4, <1>6, <1>7, <1>9, <1>10, <1>11 DEF ImportInvariant

\* Enqueue: the id is fresh, so the job it gets is nobody else's.
LEMMA DiscoverEnqueueKeeps ==
    ASSUME ImportInvariant, NEW d \in Discoveries, NEW c \in Candidates, DiscoverEnqueue(d, c)
    PROVE  ImportInvariant'
<1>0. /\ discovery \in [Discoveries -> DiscoveryRequest] /\ job \in [Candidates -> JobRow]
  BY DEF ImportInvariant, TypeOK
<1>1. PICK q : q = [discovery[d] EXCEPT !.at = "create", !.cand = c] OBVIOUS
<1>2. PICK j : j = [job[c] EXCEPT !.state = "ready", !.source = discovery[d].source,
                                  !.file = discovery[d].file]
  OBVIOUS
<1>3. /\ discovery[d].at = "enqueue" /\ job[c].state = "none"
      /\ discovery' = [discovery EXCEPT ![d] = q] /\ job' = [job EXCEPT ![c] = j]
      /\ UNCHANGED <<sources, cand, offerings, madeFor, entries, run, review, raced>>
  BY <1>0, <1>1, <1>2, Zenon DEF DiscoverEnqueue, db
<1>4. discovery[d].source \in Sources /\ discovery[d].file \in Files
  BY <1>0, <1>3 DEF ImportInvariant, DiscoveriesOwnTheirIds, DiscoveryRequest
<1>5. /\ q \in DiscoveryRequest /\ q.at = "create" /\ q.cand = c
      /\ q.source = discovery[d].source /\ q.file = discovery[d].file
  BY <1>0, <1>1, Zenon DEF DiscoveryRequest
<1>6. /\ j \in JobRow /\ j.state = "ready"
      /\ j.source = discovery[d].source /\ j.file = discovery[d].file
  BY <1>0, <1>2, <1>4, Zenon DEF JobRow
<1>7. /\ discovery' \in [Discoveries -> DiscoveryRequest] /\ discovery'[d] = q
      /\ \A o \in Discoveries \ {d} : discovery'[o] = discovery[o]
      /\ job' \in [Candidates -> JobRow] /\ job'[c] = j
      /\ \A b \in Candidates \ {c} : job'[b] = job[b]
  BY <1>0, <1>3, <1>5, <1>6
<1>8. TypeOK' BY <1>3, <1>7, Zenon DEF ImportInvariant, TypeOK
<1>9. ~Exists(c) BY <1>3 DEF ImportInvariant, JobsDescribeCandidates
<1>10. \A o \in Discoveries : discovery[o].at = "create" => discovery[o].cand # c
  BY <1>3, Zenon DEF ImportInvariant, DiscoveriesOwnTheirIds
<1>11. DiscoveriesOwnTheirIds'
  <2> SUFFICES ASSUME NEW o \in Discoveries
               PROVE  /\ discovery'[o].at = "idle" <=> discovery'[o].source = None
                      /\ discovery'[o].at \in {"enqueue", "create"} => discovery'[o].file \in Files
                      /\ discovery'[o].at = "create" =>
                           /\ discovery'[o].cand \in Candidates
                           /\ cand[discovery'[o].cand] = None
                           /\ job'[discovery'[o].cand].state # "none"
                           /\ job'[discovery'[o].cand].source = discovery'[o].source
                           /\ job'[discovery'[o].cand].file = discovery'[o].file
                           /\ \A p \in Discoveries :
                                discovery'[p].at = "create" /\ discovery'[p].cand = discovery'[o].cand
                                   => p = o
    BY <1>3, Zenon DEF DiscoveriesOwnTheirIds, Exists
  <2>1. CASE o = d BY <1>4, <1>5, <1>6, <1>7, <1>9, <1>10, <2>1, ImportAssumption, SMTT(30) DEF Exists
  <2>2. CASE o # d
    BY <1>3, <1>5, <1>7, <1>10, <2>2, Zenon DEF ImportInvariant, DiscoveriesOwnTheirIds, Exists
  <2> QED BY <2>1, <2>2, SMTT(30)
<1>12. JobsDescribeCandidates'
  <2>1. \A b \in Candidates :
          /\ job'[b].state # "none" => job'[b].source \in Sources /\ job'[b].file \in Files
          /\ Exists(b) => /\ job'[b].state # "none"
                          /\ job'[b].source = cand[b].source
                          /\ job'[b].file = cand[b].file
    BY <1>4, <1>6, <1>7, <1>9, Zenon DEF ImportInvariant, JobsDescribeCandidates
  <2>2. \A x \in Runs : run[x].at # "idle" => run[x].cand \in Candidates /\ job'[run[x].cand].state # "none"
    BY <1>3, <1>7, HaveJobs
  <2>3. \A e \in NewEditions : madeFor[e] # None => job'[madeFor[e]].state # "none"
    BY <1>3, <1>7, HaveJobs, SMTT(30)
  <2> QED BY <1>3, <2>1, <2>2, <2>3, Zenon DEF JobsDescribeCandidates, Exists
<1>13. ReviewsAreOfCandidates'
  <2>1. \A v \in Reviews : review[v].at = "decide" => review[v].cand \in Candidates \ {c}
    BY <1>3, Zenon DEF ImportInvariant, ReviewsAreOfCandidates
  <2>2. \A v \in Reviews : review[v].at = "decide" => \A o \in Discoveries :
           discovery'[o].at = "create" => discovery'[o].cand # review[v].cand
    BY <1>5, <1>7, <2>1 DEF ImportInvariant, ReviewsAreOfCandidates
  <2>3. ReviewsLeftAlone BY <1>3, <1>7, <2>1, <2>2 DEF ReviewsLeftAlone
  <2> QED BY <1>3, <2>3, ReviewsKeepTheirRows, Zenon
<1>14. LoneDiscovery'
  <2>1. \A s, f : Seen(s, f)' <=> Seen(s, f) BY <1>3 DEF Seen, Exists
  <2>2. \A o \in Discoveries :
          /\ discovery'[o].source = discovery[o].source /\ discovery'[o].file = discovery[o].file
          /\ discovery'[o].at = "idle" <=> discovery[o].at = "idle"
          /\ discovery'[o].at \in {"enqueue", "create"} <=> discovery[o].at \in {"enqueue", "create"}
    BY <1>3, <1>5, <1>7, SMTT(30)
  <2>3. DiscoveriesAlike BY <2>1, <2>2, Zenon DEF DiscoveriesAlike
  <2> QED BY <1>3, <2>3, LoneDiscoveriesStay, Zenon
<1>15. NoHalfImport'
  <2>1. \A e \in NewEditions : madeFor[e] # None => job'[madeFor[e]] = job[madeFor[e]]
    BY <1>3, <1>7, HaveJobs, SMTT(30)
  <2> QED BY <1>3, <2>1 DEF ImportInvariant, NoHalfImport
<1>16. ImportedIsOwned' /\ NothingOfARemovedSource' /\ ReviewedHasMetadata' /\ OneCandidatePerFile'
  BY <1>3 DEF ImportInvariant, ImportedIsOwned, NothingOfARemovedSource,
              ReviewedHasMetadata, OneCandidatePerFile, Exists
<1> QED BY <1>8, <1>11, <1>12, <1>13, <1>14, <1>15, <1>16 DEF ImportInvariant

\* Create: the row is the first of its id and, unless discoveries of its source
\* overlapped, of its file.
LEMMA DiscoverCreateKeeps ==
    ASSUME ImportInvariant, NEW d \in Discoveries, DiscoverCreate(d)
    PROVE  ImportInvariant'
<1>0. /\ discovery \in [Discoveries -> DiscoveryRequest] /\ cand \in [Candidates -> Row \cup {None}]
      /\ TypeOK
  BY DEF ImportInvariant, TypeOK
<1>1. PICK q : q = [discovery[d] EXCEPT !.at = "check"] BY Zenon
<1>2. PICK c : c = discovery[d].cand OBVIOUS
<1>3. PICK r : r = [source |-> discovery[d].source, file |-> discovery[d].file,
                    status |-> "queued", meta |-> FALSE]
  BY Zenon
<1>4. /\ discovery[d].at = "create" /\ discovery[d].source \in sources
      /\ discovery' = [discovery EXCEPT ![d] = q] /\ cand' = [cand EXCEPT ![c] = r]
      /\ UNCHANGED <<sources, offerings, madeFor, entries, job, run, review, raced>>
  BY <1>1, <1>2, <1>3, Zenon DEF DiscoverCreate, Create
<1>5. /\ c \in Candidates /\ cand[c] = None /\ job[c].state # "none"
      /\ job[c].source = discovery[d].source /\ job[c].file = discovery[d].file
      /\ discovery[d].file \in Files
      /\ \A o \in Discoveries : discovery[o].at = "create" /\ discovery[o].cand = c => o = d
  BY <1>2, <1>4 DEF ImportInvariant, DiscoveriesOwnTheirIds, Exists
<1>6. discovery[d].source \in Sources BY <1>0, <1>4 DEF TypeOK
<1>7. q \in DiscoveryRequest /\ q.at = "check" /\ q.source = discovery[d].source
  BY <1>0, <1>1, Zenon DEF DiscoveryRequest
<1>8. r \in Row /\ r.source = discovery[d].source /\ r.file = discovery[d].file /\ r.status = "queued"
  BY <1>3, <1>5, <1>6, Zenon DEF Row, Status
<1>9. /\ discovery' \in [Discoveries -> DiscoveryRequest] /\ discovery'[d] = q
      /\ \A o \in Discoveries \ {d} : discovery'[o] = discovery[o]
      /\ cand' \in [Candidates -> Row \cup {None}] /\ cand'[c] = r
      /\ \A b \in Candidates \ {c} : cand'[b] = cand[b]
  BY <1>0, <1>4, <1>5, <1>7, <1>8
<1>10. TypeOK' BY <1>0, <1>4, <1>9, Zenon DEF TypeOK
<1>11. DiscoveriesOwnTheirIds'
  BY <1>4, <1>5, <1>6, <1>7, <1>9, ImportAssumption, SMTT(30) DEF ImportInvariant, DiscoveriesOwnTheirIds, Exists
<1>12. JobsDescribeCandidates'
  BY <1>4, <1>5, <1>8, <1>9, SMTT(30) DEF ImportInvariant, JobsDescribeCandidates, Exists
<1>13. ReviewsAreOfCandidates'
  <2>1. \A v \in Reviews : review[v].at = "decide" => review[v].cand \in Candidates \ {c}
    BY <1>2, <1>4, Zenon DEF ImportInvariant, ReviewsAreOfCandidates
  <2>2. \A v \in Reviews : review[v].at = "decide" => \A o \in Discoveries :
           discovery'[o].at = "create" => discovery'[o].cand # review[v].cand
    BY <1>7, <1>9 DEF ImportInvariant, ReviewsAreOfCandidates
  <2>3. ReviewsLeftAlone BY <1>4, <1>9, <2>1, <2>2, Zenon DEF ReviewsLeftAlone
  <2> QED BY <1>4, <2>3, ReviewsKeepTheirRows, Zenon
<1>14. LoneDiscovery'
  <2> SUFFICES ASSUME ~raced, NEW o \in Discoveries, discovery'[o].at # "idle"
               PROVE  /\ \A p \in Discoveries : discovery'[p].source = discovery'[o].source => p = o
                      /\ discovery'[o].at \in {"enqueue", "create"} =>
                           \A b \in Candidates : cand'[b] # None =>
                              cand'[b].source # discovery'[o].source \/ cand'[b].file # discovery'[o].file
    BY <1>4, Zenon DEF LoneDiscovery, Seen, Exists
  <2>1. \A p \in Discoveries : discovery'[p].source = discovery[p].source BY <1>7, <1>9
  <2>2. discovery[o].at # "idle" BY <1>4, <1>7, <1>9
  <2>3. /\ \A p \in Discoveries : discovery[p].source = discovery[o].source => p = o
        /\ discovery[o].at \in {"enqueue", "create"} =>
             \A b \in Candidates : cand[b] # None =>
                cand[b].source # discovery[o].source \/ cand[b].file # discovery[o].file
    BY <2>2, SMTT(30) DEF ImportInvariant, LoneDiscovery, Seen, Exists
  <2>4. ASSUME discovery'[o].at \in {"enqueue", "create"}, NEW b \in Candidates, cand'[b] # None
        PROVE  cand'[b].source # discovery'[o].source \/ cand'[b].file # discovery'[o].file
    <3>1. o # d /\ discovery'[o] = discovery[o] BY <1>7, <1>9, <2>4
    <3>2. r.source # discovery[o].source BY <1>8, <2>3, <3>1, Zenon
    <3> QED BY <1>9, <2>3, <2>4, <3>1, <3>2, SMTT(30)
  <2> QED BY <2>1, <2>3, <2>4, Zenon
<1>15. ImportedIsOwned' /\ NoHalfImport' /\ NothingOfARemovedSource'
  <2>1. "queued" \notin Imported BY Zenon DEF Imported
  <2> QED BY <1>4, <1>8, <1>9, <2>1
          DEF ImportInvariant, ImportedIsOwned, NoHalfImport, NothingOfARemovedSource, Exists
<1>16. ReviewedHasMetadata' BY <1>5, <1>8, <1>9, MetadataLeftAlone
<1>17. OneCandidatePerFile'
  <2> SUFFICES ASSUME ~raced PROVE OneCandidatePerFile' BY <1>4 DEF OneCandidatePerFile
  <2>1. ~Seen(discovery[d].source, discovery[d].file) BY <1>4 DEF ImportInvariant, LoneDiscovery
  <2>2. \A b \in Candidates : cand[b] # None =>
          cand[b].source # r.source \/ cand[b].file # r.file
    BY <1>8, <2>1 DEF Seen, Exists
  <2> QED BY <1>9, <2>2 DEF ImportInvariant, OneCandidatePerFile, Exists
<1> QED BY <1>10, <1>11, <1>12, <1>13, <1>14, <1>15, <1>16, <1>17 DEF ImportInvariant

\* Each step of a discovery keeps the invariant.
LEMMA DiscoverKeeps ==
    ASSUME ImportInvariant, NEW d \in Discoveries, Discover(d)
    PROVE  ImportInvariant'
<1>0. discovery[d] \in DiscoveryRequest /\ raced \in BOOLEAN BY DEF ImportInvariant, TypeOK
<1>1. discovery[d].at = "idle" <=> discovery[d].source = None
  BY DEF ImportInvariant, DiscoveriesOwnTheirIds
<1>2. ASSUME NEW s \in Sources, DiscoverBegin(d, s) PROVE ImportInvariant'
  <2>1. PICK q : q = [IdleDiscovery EXCEPT !.at = "check", !.source = s, !.todo = Files] OBVIOUS
  <2>2. /\ discovery' = [discovery EXCEPT ![d] = q] /\ UNCHANGED <<db, job, run, review>>
        /\ raced' = (raced \/ \E o \in Discoveries : discovery[o].source = s)
    BY <1>2, <2>1 DEF DiscoverBegin
  <2>3. q \in DiscoveryRequest /\ q.at = "check" /\ q.source = s
    BY <2>1, Zenon DEF DiscoveryRequest, IdleDiscovery
  <2>4. q.source # None BY <2>3, ImportAssumption
  <2>5. raced' \/ \A o \in Discoveries : discovery[o].source # q.source BY <2>2, <2>3, Zenon
  <2>6. raced' \in BOOLEAN /\ (raced => raced') BY <2>2, Zenon
  <2> QED BY <2>2, <2>3, <2>4, <2>5, <2>6, DiscoveryMoves, Zenon
<1>3. ASSUME NEW f \in Files, DiscoverCheck(d, f) PROVE ImportInvariant'
  <2>1. PICK q : q = [discovery[d] EXCEPT !.todo = discovery[d].todo \ {f},
                        !.at = IF Seen(discovery[d].source, f) THEN "check" ELSE "enqueue", !.file = f]
    OBVIOUS
  <2>2. /\ discovery' = [discovery EXCEPT ![d] = q] /\ discovery[d].at = "check"
        /\ UNCHANGED <<db, job, run, review, raced>>
    BY <1>3, <2>1, Zenon DEF DiscoverCheck
  <2>3. /\ q \in DiscoveryRequest /\ q.source = discovery[d].source /\ q.file = f
        /\ q.at = IF Seen(discovery[d].source, f) THEN "check" ELSE "enqueue"
    BY <1>0, <2>1, Zenon DEF DiscoveryRequest
  <2>4. raced' \in BOOLEAN /\ (raced => raced') BY <1>0, <2>2
  <2> QED BY <1>1, <2>2, <2>3, <2>4, DiscoveryMoves, Zenon
<1>4. ASSUME DiscoverEnd(d) PROVE ImportInvariant'
  <2>1. /\ discovery' = [discovery EXCEPT ![d] = IdleDiscovery]
        /\ UNCHANGED <<db, job, run, review, raced>>
    BY <1>4 DEF DiscoverEnd
  <2>2. IdleDiscovery \in DiscoveryRequest /\ IdleDiscovery.at = "idle" /\ IdleDiscovery.source = None
    BY DEF DiscoveryRequest, IdleDiscovery
  <2>3. raced' \in BOOLEAN /\ (raced => raced') BY <1>0, <2>1
  <2> QED BY <2>1, <2>2, <2>3, DiscoveryMoves, Zenon
<1> QED BY <1>2, <1>3, <1>4, DiscoverEnqueueKeeps, DiscoverCreateKeeps DEF Discover

-----------------------------------------------------------------------------
(* The theorems. *)

\* Whatever discoveries, jobs, reviews and removals overlap (discovery.go, job.go,
\* service.go, source_removal_service.go): a new edition is whole, nothing is put
\* before a person without its metadata, and no file is proposed twice unless two
\* discoveries of its source overlapped.
THEOREM ImportInvariantHolds == Spec => []ImportInvariant
<1>1. Init => ImportInvariant
  <2> SUFFICES ASSUME Init PROVE ImportInvariant BY Zenon
  <2> USE DEF Init
  <2>1. IdleDiscovery \in DiscoveryRequest /\ IdleDiscovery.at = "idle" /\ IdleDiscovery.source = None
    BY DEF DiscoveryRequest, IdleDiscovery
  <2>2. IdleRun \in Execution /\ IdleRun.at = "idle" BY DEF Execution, IdleRun
  <2>3. IdleReview \in ReviewRequest /\ IdleReview.at = "idle" BY DEF ReviewRequest, IdleReview
  <2>4. PICK j : j = [state |-> "none", tries |-> 0, run |-> None, source |-> None, file |-> None]
    BY Zenon
  <2>5. j \in JobRow /\ j.state = "none" BY <2>4, ImportAssumption DEF JobRow
  <2>6. \A c \in Candidates : job[c] = j /\ cand[c] = None BY <2>4
  <2>7. TypeOK
    <3>1. job \in [Candidates -> JobRow] BY <2>4, <2>5
    <3> QED BY <2>1, <2>2, <2>3, <3>1, Zenon DEF TypeOK, Editions
  <2>8. DiscoveriesOwnTheirIds /\ LoneDiscovery
    BY <2>1, Zenon DEF DiscoveriesOwnTheirIds, LoneDiscovery
  <2>9. JobsDescribeCandidates BY <2>2, <2>5, <2>6, Zenon DEF JobsDescribeCandidates, Exists
  <2>10. ReviewsAreOfCandidates BY <2>3, SMTT(30) DEF ReviewsAreOfCandidates
  <2>11. ImportedIsOwned /\ ReviewedHasMetadata /\ OneCandidatePerFile
    BY <2>6, Zenon DEF ImportedIsOwned, ReviewedHasMetadata, OneCandidatePerFile, Exists
  <2>12. NoHalfImport /\ NothingOfARemovedSource
    BY <2>6 DEF NoHalfImport, NothingOfARemovedSource, Exists
  <2> QED BY <2>7, <2>8, <2>9, <2>10, <2>11, <2>12 DEF ImportInvariant
<1>2. ImportInvariant /\ [Next]_vars => ImportInvariant'
  <2> SUFFICES ASSUME ImportInvariant, [Next]_vars PROVE ImportInvariant' OBVIOUS
  <2>1. CASE Next BY <2>1, DiscoverKeeps, ImportKeeps, ReviewKeeps, RemoveSourceKeeps DEF Next
  <2>2. CASE UNCHANGED vars
    <3>1. UNCHANGED <<db, discovery, review, raced, job, run>> BY <2>2 DEF vars
    <3>2. JobsKept BY <3>1 DEF JobsKept
    <3>3. job' \in [Candidates -> JobRow] /\ run' \in [Runs -> Execution]
      BY <3>1 DEF ImportInvariant, TypeOK
    <3> QED BY <3>1, <3>2, <3>3, HaveJobs, RunReads
  <2> QED BY <2>1, <2>2
<1> QED BY <1>1, <1>2, PTL DEF Spec

\* A candidate marked auto_imported or confirmed has its book, offered by its
\* source and in the library, after any steps of any jobs, reviews and removals
\* (job.go, service.go).
THEOREM ImportedHasItsBook == Spec => []ImportedIsOwned
<1>1. ImportInvariant => ImportedIsOwned BY DEF ImportInvariant
<1> QED BY <1>1, ImportInvariantHolds, PTL

\* No discovery, job or review in flight when a source is removed brings back a
\* candidate or an offering of it (source_removal_service.go).
THEOREM RemovedSourceIsGone == Spec => []NothingOfARemovedSource
<1>1. ImportInvariant => NothingOfARemovedSource BY DEF ImportInvariant
<1> QED BY <1>1, ImportInvariantHolds, PTL

=============================================================================
