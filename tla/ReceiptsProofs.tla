--------------------------- MODULE ReceiptsProofs ---------------------------
(* Proofs about Receipts for every value of its constants.                  *)
EXTENDS Receipts, TLAPS

\* A job table with its types, in which a row that is in use has a receipt.
RowsOK(rows) ==
  /\ rows \in [Jobs -> JobRow]
  /\ \A i \in Jobs : rows[i].status # "free" => rows[i].receipt \in Receipts

WorkerRow == [job : Jobs \cup {None}, receipt : Receipts \cup {None}, attempts : 0..MaxAttempts]

\* What the actions rely on: the types, and besides them that a row in use has a
\* receipt, and that the row a worker awaits stays in use, whoever else finishes it.
LedgerOK ==
  /\ receipt \in [Receipts -> ReceiptRow]
  /\ canon \in [Purchases -> CanonRow]
  /\ entry \in [Receipts -> EntryRow]
  /\ task \in [Receipts -> {"none", "open", "decided"}]

QueueOK ==
  /\ RowsOK(job)
  /\ worker \in [Workers -> WorkerRow]
  /\ \A w \in Workers : worker[w] # Idle =>
       /\ worker[w].job \in Jobs
       /\ worker[w].receipt \in Receipts
       /\ job[worker[w].job].status # "free"

LadderOK ==
  /\ retries \in [Receipts -> 0..MaxRetries]
  /\ stuck \in [Receipts -> BOOLEAN] /\ asks \in 0..MaxAsks

Bound == LedgerOK /\ QueueOK /\ LadderOK

\* No row that is in use in one table is free in the other.
KeepsRows(rows, next, kept) ==
  \A i \in kept : rows[i].status # "free" => next[i].status # "free"

---------------------------------------------------------------------------
(* Lemmas about the job table.                                             *)

LEMMA RowTypes == NoJob \in JobRow /\ Idle \in WorkerRow
BY ReceiptsAssumption DEF NoJob, Idle, JobRow, WorkerRow

\* A job row changes its status or its attempts and stays a row.
LEMMA StatusKeepsJobs ==
  ASSUME NEW rows \in [Jobs -> JobRow], NEW j,
         NEW s \in {"free", "ready", "leased", "expired", "done", "dead"}
  PROVE  [rows EXCEPT ![j].status = s] \in [Jobs -> JobRow]
<1>1. \A i \in Jobs : [rows[i] EXCEPT !.status = s] \in JobRow
  <2> TAKE i \in Jobs
  <2>1. rows[i] \in JobRow  OBVIOUS
  <2>2. QED BY <2>1 DEF JobRow
<1>2. QED BY <1>1

\* ... and it keeps the receipt, so a row that stays in use is as good as before.
LEMMA StatusKeepsRows ==
  ASSUME NEW rows, RowsOK(rows), NEW j \in Jobs, rows[j].status # "free",
         NEW s \in {"ready", "leased", "expired", "done", "dead"},
         NEW next, next = [rows EXCEPT ![j].status = s]
  PROVE  RowsOK(next) /\ KeepsRows(rows, next, Jobs)
<1>0. rows \in [Jobs -> JobRow]  BY DEF RowsOK
<1>1. next \in [Jobs -> JobRow]  BY <1>0, StatusKeepsJobs
<1>2. \A i \in Jobs : i # j => next[i] = rows[i]  BY <1>0
<1>3. rows[j] \in JobRow  BY <1>0
<1>4. next[j] = [rows[j] EXCEPT !.status = s]  BY <1>0
<1>5. next[j].status = s /\ next[j].receipt = rows[j].receipt
  BY <1>3, <1>4 DEF JobRow
<1>6. QED BY <1>1, <1>2, <1>5 DEF RowsOK, KeepsRows

LEMMA FreedKeepsRows ==
  ASSUME NEW rows, RowsOK(rows), NEW j \in Jobs,
         NEW next, next = [rows EXCEPT ![j] = NoJob]
  PROVE  RowsOK(next) /\ KeepsRows(rows, next, Jobs \ {j})
<1>1. next \in [Jobs -> JobRow]  BY RowTypes DEF RowsOK
<1>2. NoJob.status = "free"  BY DEF NoJob
<1>3. QED BY <1>1, <1>2 DEF RowsOK, KeepsRows

LEMMA BoundRows == Bound => RowsOK(job)
BY DEF Bound, QueueOK

\* Finishing a job frees its row or, while somebody else awaits it, marks it done:
\* the rows the other workers await stay in use.
LEMMA DoneRows ==
  ASSUME Bound, NEW w \in Workers, NEW j \in Jobs, job[j].status # "free",
         NEW rows, rows = Done(w, j)
  PROVE  /\ RowsOK(rows)
         /\ \A v \in Workers \ {w} : worker[v] # Idle => rows[worker[v].job].status # "free"
<1>0. RowsOK(job)  BY BoundRows
<1>1. CASE \E v \in Workers \ {w} : worker[v].job = j
  <2>1. rows = [job EXCEPT ![j].status = "done"]  BY <1>1 DEF Done
  <2>2. RowsOK(rows) /\ KeepsRows(job, rows, Jobs)  BY <1>0, <2>1, StatusKeepsRows
  <2>3. QED BY <2>2 DEF Bound, QueueOK, KeepsRows
<1>2. CASE ~\E v \in Workers \ {w} : worker[v].job = j
  <2>1. rows = [job EXCEPT ![j] = NoJob]  BY <1>2 DEF Done
  <2>2. RowsOK(rows) /\ KeepsRows(job, rows, Jobs \ {j})  BY <1>0, <2>1, FreedKeepsRows
  <2>3. \A v \in Workers \ {w} : worker[v] # Idle => worker[v].job \in Jobs \ {j}
    BY <1>2 DEF Bound, QueueOK
  <2>4. QED BY <2>2, <2>3 DEF Bound, QueueOK, KeepsRows
<1>3. QED BY <1>1, <1>2

\* A job is queued on a row that nobody awaits.
LEMMA QueuedRows ==
  ASSUME NEW rows, RowsOK(rows), NEW r \in Receipts, job' \in Queued(rows, r)
  PROVE  RowsOK(job') /\ KeepsRows(rows, job', Jobs)
<1> DEFINE fresh == [status |-> "ready", receipt |-> r, attempts |-> 0]
<1>1. PICK j \in Jobs : job' = [rows EXCEPT ![j] = fresh]  BY DEF Queued
<1>2. fresh \in JobRow  BY ReceiptsAssumption DEF JobRow
<1>3. job' \in [Jobs -> JobRow]  BY <1>1, <1>2 DEF RowsOK
<1>4. job'[j] = fresh /\ \A i \in Jobs : i # j => job'[i] = rows[i]  BY <1>1 DEF RowsOK
<1>5. QED BY <1>3, <1>4 DEF RowsOK, KeepsRows

---------------------------------------------------------------------------
(* What workers and decisions do to the bound.                             *)

\* A worker that lets go of its job leaves the queue in order when the table keeps
\* the rows the others await.
LEMMA LetGo ==
  ASSUME QueueOK, NEW w \in Workers, worker' = [worker EXCEPT ![w] = Idle],
         RowsOK(job'),
         \A v \in Workers \ {w} : worker[v] # Idle => job'[worker[v].job].status # "free"
  PROVE  QueueOK'
<1>1. worker' \in [Workers -> WorkerRow]  BY RowTypes DEF QueueOK
<1>2. worker'[w] = Idle /\ \A v \in Workers : v # w => worker'[v] = worker[v]  BY DEF QueueOK
<1>3. QED BY <1>1, <1>2 DEF QueueOK

LEMMA SameWorkers ==
  ASSUME QueueOK, UNCHANGED worker, RowsOK(job'),
         \A v \in Workers : worker[v] # Idle => job'[worker[v].job].status # "free"
  PROVE  QueueOK'
BY DEF QueueOK

LEMMA FinishKeepsQueue ==
  ASSUME Bound, NEW w \in Workers, worker[w] # Idle, NEW dies, Finish(w, dies)
  PROVE  QueueOK'
<1>0. QueueOK  BY DEF Bound
<1>1. worker' = [worker EXCEPT ![w] = Idle]  BY DEF Finish
<1>2. CASE dies  BY <1>0, <1>1, <1>2, LetGo DEF Finish, QueueOK
<1>3. CASE ~dies
  <2>1. job' = Done(w, worker[w].job)  BY <1>3 DEF Finish
  <2>2. worker[w].job \in Jobs /\ job[worker[w].job].status # "free"  BY <1>0 DEF QueueOK
  <2>3. /\ RowsOK(job')
        /\ \A v \in Workers \ {w} : worker[v] # Idle => job'[worker[v].job].status # "free"
    BY <2>1, <2>2, DoneRows
  <2>4. QED BY <1>0, <1>1, <2>3, LetGo
<1>4. QED BY <1>2, <1>3

LEMMA ThrowKeepsQueue ==
  ASSUME Bound, NEW w \in Workers, worker[w] # Idle, Throw(w)
  PROVE  QueueOK'
<1>0. QueueOK  BY DEF Bound
<1>1. worker' = [worker EXCEPT ![w] = Idle]  BY DEF Throw
<1>2. worker[w].job \in Jobs /\ job[worker[w].job].status # "free" /\ RowsOK(job)
  BY <1>0 DEF QueueOK
<1>3. PICK s \in {"dead", "ready"} : job' = [job EXCEPT ![worker[w].job].status = s]
  BY DEF Throw
<1>4. RowsOK(job') /\ KeepsRows(job, job', Jobs)  BY <1>2, <1>3, StatusKeepsRows
<1>5. QED BY <1>0, <1>1, <1>4, LetGo DEF QueueOK, KeepsRows

\* What a decision writes has the types of its rows.
LEMMA CommitTypes ==
  ASSUME LedgerOK, NEW r \in Receipts, NEW key \in Purchases \cup {None},
         NEW p \in Purchases \cup {None}, NEW decision \in Disposition,
         NEW by \in {"system", "reviewer"}, Commit(r, key, p, decision, by)
  PROVE  /\ receipt' \in [Receipts -> ReceiptRow]
         /\ canon' \in [Purchases -> CanonRow]
         /\ entry' \in [Receipts -> EntryRow]
<1>1. receipt' \in [Receipts -> ReceiptRow]
  <2>1. receipt[r] \in ReceiptRow  BY DEF LedgerOK
  <2>2. [status |-> decision, key |-> key,
         canonical |-> IF p = None THEN receipt[r].canonical ELSE p] \in ReceiptRow
    BY <2>1 DEF ReceiptRow
  <2>3. QED BY <2>2 DEF Commit, LedgerOK
<1>2. canon' \in [Purchases -> CanonRow]
  <2>1. CASE p = None  BY <2>1 DEF Commit, CanonAfter, LedgerOK
  <2>2. CASE p # None
    <3>1. canon[p] \in CanonRow  BY <2>2 DEF LedgerOK
    <3>2. [status |-> IF decision = "QUALIFIED" THEN "credited"
                      ELSE IF canon[p].status = "none" THEN "pending" ELSE canon[p].status,
           first |-> IF canon[p].status = "none" THEN r ELSE canon[p].first,
           credited |-> IF decision = "QUALIFIED" THEN r ELSE canon[p].credited] \in CanonRow
      BY <3>1 DEF CanonRow
    <3>3. QED BY <2>2, <3>2 DEF Commit, CanonAfter, LedgerOK
  <2>3. QED BY <2>1, <2>2
<1>3. entry' \in [Receipts -> EntryRow]
  <2>1. [status |-> "active", purchase |-> p, by |-> by] \in EntryRow  BY DEF EntryRow
  <2>2. QED BY <2>1 DEF Commit, LedgerOK
<1>4. QED BY <1>1, <1>2, <1>3

---------------------------------------------------------------------------
(* Each action keeps the bound.                                            *)

LEMMA InitBound == Init => Bound
<1> SUFFICES ASSUME Init PROVE Bound  OBVIOUS
<1>1. LedgerOK
  BY DEF Init, LedgerOK, ReceiptRow, CanonRow, EntryRow, Undecided, Disposition
<1>2. RowsOK(job) /\ worker \in [Workers -> WorkerRow]
  BY RowTypes DEF Init, RowsOK, NoJob
<1>3. QueueOK  BY <1>2 DEF Init, QueueOK
<1>4. LadderOK  BY ReceiptsAssumption DEF Init, LadderOK
<1>5. QED BY <1>1, <1>3, <1>4 DEF Bound

LEMMA BoundTypes == Bound => ReceiptsTypeOK
BY DEF Bound, LedgerOK, QueueOK, RowsOK, LadderOK, WorkerRow, ReceiptsTypeOK

\* An assignment to the status of a receipt keeps the table's type.
LEMMA StatusKeepsReceipts ==
  ASSUME LedgerOK, NEW r \in Receipts, NEW s \in Undecided,
         receipt' = [receipt EXCEPT ![r].status = s]
  PROVE  receipt' \in [Receipts -> ReceiptRow]
<1>1. receipt[r] \in ReceiptRow  BY DEF LedgerOK
<1>2. [receipt[r] EXCEPT !.status = s] \in ReceiptRow  BY <1>1 DEF ReceiptRow
<1>3. QED BY <1>2 DEF LedgerOK

LEMMA AwaitedJob ==
  ASSUME Bound, NEW w \in Workers, worker[w] # Idle
  PROVE  /\ worker[w].receipt \in Receipts
         /\ worker[w].job \in Jobs /\ job[worker[w].job].status # "free"
BY DEF Bound, QueueOK

LEMMA SubmitBound ==
  ASSUME Bound, NEW r \in Receipts, NEW cut \in Cuts, Submit(r, cut) \/ Reprocess(r, cut)
  PROVE  Bound'
<1>0. LedgerOK /\ QueueOK /\ LadderOK  BY DEF Bound
<1>1. LedgerOK'
  <2>1. receipt' = [receipt EXCEPT ![r].status = "received"]  BY DEF Submit, Reprocess
  <2>2. receipt' \in [Receipts -> ReceiptRow]
    BY <1>0, <2>1, StatusKeepsReceipts DEF Undecided
  <2>3. task' \in [Receipts -> {"none", "open", "decided"}]
    BY <1>0 DEF Submit, Reprocess, LedgerOK
  <2>4. QED BY <1>0, <2>2, <2>3 DEF Submit, Reprocess, LedgerOK
<1>2. QueueOK'
  <2>1. UNCHANGED worker  BY DEF Submit, Reprocess
  <2>2. RowsOK(job') /\ KeepsRows(job, job', Jobs)
    <3>1. CASE job' = job  BY <1>0, <3>1 DEF QueueOK, KeepsRows
    <3>2. CASE job' \in Queued(job, r)  BY <1>0, <3>2, QueuedRows DEF QueueOK
    <3>3. QED BY <3>1, <3>2 DEF Submit, Reprocess
  <2>3. QED BY <1>0, <2>1, <2>2, SameWorkers DEF QueueOK, KeepsRows
<1>3. LadderOK'  BY <1>0 DEF Submit, Reprocess, LadderOK, ladder
<1>4. QED BY <1>1, <1>2, <1>3 DEF Bound

LEMMA TakeBound ==
  ASSUME Bound, NEW w \in Workers, NEW j \in Jobs, Take(w, j)
  PROVE  Bound'
<1> DEFINE r == job[j].receipt
<1>0. LedgerOK /\ QueueOK /\ LadderOK  BY DEF Bound
<1>1. worker[w] = Idle /\ Offered(j)  BY DEF Take
<1>2. job[j] \in JobRow /\ job[j].status \in {"ready", "expired"} /\ r \in Receipts
  BY <1>0, <1>1 DEF Offered, QueueOK, RowsOK
<1>3. LadderOK'  BY <1>0 DEF Take, LadderOK, ladder
<1>4. UNCHANGED <<canon, entry, task>>  BY DEF Take
<1>5. CASE receipt[r].status \in Disposition
  <2>1. job' = Done(w, j) /\ UNCHANGED <<receipt, worker>>  BY <1>5 DEF Take
  <2>2. /\ RowsOK(job')
        /\ \A v \in Workers \ {w} : worker[v] # Idle => job'[worker[v].job].status # "free"
    BY <1>2, <2>1, DoneRows
  <2>3. QueueOK'  BY <1>0, <1>1, <2>1, <2>2, SameWorkers
  <2>4. LedgerOK'  BY <1>0, <1>4, <2>1 DEF LedgerOK
  <2>5. QED BY <1>3, <2>3, <2>4 DEF Bound
<1>6. CASE receipt[r].status \notin Disposition
  <2> DEFINE leased == [job[j] EXCEPT !.status = "leased", !.attempts = @ + 1]
             held == [job |-> j, receipt |-> r, attempts |-> job[j].attempts + 1]
  <2>1. /\ job' = [job EXCEPT ![j].status = "leased", ![j].attempts = @ + 1]
        /\ receipt' = [receipt EXCEPT ![r].status = "processing"]
        /\ worker' = [worker EXCEPT ![w] = held]
    BY <1>6 DEF Take
  <2>2. job[j].attempts + 1 \in 0..MaxAttempts
    BY <1>1, <1>2, ReceiptsAssumption DEF Offered, JobRow
  <2>3. leased \in JobRow /\ leased.status = "leased" /\ leased.receipt = r
    BY <1>2, <2>2 DEF JobRow
  <2>4. job \in [Jobs -> JobRow]  BY <1>0 DEF QueueOK, RowsOK
  <2>5. job' = [job EXCEPT ![j] = leased]  BY <2>1, <2>4
  <2>6. job' \in [Jobs -> JobRow]  BY <2>3, <2>4, <2>5
  <2>7. job'[j] = leased /\ \A i \in Jobs : i # j => job'[i] = job[i]  BY <2>4, <2>5
  <2>8. RowsOK(job') /\ KeepsRows(job, job', Jobs)
    BY <1>0, <1>2, <2>3, <2>6, <2>7 DEF QueueOK, RowsOK, KeepsRows
  <2>9. held \in WorkerRow /\ held.job = j /\ held.receipt = r
    BY <1>2, <2>2 DEF WorkerRow
  <2>10. worker' \in [Workers -> WorkerRow]  BY <1>0, <2>1, <2>9 DEF QueueOK
  <2>11. worker'[w] = held /\ \A v \in Workers : v # w => worker'[v] = worker[v]
    BY <1>0, <2>1 DEF QueueOK
  <2>12. QueueOK'
    BY <1>0, <1>2, <2>3, <2>7, <2>8, <2>9, <2>10, <2>11 DEF QueueOK, KeepsRows
  <2>13. receipt' \in [Receipts -> ReceiptRow]
    BY <1>0, <1>2, <2>1, StatusKeepsReceipts DEF Undecided
  <2>14. LedgerOK'  BY <1>0, <1>4, <2>13 DEF LedgerOK
  <2>15. QED BY <1>3, <2>12, <2>14 DEF Bound
<1>7. QED BY <1>5, <1>6

LEMMA DecideBound ==
  ASSUME Bound, NEW w \in Workers, Decide(w)
  PROVE  Bound'
<1> DEFINE r == worker[w].receipt
<1>0. LedgerOK /\ QueueOK /\ LadderOK  BY DEF Bound
<1>1. worker[w] # Idle  BY DEF Decide
<1>2. r \in Receipts  BY <1>1, AwaitedJob
<1>3. LadderOK'  BY <1>0 DEF Decide, LadderOK, ladder
<1>4. PICK p \in ReadsOf[r], verdict \in Disposition \ {"DUPLICATE"} :
        LET d == Decision(r, p, verdict)
            claim == IF d = "DUPLICATE" /\ ~Claimed(p) THEN None ELSE p IN
        IF d = "QUALIFIED" /\ ~MayCredit(r, p)
        THEN Throw(w) /\ UNCHANGED ledger
        ELSE /\ Commit(r, p, claim, d, "system")
             /\ task' = IF d = "REVIEW_REQUIRED" THEN [task EXCEPT ![r] = Opened(@)] ELSE task
             /\ \E dies \in Cuts : Finish(w, dies)
  BY DEF Decide
<1> DEFINE d == Decision(r, p, verdict)
           claim == IF d = "DUPLICATE" /\ ~Claimed(p) THEN None ELSE p
<1>5. CASE d = "QUALIFIED" /\ ~MayCredit(r, p)
  <2>1. Throw(w) /\ UNCHANGED ledger  BY <1>4, <1>5
  <2>2. QueueOK'  BY <1>1, <2>1, ThrowKeepsQueue
  <2>3. LedgerOK'  BY <1>0, <2>1 DEF ledger, LedgerOK
  <2>4. QED BY <1>3, <2>2, <2>3 DEF Bound
<1>6. CASE ~(d = "QUALIFIED" /\ ~MayCredit(r, p))
  <2>1. /\ Commit(r, p, claim, d, "system")
        /\ task' = IF d = "REVIEW_REQUIRED" THEN [task EXCEPT ![r] = Opened(@)] ELSE task
        /\ \E dies \in Cuts : Finish(w, dies)
    BY <1>4, <1>6
  <2>2. p \in Purchases \cup {None}  BY <1>2, ReceiptsAssumption
  <2>3. claim \in Purchases \cup {None}  BY <2>2
  <2>4. d \in Disposition  BY DEF Decision, Disposition
  <2>5. /\ receipt' \in [Receipts -> ReceiptRow]
        /\ canon' \in [Purchases -> CanonRow]
        /\ entry' \in [Receipts -> EntryRow]
    BY <1>0, <1>2, <2>1, <2>2, <2>3, <2>4, CommitTypes
  <2>6. task' \in [Receipts -> {"none", "open", "decided"}]
    BY <1>0, <2>1 DEF LedgerOK, Opened
  <2>7. QueueOK'  BY <1>1, <2>1, FinishKeepsQueue
  <2>8. LedgerOK'  BY <2>5, <2>6 DEF LedgerOK
  <2>9. QED BY <1>3, <2>7, <2>8 DEF Bound
<1>7. QED BY <1>5, <1>6

LEMMA DelayBound ==
  ASSUME Bound, NEW w \in Workers, NEW transient \in BOOLEAN, NEW dies \in Cuts,
         Delay(w, transient, dies)
  PROVE  Bound'
<1> DEFINE r == worker[w].receipt
           queues == transient /\ retries[r] < MaxRetries
<1>0. LedgerOK /\ QueueOK /\ LadderOK  BY DEF Bound
<1>1. worker[w] # Idle /\ worker' = [worker EXCEPT ![w] = Idle]  BY DEF Delay
<1>2. r \in Receipts /\ worker[w].job \in Jobs /\ job[worker[w].job].status # "free"
  BY <1>1, AwaitedJob
<1>3. LedgerOK'
  <2>1. receipt' = [receipt EXCEPT ![r].status = "delayed"] /\ UNCHANGED <<canon, entry, task>>
    BY DEF Delay
  <2>2. receipt' \in [Receipts -> ReceiptRow]
    BY <1>0, <1>2, <2>1, StatusKeepsReceipts DEF Undecided
  <2>3. QED BY <1>0, <2>1, <2>2 DEF LedgerOK
<1>4. LadderOK'
  <2>1. CASE dies  BY <1>0, <2>1 DEF Delay, LadderOK, ladder
  <2>2. CASE ~dies
    <3>1. /\ retries' = [retries EXCEPT ![r] = IF queues THEN @ + 1 ELSE @]
          /\ stuck' = [stuck EXCEPT ![r] = ~queues] /\ UNCHANGED asks
      BY <2>2 DEF Delay
    <3>2. retries[r] \in 0..MaxRetries  BY <1>0, <1>2 DEF LadderOK
    <3>3. (IF queues THEN retries[r] + 1 ELSE retries[r]) \in 0..MaxRetries
      BY <3>2, ReceiptsAssumption
    <3>4. retries' \in [Receipts -> 0..MaxRetries]  BY <1>0, <3>1, <3>3 DEF LadderOK
    <3>5. stuck' \in [Receipts -> BOOLEAN]  BY <1>0, <3>1 DEF LadderOK
    <3>6. QED BY <1>0, <3>1, <3>4, <3>5 DEF LadderOK
  <2>3. QED BY <2>1, <2>2
<1>5. QueueOK'
  <2>1. CASE dies
    <3>1. UNCHANGED job  BY <2>1 DEF Delay
    <3>2. QED BY <1>0, <1>1, <3>1, LetGo DEF QueueOK
  <2>2. CASE ~dies
    <3> DEFINE done == Done(w, worker[w].job)
    <3>1. /\ RowsOK(done)
          /\ \A v \in Workers \ {w} : worker[v] # Idle => done[worker[v].job].status # "free"
      BY <1>2, DoneRows
    <3>2. CASE job' = done  BY <1>0, <1>1, <3>1, <3>2, LetGo
    <3>3. CASE job' \in Queued(done, r)
      <4>1. RowsOK(job') /\ KeepsRows(done, job', Jobs)  BY <1>2, <3>1, <3>3, QueuedRows
      <4>2. \A v \in Workers \ {w} : worker[v] # Idle => job'[worker[v].job].status # "free"
        BY <1>0, <3>1, <4>1 DEF QueueOK, KeepsRows
      <4>3. QED BY <1>0, <1>1, <4>1, <4>2, LetGo
    <3>4. QED BY <2>2, <3>2, <3>3 DEF Delay
  <2>3. QED BY <2>1, <2>2
<1>6. QED BY <1>3, <1>4, <1>5 DEF Bound

LEMMA ReviewBound ==
  ASSUME Bound, NEW r \in Receipts, NEW decision \in Disposition, Review(r, decision)
  PROVE  Bound'
<1>0. LedgerOK /\ QueueOK /\ LadderOK  BY DEF Bound
<1>1. receipt[r] \in ReceiptRow  BY <1>0 DEF LedgerOK
<1> DEFINE claim == IF decision = "QUALIFIED" THEN receipt[r].key ELSE receipt[r].canonical
<1>2. Commit(r, receipt[r].key, claim, decision, "reviewer")  BY DEF Review
<1>3. receipt[r].key \in Purchases \cup {None} /\ claim \in Purchases \cup {None}
  BY <1>1 DEF ReceiptRow
<1>4. /\ receipt' \in [Receipts -> ReceiptRow]
      /\ canon' \in [Purchases -> CanonRow]
      /\ entry' \in [Receipts -> EntryRow]
  BY <1>0, <1>2, <1>3, CommitTypes
<1>5. task' \in [Receipts -> {"none", "open", "decided"}]  BY <1>0 DEF Review, LedgerOK
<1>6. LedgerOK'  BY <1>4, <1>5 DEF LedgerOK
<1>7. QueueOK'  BY <1>0 DEF Review, queue, QueueOK
<1>8. LadderOK'  BY <1>0 DEF Review, queue, ladder, LadderOK
<1>9. QED BY <1>6, <1>7, <1>8 DEF Bound

LEMMA EntryBound ==
  ASSUME Bound, NEW r \in Receipts, DisqualifyEntry(r) \/ ReinstateEntry(r)
  PROVE  Bound'
<1>0. LedgerOK /\ QueueOK /\ LadderOK  BY DEF Bound
<1>1. entry[r] \in EntryRow  BY <1>0 DEF LedgerOK
<1>2. PICK s \in {"active", "excluded"} : entry' = [entry EXCEPT ![r].status = s]
  BY DEF DisqualifyEntry, ReinstateEntry
<1>3. [entry[r] EXCEPT !.status = s] \in EntryRow  BY <1>1 DEF EntryRow
<1>4. LedgerOK'  BY <1>0, <1>2, <1>3 DEF LedgerOK, DisqualifyEntry, ReinstateEntry
<1>5. QueueOK'  BY <1>0 DEF QueueOK, DisqualifyEntry, ReinstateEntry, queue
<1>6. LadderOK'
  BY <1>0, ReceiptsAssumption DEF LadderOK, DisqualifyEntry, ReinstateEntry, queue, ladder
<1>7. QED BY <1>4, <1>5, <1>6 DEF Bound

LEMMA JobBound ==
  ASSUME Bound, NEW j \in Jobs, LeaseEnds(j) \/ RetryJob(j)
  PROVE  Bound'
<1>0. LedgerOK /\ QueueOK /\ LadderOK  BY DEF Bound
<1>1. LedgerOK'  BY <1>0 DEF LedgerOK, LeaseEnds, RetryJob, ledger
<1>2. LadderOK'  BY <1>0, ReceiptsAssumption DEF LadderOK, LeaseEnds, RetryJob, ladder
<1>3. UNCHANGED worker  BY DEF LeaseEnds, RetryJob
<1>4. job[j].status # "free" /\ RowsOK(job)  BY <1>0 DEF LeaseEnds, RetryJob, QueueOK
<1>5. RowsOK(job') /\ KeepsRows(job, job', Jobs)
  <2>1. CASE LeaseEnds(j)
    <3>1. job' = [job EXCEPT ![j].status = "expired"]  BY <2>1 DEF LeaseEnds
    <3>2. QED BY <1>4, <3>1, StatusKeepsRows
  <2>2. CASE RetryJob(j)
    <3> DEFINE again == [job[j] EXCEPT !.status = "ready", !.attempts = 0]
    <3>1. job \in [Jobs -> JobRow] /\ job[j] \in JobRow  BY <1>4 DEF RowsOK
    <3>2. job' = [job EXCEPT ![j].status = "ready", ![j].attempts = 0]  BY <2>2 DEF RetryJob
    <3>3. again \in JobRow /\ again.status = "ready" /\ again.receipt = job[j].receipt
      <4>1. 0 \in 0..MaxAttempts  BY ReceiptsAssumption
      <4>2. QED BY <3>1, <4>1 DEF JobRow
    <3>4. job' = [job EXCEPT ![j] = again]  BY <3>1, <3>2
    <3>5. job'[j] = again /\ \A i \in Jobs : i # j => job'[i] = job[i]  BY <3>1, <3>4
    <3>6. job' \in [Jobs -> JobRow]  BY <3>1, <3>3, <3>4
    <3>7. QED BY <1>4, <3>3, <3>5, <3>6 DEF RowsOK, KeepsRows
  <2>3. QED BY <2>1, <2>2
<1>6. QueueOK'  BY <1>0, <1>3, <1>5, SameWorkers DEF QueueOK, KeepsRows
<1>7. QED BY <1>1, <1>2, <1>6 DEF Bound

LEMMA SweepBound ==
  ASSUME Bound, SweepStranded
  PROVE  Bound'
<1>0. LedgerOK /\ QueueOK /\ LadderOK  BY DEF Bound
<1>1. LedgerOK' /\ LadderOK'  BY <1>0 DEF LedgerOK, LadderOK, SweepStranded, ledger, ladder
<1>2. job \in [Jobs -> JobRow]  BY <1>0 DEF QueueOK, RowsOK
<1>3. ASSUME NEW i \in Jobs
      PROVE  /\ job'[i] \in JobRow /\ job'[i].receipt = job[i].receipt
             /\ (job'[i].status = "free" <=> job[i].status = "free")
  <2>1. job[i] \in JobRow  BY <1>2
  <2>2. CASE Abandoned(i)
    <3>1. job'[i] = [job[i] EXCEPT !.status = "dead"]  BY <2>2 DEF SweepStranded
    <3>2. job[i].status = "expired"  BY <2>2 DEF Abandoned
    <3>3. QED BY <2>1, <3>1, <3>2 DEF JobRow
  <2>3. CASE ~Abandoned(i)
    <3>1. job'[i] = job[i]  BY <2>3 DEF SweepStranded
    <3>2. QED BY <2>1, <3>1
  <2>4. QED BY <2>2, <2>3
<1>4. job' \in [Jobs -> JobRow]  BY <1>3 DEF SweepStranded
<1>5. RowsOK(job') /\ KeepsRows(job, job', Jobs)
  BY <1>0, <1>3, <1>4 DEF RowsOK, KeepsRows, QueueOK
<1>6. UNCHANGED worker  BY DEF SweepStranded
<1>7. QueueOK'  BY <1>0, <1>5, <1>6, SameWorkers DEF QueueOK, KeepsRows
<1>8. QED BY <1>1, <1>7 DEF Bound

LEMMA CrashBound ==
  ASSUME Bound, NEW w \in Workers, Crash(w)
  PROVE  Bound'
<1>0. LedgerOK /\ QueueOK /\ LadderOK  BY DEF Bound
<1>1. LedgerOK' /\ LadderOK'  BY <1>0 DEF LedgerOK, LadderOK, Crash, ledger, ladder
<1>2. worker' = [worker EXCEPT ![w] = Idle] /\ UNCHANGED job  BY DEF Crash
<1>3. QueueOK'  BY <1>0, <1>2, LetGo DEF QueueOK
<1>4. QED BY <1>1, <1>3 DEF Bound

LEMMA NextBound == Bound /\ [Next]_vars => Bound'
<1> SUFFICES ASSUME Bound, [Next]_vars PROVE Bound'  OBVIOUS
<1>1. ASSUME NEW w \in Workers, NEW j \in Jobs, Take(w, j) PROVE Bound'
  BY <1>1, TakeBound
<1>2. ASSUME NEW w \in Workers, Answer(w) PROVE Bound'
  BY <1>2, DecideBound, DelayBound DEF Answer
<1>3. ASSUME NEW w \in Workers, Crash(w) PROVE Bound'
  BY <1>3, CrashBound
<1>4. ASSUME NEW r \in Receipts, NEW cut \in Cuts, Submit(r, cut) \/ Reprocess(r, cut)
      PROVE  Bound'
  BY <1>4, SubmitBound
<1>5. ASSUME NEW r \in Receipts, NEW decision \in Disposition, Review(r, decision)
      PROVE  Bound'
  BY <1>5, ReviewBound
<1>6. ASSUME NEW r \in Receipts, DisqualifyEntry(r) \/ ReinstateEntry(r) PROVE Bound'
  BY <1>6, EntryBound
<1>7. ASSUME NEW j \in Jobs, LeaseEnds(j) \/ RetryJob(j) PROVE Bound'
  BY <1>7, JobBound
<1>8. CASE SweepStranded  BY <1>8, SweepBound
<1>9. CASE UNCHANGED vars
  BY <1>9 DEF Bound, vars, LedgerOK, QueueOK, LadderOK
<1>10. QED BY <1>1, <1>2, <1>3, <1>4, <1>5, <1>6, <1>7, <1>8, <1>9 DEF Next

---------------------------------------------------------------------------
(* Types                                                                   *)

LEMMA AlwaysBound == Spec => []Bound
BY InitBound, NextBound, PTL DEF Spec

\* Whatever reviewers, operators and workers do meanwhile, every row keeps its
\* type: decisions, canonical claims, entries, tasks, jobs and what workers hold.
THEOREM ReceiptsTypeCorrect == Spec => []ReceiptsTypeOK
BY AlwaysBound, BoundTypes, PTL

---------------------------------------------------------------------------
(* Review tasks                                                            *)

LEMMA ReviewTaskStep == Bound /\ ReviewHasOpenTask /\ [Next]_vars => ReviewHasOpenTask'
<1> SUFFICES ASSUME Bound, ReviewHasOpenTask, [Next]_vars,
                    NEW q \in Receipts, receipt'[q].status = "REVIEW_REQUIRED"
             PROVE  task'[q] = "open"
  BY DEF ReviewHasOpenTask
<1>0. LedgerOK  BY DEF Bound
<1> DEFINE Same == receipt'[q].status = receipt[q].status /\ task'[q] = task[q]
<1>1. Same => task'[q] = "open"  BY DEF ReviewHasOpenTask
\* A status that is not REVIEW_REQUIRED leaves nothing to show for its receipt.
<1>2. ASSUME NEW r \in Receipts, NEW s \in Undecided,
             receipt' = [receipt EXCEPT ![r].status = s],
             \A i \in Receipts : i # r => task'[i] = task[i]
      PROVE  task'[q] = "open"
  <2>1. receipt[r] \in ReceiptRow  BY <1>0 DEF LedgerOK
  <2>2. receipt'[r].status = s  BY <1>0, <1>2, <2>1 DEF LedgerOK, ReceiptRow
  <2>3. q # r  BY <2>2 DEF Undecided
  <2>4. Same  BY <1>0, <1>2, <2>3 DEF LedgerOK
  <2>5. QED BY <1>1, <2>4
<1>3. ASSUME NEW w \in Workers, NEW j \in Jobs, Take(w, j) PROVE task'[q] = "open"
  <2>1. job[j].receipt \in Receipts
    BY <1>3 DEF Take, Offered, Bound, QueueOK, RowsOK
  <2>2. UNCHANGED task  BY <1>3 DEF Take
  <2>3. CASE UNCHANGED receipt  BY <1>1, <2>2, <2>3
  <2>4. CASE receipt' = [receipt EXCEPT ![job[j].receipt].status = "processing"]
    BY <1>2, <2>1, <2>2, <2>4 DEF Undecided
  <2>5. QED BY <1>3, <2>3, <2>4 DEF Take
<1>4. ASSUME NEW w \in Workers, Decide(w) PROVE task'[q] = "open"
  <2>1. worker[w].receipt \in Receipts  BY <1>4, AwaitedJob DEF Decide
  <2> DEFINE r == worker[w].receipt
  <2>2. CASE UNCHANGED ledger  BY <1>1, <2>2 DEF ledger
  <2>3. ASSUME NEW p, NEW claim, NEW d, Commit(r, p, claim, d, "system"),
               task' = IF d = "REVIEW_REQUIRED" THEN [task EXCEPT ![r] = Opened(@)] ELSE task
        PROVE  task'[q] = "open"
    <3>1. CASE q = r
      <4>1. receipt'[r].status = d  BY <1>0, <2>1, <2>3 DEF Commit, LedgerOK
      <4>2. QED BY <1>0, <2>1, <2>3, <3>1, <4>1 DEF LedgerOK, Opened
    <3>2. CASE q # r
      <4>1. receipt'[q] = receipt[q]  BY <1>0, <2>1, <2>3, <3>2 DEF Commit, LedgerOK
      <4>2. task'[q] = task[q]  BY <1>0, <2>1, <2>3, <3>2 DEF LedgerOK
      <4>3. QED BY <1>1, <4>1, <4>2
    <3>3. QED BY <3>1, <3>2
  <2>4. QED BY <1>4, <2>2, <2>3 DEF Decide
<1>5. ASSUME NEW w \in Workers, NEW transient \in BOOLEAN, NEW dies \in Cuts,
             Delay(w, transient, dies)
      PROVE  task'[q] = "open"
  <2>1. worker[w].receipt \in Receipts  BY <1>5, AwaitedJob DEF Delay
  <2>2. receipt' = [receipt EXCEPT ![worker[w].receipt].status = "delayed"] /\ UNCHANGED task
    BY <1>5 DEF Delay
  <2>3. QED BY <1>2, <2>1, <2>2 DEF Undecided
<1>6. ASSUME NEW r \in Receipts, NEW cut \in Cuts, Submit(r, cut) \/ Reprocess(r, cut)
      PROVE  task'[q] = "open"
  <2>1. receipt' = [receipt EXCEPT ![r].status = "received"]
    BY <1>6 DEF Submit, Reprocess
  <2>2. \A i \in Receipts : i # r => task'[i] = task[i]
    BY <1>0, <1>6 DEF Submit, Reprocess, LedgerOK
  <2>3. QED BY <1>2, <2>1, <2>2 DEF Undecided
<1>7. ASSUME NEW r \in Receipts, NEW decision \in Disposition, Review(r, decision)
      PROVE  task'[q] = "open"
  <2>1. PICK key, p : Commit(r, key, p, decision, "reviewer")  BY <1>7 DEF Review
  <2>2. decision # "REVIEW_REQUIRED"  BY <1>7 DEF Review
  <2>3. receipt'[r].status = decision  BY <1>0, <2>1 DEF Commit, LedgerOK
  <2>4. q # r  BY <2>2, <2>3
  <2>5. receipt'[q] = receipt[q]  BY <1>0, <2>1, <2>4 DEF Commit, LedgerOK
  <2>6. task'[q] = task[q]  BY <1>0, <1>7, <2>4 DEF Review, LedgerOK
  <2>7. QED BY <1>1, <2>5, <2>6
<1>8. CASE UNCHANGED <<receipt, task>>  BY <1>1, <1>8
<1>9. ASSUME NEW w \in Workers, Crash(w) PROVE task'[q] = "open"
  BY <1>8, <1>9 DEF Crash, ledger
<1>10. ASSUME NEW r \in Receipts, DisqualifyEntry(r) \/ ReinstateEntry(r)
       PROVE  task'[q] = "open"
  BY <1>8, <1>10 DEF DisqualifyEntry, ReinstateEntry
<1>11. ASSUME NEW j \in Jobs, LeaseEnds(j) \/ RetryJob(j) PROVE task'[q] = "open"
  BY <1>8, <1>11 DEF LeaseEnds, RetryJob, ledger
<1>12. CASE SweepStranded  BY <1>8, <1>12 DEF SweepStranded, ledger
<1>13. CASE UNCHANGED vars  BY <1>8, <1>13 DEF vars
<1>14. QED
  BY <1>3, <1>4, <1>5, <1>6, <1>7, <1>9, <1>10, <1>11, <1>12, <1>13 DEF Next, Answer

\* A receipt that waits for a person is in a reviewer's queue, through any number
\* of decisions, reprocessings, retries and late answers.
THEOREM ReviewsAreQueued == Spec => []ReviewHasOpenTask
<1>1. Init => ReviewHasOpenTask  BY DEF Init, ReviewHasOpenTask
<1>2. QED BY <1>1, AlwaysBound, ReviewTaskStep, PTL DEF Spec

---------------------------------------------------------------------------
(* Credit                                                                  *)

\* What a step may do to claims and entries: nothing, change whether an entry is in
\* the pool, or write a decision that credits only what nobody has been credited for
\* and, without a reviewer, only to the participant who presented it first.
Revises(r) == \E s \in {"active", "excluded"} :
  /\ entry[r].status # "none"
  /\ entry' = [entry EXCEPT ![r].status = s]
  /\ UNCHANGED canon

Settles(r, p, d, by) ==
  /\ canon' = CanonAfter(r, p, d)
  /\ entry' = IF d # "QUALIFIED" THEN entry
              ELSE [entry EXCEPT ![r] = [status |-> "active", purchase |-> p, by |-> by]]
  /\ d = "QUALIFIED" => MayCredit(r, p)
  /\ d = "QUALIFIED" /\ by = "system" /\ Claimed(p) => OwnerOf[canon[p].first] = OwnerOf[r]

LedgerStep ==
  \/ UNCHANGED <<canon, entry>>
  \/ \E r \in Receipts : Revises(r)
  \/ \E r \in Receipts, p \in Purchases \cup {None}, d \in Disposition,
        by \in {"system", "reviewer"} : Settles(r, p, d, by)

\* The pipeline qualifies only what no other participant presented first.
LEMMA QualifiedIsUndisputed ==
  ASSUME NEW r \in Receipts, NEW p, NEW verdict, Decision(r, p, verdict) = "QUALIFIED",
         Claimed(p)
  PROVE  OwnerOf[canon[p].first] = OwnerOf[r]
<1>1. ~Disputed(r, p, verdict) /\ verdict = "QUALIFIED"  BY DEF Decision
<1>2. QED BY <1>1 DEF Disputed

LEMMA DecideSettles ==
  ASSUME Bound, NEW w \in Workers, Decide(w) PROVE LedgerStep
<1> DEFINE r == worker[w].receipt
<1>1. r \in Receipts  BY AwaitedJob DEF Decide
<1>2. PICK p \in ReadsOf[r], verdict \in Disposition \ {"DUPLICATE"} :
        LET d == Decision(r, p, verdict)
            claim == IF d = "DUPLICATE" /\ ~Claimed(p) THEN None ELSE p IN
        IF d = "QUALIFIED" /\ ~MayCredit(r, p)
        THEN Throw(w) /\ UNCHANGED ledger
        ELSE /\ Commit(r, p, claim, d, "system")
             /\ task' = IF d = "REVIEW_REQUIRED" THEN [task EXCEPT ![r] = Opened(@)] ELSE task
             /\ \E dies \in Cuts : Finish(w, dies)
  BY DEF Decide
<1> DEFINE d == Decision(r, p, verdict)
           claim == IF d = "DUPLICATE" /\ ~Claimed(p) THEN None ELSE p
<1>3. CASE d = "QUALIFIED" /\ ~MayCredit(r, p)
  BY <1>2, <1>3 DEF ledger, LedgerStep
<1>4. CASE ~(d = "QUALIFIED" /\ ~MayCredit(r, p))
  <2>1. Commit(r, p, claim, d, "system")  BY <1>2, <1>4
  <2>2. d \in Disposition /\ claim \in Purchases \cup {None}
    BY <1>1, ReceiptsAssumption DEF Decision, Disposition
  <2>3. d = "QUALIFIED" => claim = p  OBVIOUS
  <2>4. d = "QUALIFIED" /\ Claimed(p) => OwnerOf[canon[p].first] = OwnerOf[r]
    BY <1>1, QualifiedIsUndisputed
  <2>5. Settles(r, claim, d, "system")
    <3>1. canon' = CanonAfter(r, claim, d)  BY <2>1 DEF Commit
    <3>2. entry' = IF d # "QUALIFIED" THEN entry
                   ELSE [entry EXCEPT ![r] = [status |-> "active", purchase |-> claim, by |-> "system"]]
      BY <2>1 DEF Commit
    <3>3. d = "QUALIFIED" => MayCredit(r, claim)  BY <1>4, <2>3
    <3>4. d = "QUALIFIED" /\ Claimed(claim) => OwnerOf[canon[claim].first] = OwnerOf[r]
      BY <2>3, <2>4
    <3>5. QED BY <3>1, <3>2, <3>3, <3>4 DEF Settles
  <2>6. QED BY <1>1, <2>2, <2>5 DEF LedgerStep
<1>5. QED BY <1>3, <1>4

LEMMA ReviewSettles ==
  ASSUME Bound, NEW r \in Receipts, NEW decision \in Disposition, Review(r, decision)
  PROVE  LedgerStep
<1> DEFINE claim == IF decision = "QUALIFIED" THEN receipt[r].key ELSE receipt[r].canonical
<1>1. Commit(r, receipt[r].key, claim, decision, "reviewer")  BY DEF Review
<1>2. decision = "QUALIFIED" => MayCredit(r, claim)  BY DEF Review
<1>3. receipt[r] \in ReceiptRow  BY DEF Bound, LedgerOK
<1>4. claim \in Purchases \cup {None}  BY <1>3 DEF ReceiptRow
<1>5. Settles(r, claim, decision, "reviewer")  BY <1>1, <1>2 DEF Commit, Settles
<1>6. QED BY <1>4, <1>5 DEF LedgerStep

LEMMA NextSettles == Bound /\ [Next]_vars => LedgerStep
<1> SUFFICES ASSUME Bound, [Next]_vars PROVE LedgerStep  OBVIOUS
<1>1. ASSUME NEW w \in Workers, Decide(w) PROVE LedgerStep  BY <1>1, DecideSettles
<1>2. ASSUME NEW r \in Receipts, NEW decision \in Disposition, Review(r, decision)
      PROVE  LedgerStep
  BY <1>2, ReviewSettles
<1>3. ASSUME NEW r \in Receipts, DisqualifyEntry(r) \/ ReinstateEntry(r) PROVE LedgerStep
  <2>1. Revises(r)  BY <1>3 DEF Revises, DisqualifyEntry, ReinstateEntry
  <2>2. QED BY <2>1 DEF LedgerStep
<1>4. CASE UNCHANGED <<canon, entry>>  BY <1>4 DEF LedgerStep
<1>5. ASSUME NEW w \in Workers, NEW j \in Jobs, Take(w, j) PROVE LedgerStep
  BY <1>4, <1>5 DEF Take
<1>6. ASSUME NEW w \in Workers, NEW transient \in BOOLEAN, NEW dies \in Cuts,
             Delay(w, transient, dies)
      PROVE  LedgerStep
  BY <1>4, <1>6 DEF Delay
<1>7. ASSUME NEW r \in Receipts, NEW cut \in Cuts, Submit(r, cut) \/ Reprocess(r, cut)
      PROVE  LedgerStep
  BY <1>4, <1>7 DEF Submit, Reprocess
<1>8. ASSUME NEW w \in Workers, Crash(w) PROVE LedgerStep  BY <1>4, <1>8 DEF Crash, ledger
<1>9. ASSUME NEW j \in Jobs, LeaseEnds(j) \/ RetryJob(j) PROVE LedgerStep
  BY <1>4, <1>9 DEF LeaseEnds, RetryJob, ledger
<1>10. CASE SweepStranded  BY <1>4, <1>10 DEF SweepStranded, ledger
<1>11. CASE UNCHANGED vars  BY <1>4, <1>11 DEF vars
<1>12. QED
  BY <1>1, <1>2, <1>3, <1>5, <1>6, <1>7, <1>8, <1>9, <1>10, <1>11 DEF Next, Answer

\* A decision that credits gives the purchase its first entry and changes no other
\* claim or entry.
LEMMA CreditWrites ==
  ASSUME LedgerOK, NEW r \in Receipts, NEW p \in Purchases \cup {None},
         NEW by, Settles(r, p, "QUALIFIED", by)
  PROVE  /\ p \in Purchases /\ ~Entered(p) /\ entry[r].status = "none"
         /\ entry'[r].status = "active" /\ entry'[r].purchase = p /\ entry'[r].by = by
         /\ \A s \in Receipts : s # r => entry'[s] = entry[s]
         /\ canon'[p].status = "credited" /\ canon'[p].credited = r
         /\ canon'[p].first = (IF canon[p].status = "none" THEN r ELSE canon[p].first)
         /\ \A q \in Purchases : q # p => canon'[q] = canon[q]
<1>1. p \in Purchases /\ ~Entered(p) /\ entry[r].status = "none"
  BY DEF Settles, MayCredit
<1>2. p # None  BY <1>1, ReceiptsAssumption
<1>3. entry' = [entry EXCEPT ![r] = [status |-> "active", purchase |-> p, by |-> by]]
  BY DEF Settles
<1>4. canon' = [canon EXCEPT ![p] =
        [status |-> "credited",
         first |-> IF canon[p].status = "none" THEN r ELSE canon[p].first,
         credited |-> r]]
  BY <1>2 DEF Settles, CanonAfter
<1>5. QED BY <1>1, <1>3, <1>4 DEF LedgerOK

\* Any other decision credits nothing and leaves the first presenter of a claim.
LEMMA OtherWrites ==
  ASSUME LedgerOK, NEW r \in Receipts, NEW p \in Purchases \cup {None},
         NEW d \in Disposition, d # "QUALIFIED", NEW by, Settles(r, p, d, by)
  PROVE  /\ UNCHANGED entry
         /\ \A q \in Purchases :
              /\ canon'[q].status = "credited" <=> canon[q].status = "credited"
              /\ canon'[q].credited = canon[q].credited
              /\ canon[q].status # "none" => canon'[q].status # "none"
                                             /\ canon'[q].first = canon[q].first
<1>1. UNCHANGED entry  BY DEF Settles
<1>2. CASE p = None
  BY <1>1, <1>2 DEF Settles, CanonAfter
<1>3. CASE p # None
  <2>1. canon' = [canon EXCEPT ![p] =
          [status |-> IF canon[p].status = "none" THEN "pending" ELSE canon[p].status,
           first |-> IF canon[p].status = "none" THEN r ELSE canon[p].first,
           credited |-> canon[p].credited]]
    BY <1>3 DEF Settles, CanonAfter
  <2>2. p \in Purchases  BY <1>3
  <2>3. \A q \in Purchases : q # p => canon'[q] = canon[q]  BY <2>1 DEF LedgerOK
  <2>4. /\ canon'[p].status = (IF canon[p].status = "none" THEN "pending" ELSE canon[p].status)
        /\ canon'[p].first = (IF canon[p].status = "none" THEN r ELSE canon[p].first)
        /\ canon'[p].credited = canon[p].credited
    BY <2>1, <2>2 DEF LedgerOK
  <2>5. QED BY <1>1, <2>3, <2>4
<1>4. QED BY <1>2, <1>3

\* An entry that is taken out of the pool or put back stands for the same purchase.
LEMMA RevisionWrites ==
  ASSUME LedgerOK, NEW r \in Receipts, Revises(r)
  PROVE  /\ UNCHANGED canon
         /\ \A s \in Receipts : /\ entry'[s].status # "none" <=> entry[s].status # "none"
                                /\ entry'[s].purchase = entry[s].purchase
                                /\ entry'[s].by = entry[s].by
<1>1. PICK st \in {"active", "excluded"} :
        entry[r].status # "none" /\ entry' = [entry EXCEPT ![r].status = st] /\ UNCHANGED canon
  BY DEF Revises
<1>2. entry \in [Receipts -> EntryRow] /\ entry[r] \in EntryRow  BY DEF LedgerOK
<1>3. entry'[r] = [entry[r] EXCEPT !.status = st]  BY <1>1, <1>2
<1>4. \A s \in Receipts : s # r => entry'[s] = entry[s]  BY <1>1, <1>2
<1>5. entry'[r].status = st /\ entry'[r].purchase = entry[r].purchase /\ entry'[r].by = entry[r].by
  BY <1>2, <1>3 DEF EntryRow
<1>6. QED BY <1>1, <1>4, <1>5

\* The strengthening of SecondPresenterIsReviewed: what the pipeline credited is an
\* entry for a purchase that is claimed, so its first presenter does not change.
SystemCredits ==
  \A r \in Receipts : entry[r].by = "system" =>
    /\ entry[r].status # "none" /\ entry[r].purchase \in Purchases
    /\ canon[entry[r].purchase].status # "none"
    /\ OwnerOf[canon[entry[r].purchase].first] = OwnerOf[r]

LEMMA CreditStep == Bound /\ CreditMatchesEntry /\ LedgerStep => CreditMatchesEntry'
<1> SUFFICES ASSUME Bound, CreditMatchesEntry, LedgerStep PROVE CreditMatchesEntry'
  OBVIOUS
<1>0. LedgerOK  BY DEF Bound
<1>1. CASE UNCHANGED <<canon, entry>>  BY <1>1 DEF CreditMatchesEntry, Entered
<1>2. ASSUME NEW r \in Receipts, Revises(r) PROVE CreditMatchesEntry'
  <2>1. /\ UNCHANGED canon
        /\ \A s \in Receipts : /\ entry'[s].status # "none" <=> entry[s].status # "none"
                               /\ entry'[s].purchase = entry[s].purchase
    BY <1>0, <1>2, RevisionWrites
  <2>2. QED BY <2>1 DEF CreditMatchesEntry, Entered
<1>3. ASSUME NEW r \in Receipts, NEW p \in Purchases \cup {None}, NEW d \in Disposition,
             NEW by \in {"system", "reviewer"}, Settles(r, p, d, by)
      PROVE  CreditMatchesEntry'
  <2>1. CASE d = "QUALIFIED"
    <3>1. /\ p \in Purchases /\ ~Entered(p) /\ entry[r].status = "none"
          /\ entry'[r].status = "active" /\ entry'[r].purchase = p
          /\ \A s \in Receipts : s # r => entry'[s] = entry[s]
          /\ canon'[p].status = "credited" /\ canon'[p].credited = r
          /\ \A q \in Purchases : q # p => canon'[q] = canon[q]
      BY <1>0, <1>3, <2>1, CreditWrites
    <3>2. ASSUME NEW q \in Purchases, q # p
          PROVE  Entered(q)' <=> Entered(q)
      BY <3>1, <3>2 DEF Entered
    <3>3. Entered(p)'  BY <3>1 DEF Entered
    <3>4. \A s \in Receipts : entry'[s].status # "none" /\ entry'[s].purchase = p => s = r
      BY <3>1 DEF Entered
    <3>5. ASSUME NEW q \in Purchases, q # p, NEW s \in Receipts,
                 entry'[s].status # "none", entry'[s].purchase = q
          PROVE  canon'[q].credited = s
      BY <3>1, <3>5 DEF CreditMatchesEntry
    <3>6. QED BY <3>1, <3>2, <3>3, <3>4, <3>5 DEF CreditMatchesEntry
  <2>2. CASE d # "QUALIFIED"
    <3>1. /\ UNCHANGED entry
          /\ \A q \in Purchases : /\ canon'[q].status = "credited" <=> canon[q].status = "credited"
                                  /\ canon'[q].credited = canon[q].credited
      BY <1>0, <1>3, <2>2, OtherWrites
    <3>2. QED BY <3>1 DEF CreditMatchesEntry, Entered
  <2>3. QED BY <2>1, <2>2
<1>4. QED BY <1>1, <1>2, <1>3 DEF LedgerStep

\* The claim on a purchase and the entries agree for ever: it is marked credited
\* exactly when one entry stands for it, and names the receipt of that entry, however
\* decisions of workers and reviewers interleave.
THEOREM CreditIsTheEntry == Spec => []CreditMatchesEntry
<1>1. Init => CreditMatchesEntry
  BY ReceiptsAssumption DEF Init, CreditMatchesEntry, Entered
<1>2. QED BY <1>1, AlwaysBound, NextSettles, CreditStep, PTL DEF Spec

---------------------------------------------------------------------------
(* Who is credited without a reviewer                                      *)

LEMMA SystemCreditStep == Bound /\ SystemCredits /\ LedgerStep => SystemCredits'
<1> SUFFICES ASSUME Bound, SystemCredits, LedgerStep,
                    NEW q \in Receipts, entry'[q].by = "system"
             PROVE  /\ entry'[q].status # "none" /\ entry'[q].purchase \in Purchases
                    /\ canon'[entry'[q].purchase].status # "none"
                    /\ OwnerOf[canon'[entry'[q].purchase].first] = OwnerOf[q]
  BY DEF SystemCredits
<1> DEFINE Holds == /\ entry'[q].status # "none" /\ entry'[q].purchase \in Purchases
                    /\ canon'[entry'[q].purchase].status # "none"
                    /\ OwnerOf[canon'[entry'[q].purchase].first] = OwnerOf[q]
<1>0. LedgerOK  BY DEF Bound
\* An entry that was there keeps its purchase, and the purchase its first presenter.
<1>1. ASSUME entry[q].by = "system", entry'[q].status # "none",
             entry'[q].purchase = entry[q].purchase,
             canon[entry[q].purchase].status # "none" =>
               /\ canon'[entry[q].purchase].status # "none"
               /\ canon'[entry[q].purchase].first = canon[entry[q].purchase].first
      PROVE  Holds
  BY <1>1 DEF SystemCredits
<1>2. CASE UNCHANGED <<canon, entry>>  BY <1>2 DEF SystemCredits
<1>3. ASSUME NEW r \in Receipts, Revises(r) PROVE Holds
  <2>1. /\ UNCHANGED canon
        /\ entry'[q].status # "none" <=> entry[q].status # "none"
        /\ entry'[q].purchase = entry[q].purchase /\ entry'[q].by = entry[q].by
    BY <1>0, <1>3, RevisionWrites
  <2>2. entry[q].by = "system" /\ entry[q].status # "none"  BY <2>1 DEF SystemCredits
  <2>3. QED BY <1>1, <2>1, <2>2
<1>4. ASSUME NEW r \in Receipts, NEW p \in Purchases \cup {None}, NEW d \in Disposition,
             NEW by \in {"system", "reviewer"}, Settles(r, p, d, by)
      PROVE  Holds
  <2>1. CASE d = "QUALIFIED"
    <3>1. /\ p \in Purchases /\ ~Entered(p)
          /\ entry'[r].status = "active" /\ entry'[r].purchase = p /\ entry'[r].by = by
          /\ \A s \in Receipts : s # r => entry'[s] = entry[s]
          /\ canon'[p].status = "credited"
          /\ canon'[p].first = (IF canon[p].status = "none" THEN r ELSE canon[p].first)
          /\ \A c \in Purchases : c # p => canon'[c] = canon[c]
      BY <1>0, <1>4, <2>1, CreditWrites
    <3>2. CASE q = r
      <4>1. p # None /\ by = "system"  BY <3>1, <3>2, ReceiptsAssumption
      <4>2. Claimed(p) => OwnerOf[canon[p].first] = OwnerOf[r]
        BY <1>4, <2>1, <4>1 DEF Settles
      <4>3. QED BY <3>1, <3>2, <4>1, <4>2 DEF Claimed
    <3>3. CASE q # r
      <4>1. entry'[q] = entry[q]  BY <3>1, <3>3
      <4>2. entry[q].status # "none" /\ entry[q].purchase \in Purchases
        BY <4>1 DEF SystemCredits
      <4>3. entry[q].purchase # p  BY <3>1, <4>2 DEF Entered
      <4>4. canon'[entry[q].purchase] = canon[entry[q].purchase]  BY <3>1, <4>2, <4>3
      <4>5. QED BY <1>1, <4>1, <4>2, <4>4
    <3>4. QED BY <3>2, <3>3
  <2>2. CASE d # "QUALIFIED"
    <3>1. /\ UNCHANGED entry
          /\ \A c \in Purchases : canon[c].status # "none" =>
               canon'[c].status # "none" /\ canon'[c].first = canon[c].first
      BY <1>0, <1>4, <2>2, OtherWrites
    <3>2. entry[q].by = "system" /\ entry[q].status # "none" /\ entry[q].purchase \in Purchases
      BY <3>1 DEF SystemCredits
    <3>3. QED BY <1>1, <3>1, <3>2
  <2>3. QED BY <2>1, <2>2
<1>5. QED BY <1>2, <1>3, <1>4 DEF LedgerStep

\* The pipeline never credits, by itself, a purchase that another participant
\* presented first, whatever the order in which their extractions come back.
THEOREM CreditGoesToTheFirst == Spec => []SecondPresenterIsReviewed
<1>1. Init => SystemCredits  BY DEF Init, SystemCredits
<1>2. SystemCredits => SecondPresenterIsReviewed
  BY DEF SystemCredits, SecondPresenterIsReviewed
<1>3. QED BY <1>1, <1>2, AlwaysBound, NextSettles, SystemCreditStep, PTL DEF Spec

---------------------------------------------------------------------------
(* Where an undecided receipt is                                           *)

\* A job that is queued, worked on, abandoned or shown as dead.
Live == {"ready", "leased", "expired", "dead"}
HasJob(r) == \E j \in Jobs : job[j].receipt = r /\ job[j].status \in Live

\* A receipt with nothing left to do, or whose last failure raised the alert. Where a
\* process may die between two statements, one that was just received or delayed may be
\* left without its job.
Rests(r) ==
  \/ receipt[r].status \notin Undecided
  \/ receipt[r].status = "delayed" /\ stuck[r]
  \/ Cuts # {FALSE} /\ receipt[r].status # "processing"
UndecidedHasJob == \A r \in Receipts : Rests(r) \/ HasJob(r)

\* It is inductive with: the row that a worker awaits stays that of its receipt.
OwnRows == \A w \in Workers : worker[w] # Idle => job[worker[w].job].receipt = worker[w].receipt
HandInv == Bound /\ OwnRows /\ UndecidedHasJob

\* A table that keeps the live jobs, but for those of some rows, and one that keeps the
\* receipts of the rows which other workers than w await.
LiveKept(rows, next, but) ==
  \A i \in Jobs \ but : rows[i].status \in Live =>
    next[i].status \in Live /\ next[i].receipt = rows[i].receipt
AwaitedKept(rows, next, w) ==
  \A v \in Workers \ {w} : worker[v] # Idle =>
    next[worker[v].job].receipt = rows[worker[v].job].receipt

AllAwaitedKept(next) ==
  \A v \in Workers : worker[v] # Idle =>
    next[worker[v].job].receipt = job[worker[v].job].receipt

LEMMA DoneKeeps ==
  ASSUME Bound, NEW w \in Workers, NEW j \in Jobs, NEW rows, rows = Done(w, j)
  PROVE  LiveKept(job, rows, {j}) /\ AwaitedKept(job, rows, w)
<1>0. job \in [Jobs -> JobRow]  BY DEF Bound, QueueOK, RowsOK
<1>1. CASE \E v \in Workers \ {w} : worker[v].job = j
  <2>1. rows = [job EXCEPT ![j].status = "done"]  BY <1>1 DEF Done
  <2>2. job[j] \in JobRow  BY <1>0
  <2>3. rows[j].receipt = job[j].receipt /\ \A i \in Jobs : i # j => rows[i] = job[i]
    BY <1>0, <2>1, <2>2 DEF JobRow
  <2>4. QED BY <2>3 DEF LiveKept, AwaitedKept, Bound, QueueOK
<1>2. CASE ~\E v \in Workers \ {w} : worker[v].job = j
  <2>1. rows = [job EXCEPT ![j] = NoJob]  BY <1>2 DEF Done
  <2>2. \A i \in Jobs : i # j => rows[i] = job[i]  BY <1>0, <2>1
  <2>3. QED BY <1>2, <2>2 DEF LiveKept, AwaitedKept, Bound, QueueOK
<1>3. QED BY <1>1, <1>2

LEMMA QueuedKeeps ==
  ASSUME NEW rows, RowsOK(rows), NEW r \in Receipts, job' \in Queued(rows, r)
  PROVE  /\ LiveKept(rows, job', {}) /\ HasJob(r)'
         /\ \A v \in Workers : worker'[v] # Idle /\ worker'[v].job \in Jobs =>
              job'[worker'[v].job].receipt = rows[worker'[v].job].receipt
<1> DEFINE fresh == [status |-> "ready", receipt |-> r, attempts |-> 0]
<1>1. PICK j \in Jobs : /\ job' = [rows EXCEPT ![j] = fresh]
                        /\ rows[j].status \in {"free", "done"}
                        /\ \A v \in Workers : worker'[v].job # j
  BY DEF Queued
<1>2. job'[j] = fresh /\ \A i \in Jobs : i # j => job'[i] = rows[i]  BY <1>1 DEF RowsOK
<1>3. LiveKept(rows, job', {})  BY <1>1, <1>2 DEF LiveKept, Live
<1>4. HasJob(r)'  BY <1>2 DEF HasJob, Live
<1>5. QED BY <1>1, <1>2, <1>3, <1>4

\* A row that stays live keeps its receipt when its status or attempts alone change.
LEMMA StatusKeepsLive ==
  ASSUME Bound, NEW j \in Jobs, NEW s \in Live, job' = [job EXCEPT ![j].status = s]
  PROVE  LiveKept(job, job', {}) /\ AllAwaitedKept(job')
<1>0. job \in [Jobs -> JobRow] /\ job[j] \in JobRow  BY DEF Bound, QueueOK, RowsOK
<1>1. job'[j].receipt = job[j].receipt /\ job'[j].status = s
      /\ \A i \in Jobs : i # j => job'[i] = job[i]
  BY <1>0 DEF JobRow
<1>2. QED BY <1>1 DEF LiveKept, AllAwaitedKept, Bound, QueueOK

\* ---- what a step must show
LEMMA OwnKept ==
  ASSUME HandInv, NEW w \in Workers, AwaitedKept(job, job', w),
         \/ worker' = [worker EXCEPT ![w] = Idle]
         \/ worker[w] = Idle /\ UNCHANGED worker
  PROVE  OwnRows'
<1>1. worker'[w] = Idle /\ \A v \in Workers \ {w} : worker'[v] = worker[v]
  BY DEF HandInv, Bound, QueueOK
<1>2. QED BY <1>1 DEF OwnRows, AwaitedKept, HandInv

LEMMA AllIsOwn ==
  ASSUME NEW w, AllAwaitedKept(job') PROVE AwaitedKept(job, job', w)
BY DEF AllAwaitedKept, AwaitedKept

LEMMA OwnKeptByAll ==
  ASSUME HandInv, UNCHANGED worker, AllAwaitedKept(job')
  PROVE  OwnRows'
BY DEF HandInv, OwnRows, AllAwaitedKept

\* What one receipt and its rows go through concerns no other.
LEMMA HandsKept ==
  ASSUME HandInv, NEW r, NEW but \in SUBSET Jobs, LiveKept(job, job', but),
         \A i \in but : job[i].receipt = r,
         \A s \in Receipts \ {r} : receipt'[s].status = receipt[s].status /\ stuck'[s] = stuck[s],
         r \in Receipts => Rests(r)' \/ HasJob(r)'
  PROVE  UndecidedHasJob'
<1> SUFFICES ASSUME NEW s \in Receipts, s # r PROVE Rests(s)' \/ HasJob(s)'  BY DEF UndecidedHasJob
<1>1. CASE Rests(s)  BY <1>1 DEF Rests
<1>2. CASE HasJob(s)
  <2>1. PICK i \in Jobs : job[i].receipt = s /\ job[i].status \in Live  BY <1>2 DEF HasJob
  <2>2. i \notin but  BY <2>1
  <2>3. QED BY <2>1, <2>2 DEF LiveKept, HasJob
<1>3. QED BY <1>1, <1>2 DEF HandInv, UndecidedHasJob

\* A receipt that nothing happened to keeps its job.
LEMMA HandsKeptByAll ==
  ASSUME HandInv, LiveKept(job, job', {}),
         \A s \in Receipts : receipt'[s].status = receipt[s].status /\ stuck'[s] = stuck[s]
  PROVE  UndecidedHasJob'
<1> SUFFICES ASSUME NEW s \in Receipts PROVE Rests(s)' \/ HasJob(s)'  BY DEF UndecidedHasJob
<1>1. CASE Rests(s)  BY <1>1 DEF Rests
<1>2. CASE HasJob(s)  BY <1>2 DEF HasJob, LiveKept
<1>3. QED BY <1>1, <1>2 DEF HandInv, UndecidedHasJob

LEMMA StatusOf ==
  ASSUME Bound, NEW r \in Receipts, NEW s, receipt' = [receipt EXCEPT ![r].status = s]
  PROVE  receipt'[r].status = s /\ \A q \in Receipts \ {r} : receipt'[q] = receipt[q]
<1>1. receipt \in [Receipts -> ReceiptRow] /\ receipt[r] \in ReceiptRow  BY DEF Bound, LedgerOK
<1>2. QED BY <1>1 DEF ReceiptRow

\* ---- the steps
LEMMA SubmitHands ==
  ASSUME HandInv, Bound', NEW r \in Receipts, NEW cut \in Cuts, Submit(r, cut) \/ Reprocess(r, cut)
  PROVE  HandInv'
<1>0. Bound /\ RowsOK(job)  BY BoundRows DEF HandInv
<1>1. receipt' = [receipt EXCEPT ![r].status = "received"] /\ UNCHANGED <<worker, stuck>>
  BY DEF Submit, Reprocess, ladder
<1>2. receipt'[r].status = "received" /\ \A q \in Receipts \ {r} : receipt'[q] = receipt[q]
  BY <1>0, <1>1, StatusOf
<1>3. CASE cut /\ UNCHANGED job
  <2>1. cut # FALSE  BY <1>3
  <2>2. Cuts # {FALSE}  BY <2>1
  <2>3. Rests(r)'  BY <1>2, <2>2 DEF Rests
  <2>4. LiveKept(job, job', {}) /\ AllAwaitedKept(job')  BY <1>3 DEF LiveKept, AllAwaitedKept
  <2>5. UndecidedHasJob'  BY <1>1, <1>2, <2>3, <2>4, HandsKept
  <2>6. OwnRows'  BY <1>1, <2>4, OwnKeptByAll
  <2>7. QED BY <2>5, <2>6 DEF HandInv
<1>4. CASE job' \in Queued(job, r)
  <2>1. /\ LiveKept(job, job', {}) /\ HasJob(r)'
        /\ \A v \in Workers : worker'[v] # Idle /\ worker'[v].job \in Jobs =>
             job'[worker'[v].job].receipt = job[worker'[v].job].receipt
    BY <1>0, <1>4, QueuedKeeps
  <2>2. AllAwaitedKept(job')  BY <1>0, <1>1, <2>1 DEF AllAwaitedKept, Bound, QueueOK
  <2>3. UndecidedHasJob'  BY <1>1, <1>2, <2>1, HandsKept
  <2>4. OwnRows'  BY <1>1, <2>2, OwnKeptByAll
  <2>5. QED BY <2>3, <2>4 DEF HandInv
<1>5. QED BY <1>3, <1>4 DEF Submit, Reprocess

LEMMA TakeHands ==
  ASSUME HandInv, Bound', NEW w \in Workers, NEW j \in Jobs, Take(w, j)
  PROVE  HandInv'
<1>r. PICK r : r = job[j].receipt  OBVIOUS
<1>0. Bound /\ job \in [Jobs -> JobRow] /\ job[j] \in JobRow  BY DEF HandInv, Bound, QueueOK, RowsOK
<1>1. worker[w] = Idle /\ UNCHANGED stuck  BY DEF Take, ladder
<1>2. CASE receipt[r].status \in Disposition
  <2>1. job' = Done(w, j) /\ UNCHANGED <<receipt, worker>>  BY <1>r, <1>2 DEF Take
  <2>2. LiveKept(job, job', {j}) /\ AwaitedKept(job, job', w)  BY <1>0, <2>1, DoneKeeps
  <2>3. Rests(r)'  BY <1>2, <2>1 DEF Rests, Disposition, Undecided
  <2>4. UndecidedHasJob'  BY <1>r, <1>1, <2>1, <2>2, <2>3, HandsKept
  <2>5. OwnRows'  BY <1>1, <2>1, <2>2, OwnKept
  <2>6. QED BY <2>4, <2>5 DEF HandInv
<1>3. CASE receipt[r].status \notin Disposition
  <2> DEFINE leased == [job[j] EXCEPT !.status = "leased", !.attempts = @ + 1]
             mine == [job |-> j, receipt |-> r, attempts |-> job[j].attempts + 1]
  <2>1. /\ job' = [job EXCEPT ![j].status = "leased", ![j].attempts = @ + 1]
        /\ receipt' = [receipt EXCEPT ![r].status = "processing"]
        /\ worker' = [worker EXCEPT ![w] = mine]
    BY <1>r, <1>3 DEF Take
  <2>2. leased.status = "leased" /\ leased.receipt = r  BY <1>0, <1>r DEF JobRow
  <2>3. job' = [job EXCEPT ![j] = leased]  BY <1>0, <2>1
  <2>4. job'[j] = leased /\ \A i \in Jobs : i # j => job'[i] = job[i]  BY <1>0, <2>3
  <2> HIDE DEF leased
  <2>5. LiveKept(job, job', {}) /\ HasJob(r)'  BY <1>r, <2>2, <2>4 DEF LiveKept, HasJob, Live
  <2>6. \A q \in Receipts \ {r} : receipt'[q] = receipt[q]  BY <1>0, <2>1 DEF Bound, LedgerOK
  <2>7. UndecidedHasJob'  BY <1>1, <2>5, <2>6, HandsKept
  <2>8. mine.job = j /\ mine.receipt = r  OBVIOUS
  <2> HIDE DEF mine
  <2>9. worker'[w] = mine /\ \A v \in Workers : v # w => worker'[v] = worker[v]
    BY <1>0, <2>1 DEF Bound, QueueOK
  <2>10. ASSUME NEW v \in Workers, worker'[v] # Idle
         PROVE  job'[worker'[v].job].receipt = worker'[v].receipt
    <3>1. CASE v = w  BY <2>2, <2>4, <2>8, <2>9, <3>1
    <3>2. CASE v # w
      <4>1. /\ worker'[v] = worker[v] /\ worker[v].job \in Jobs
            /\ job[worker[v].job].receipt = worker[v].receipt
        BY <1>0, <2>9, <2>10, <3>2 DEF HandInv, OwnRows, Bound, QueueOK
      <4>2. job'[worker[v].job].receipt = job[worker[v].job].receipt  BY <1>r, <2>2, <2>4, <4>1
      <4>3. QED BY <4>1, <4>2
    <3>3. QED BY <3>1, <3>2
  <2>11. QED BY <2>7, <2>10 DEF HandInv, OwnRows
<1>4. QED BY <1>2, <1>3

LEMMA DecideHands ==
  ASSUME HandInv, Bound', NEW w \in Workers, Decide(w)
  PROVE  HandInv'
<1>r. PICK r, j : r = worker[w].receipt /\ j = worker[w].job  OBVIOUS
<1>0. Bound  BY DEF HandInv
<1>1. worker[w] # Idle /\ UNCHANGED stuck  BY DEF Decide, ladder
<1>2. r \in Receipts /\ j \in Jobs /\ job[j].receipt = r
  BY <1>r, <1>0, <1>1, AwaitedJob DEF HandInv, OwnRows
<1>3. CASE Throw(w) /\ UNCHANGED ledger
  <2>1. worker' = [worker EXCEPT ![w] = Idle] /\ UNCHANGED receipt  BY <1>3 DEF Throw, ledger
  <2>2. PICK s \in Live : job' = [job EXCEPT ![j].status = s]  BY <1>r, <1>3 DEF Throw, Live
  <2>3. LiveKept(job, job', {}) /\ AllAwaitedKept(job')
    BY <1>0, <1>2, <2>2, StatusKeepsLive
  <2>4. UndecidedHasJob'  BY <1>1, <2>1, <2>3, HandsKeptByAll
  <2>5. OwnRows'  BY <2>1, <2>3, AllIsOwn, OwnKept
  <2>6. QED BY <2>4, <2>5 DEF HandInv
<1>4. ASSUME NEW p, NEW claim, NEW d \in Disposition, Commit(r, p, claim, d, "system"),
             NEW dies \in Cuts, Finish(w, dies)
      PROVE  HandInv'
  <2>1. worker' = [worker EXCEPT ![w] = Idle] /\ (job' = job \/ job' = Done(w, j))
    BY <1>r, <1>4 DEF Finish
  <2>2. LiveKept(job, job', {j}) /\ AwaitedKept(job, job', w)
    <3>1. CASE job' = job  BY <3>1 DEF LiveKept, AwaitedKept
    <3>2. CASE job' = Done(w, j)  BY <1>0, <1>2, <3>2, DoneKeeps
    <3>3. QED BY <2>1, <3>1, <3>2
  <2>3. receipt'[r].status = d /\ \A q \in Receipts \ {r} : receipt'[q] = receipt[q]
    BY <1>0, <1>2, <1>4 DEF Commit, Bound, LedgerOK
  <2>4. Rests(r)'  BY <2>3 DEF Rests, Disposition, Undecided
  <2>5. UndecidedHasJob'  BY <1>1, <1>2, <2>2, <2>3, <2>4, HandsKept
  <2>6. OwnRows'  BY <2>1, <2>2, OwnKept
  <2>7. QED BY <2>5, <2>6 DEF HandInv
<1>5. \A p, verdict : Decision(r, p, verdict) \in Disposition \/ verdict \notin Disposition
  BY DEF Decision, Disposition
<1>6. QED BY <1>r, <1>3, <1>4, <1>5 DEF Decide

LEMMA DelayHands ==
  ASSUME HandInv, Bound', NEW w \in Workers, NEW transient \in BOOLEAN, NEW dies \in Cuts,
         Delay(w, transient, dies)
  PROVE  HandInv'
<1>r. PICK r, j : r = worker[w].receipt /\ j = worker[w].job  OBVIOUS
<1>q. PICK queues \in BOOLEAN : queues = (transient /\ retries[r] < MaxRetries)  OBVIOUS
<1>d. PICK done : done = Done(w, j)  OBVIOUS
<1>0. Bound  BY DEF HandInv
<1>1. worker[w] # Idle /\ worker' = [worker EXCEPT ![w] = Idle]  BY DEF Delay
<1>2. r \in Receipts /\ j \in Jobs /\ job[j].receipt = r /\ job[j].status # "free"
  BY <1>r, <1>0, <1>1, AwaitedJob DEF HandInv, OwnRows
<1>3. receipt' = [receipt EXCEPT ![r].status = "delayed"]  BY <1>r DEF Delay
<1>4. receipt'[r].status = "delayed" /\ \A q \in Receipts \ {r} : receipt'[q] = receipt[q]
  BY <1>0, <1>2, <1>3, StatusOf
<1>5. CASE dies
  <2>1. UNCHANGED <<job, stuck>>  BY <1>5 DEF Delay, ladder
  <2>2. Cuts # {FALSE}  BY <1>5
  <2>3. Rests(r)'  BY <1>4, <2>2 DEF Rests
  <2>4. LiveKept(job, job', {}) /\ AwaitedKept(job, job', w)  BY <2>1 DEF LiveKept, AwaitedKept
  <2>5. UndecidedHasJob'  BY <1>4, <2>1, <2>3, <2>4, HandsKept
  <2>6. OwnRows'  BY <1>1, <2>4, OwnKept
  <2>7. QED BY <2>5, <2>6 DEF HandInv
<1>6. CASE ~dies
  <2>1. stuck' = [stuck EXCEPT ![r] = ~queues]  BY <1>r, <1>q, <1>6 DEF Delay
  <2>2. stuck'[r] = ~queues /\ \A q \in Receipts \ {r} : stuck'[q] = stuck[q]
    BY <1>0, <1>2, <2>1 DEF Bound, LadderOK
  <2>3. LiveKept(job, done, {j}) /\ AwaitedKept(job, done, w)  BY <1>0, <1>2, <1>d, DoneKeeps
  <2>4. RowsOK(done)  BY <1>0, <1>2, <1>d, DoneRows
  <2>5. CASE ~queues
    <3>1. job' = done  BY <1>r, <1>q, <1>d, <1>6, <2>5 DEF Delay
    <3>2. Rests(r)'  BY <1>4, <2>2, <2>5 DEF Rests
    <3>3. UndecidedHasJob'  BY <1>2, <1>4, <2>2, <2>3, <3>1, <3>2, HandsKept
    <3>4. OwnRows'  BY <1>1, <2>3, <3>1, OwnKept
    <3>5. QED BY <3>3, <3>4 DEF HandInv
  <2>6. CASE queues
    <3>1. job' \in Queued(done, r)  BY <1>r, <1>q, <1>d, <1>6, <2>6 DEF Delay
    <3>2. /\ LiveKept(done, job', {}) /\ HasJob(r)'
          /\ \A v \in Workers : worker'[v] # Idle /\ worker'[v].job \in Jobs =>
               job'[worker'[v].job].receipt = done[worker'[v].job].receipt
      BY <1>2, <2>4, <3>1, QueuedKeeps
    <3>3. LiveKept(job, job', {j})  BY <2>3, <3>2 DEF LiveKept
    <3>4. AwaitedKept(job, job', w)
      <4>1. \A v \in Workers \ {w} : worker'[v] = worker[v]  BY <1>0, <1>1 DEF Bound, QueueOK
      <4>2. QED BY <1>0, <2>3, <3>2, <4>1 DEF AwaitedKept, Bound, QueueOK
    <3>5. UndecidedHasJob'  BY <1>2, <1>4, <2>2, <3>2, <3>3, HandsKept
    <3>6. OwnRows'  BY <1>1, <3>4, OwnKept
    <3>7. QED BY <3>5, <3>6 DEF HandInv
  <2>7. QED BY <2>5, <2>6
<1>7. QED BY <1>5, <1>6

LEMMA JobHands ==
  ASSUME HandInv, Bound', (\E j \in Jobs : LeaseEnds(j) \/ RetryJob(j)) \/ SweepStranded
  PROVE  HandInv'
<1>0. Bound /\ job \in [Jobs -> JobRow]  BY DEF HandInv, Bound, QueueOK, RowsOK
<1>1. UNCHANGED <<receipt, stuck, worker>>
  BY DEF LeaseEnds, RetryJob, SweepStranded, ledger, ladder
<1>2. ASSUME NEW i \in Jobs
      PROVE  job'[i].receipt = job[i].receipt /\ (job[i].status \in Live => job'[i].status \in Live)
  <2>0. job[i] \in JobRow  BY <1>0
  <2>1. ASSUME NEW j \in Jobs, LeaseEnds(j) PROVE <1>2!2
    <3>1. job' = [job EXCEPT ![j].status = "expired"]  BY <2>1 DEF LeaseEnds
    <3>2. QED BY <1>0, <2>0, <3>1 DEF JobRow, Live
  <2>2. ASSUME NEW j \in Jobs, RetryJob(j) PROVE <1>2!2
    <3>1. job' = [job EXCEPT ![j].status = "ready", ![j].attempts = 0]  BY <2>2 DEF RetryJob
    <3>2. QED BY <1>0, <2>0, <3>1 DEF JobRow, Live
  <2>3. CASE SweepStranded
    <3>1. job'[i] = IF Abandoned(i) THEN [job[i] EXCEPT !.status = "dead"] ELSE job[i]
      BY <2>3 DEF SweepStranded
    <3>2. QED BY <2>0, <3>1 DEF JobRow, Live
  <2>4. QED BY <2>1, <2>2, <2>3
<1>3. LiveKept(job, job', {}) /\ AllAwaitedKept(job')
  BY <1>0, <1>2 DEF LiveKept, AllAwaitedKept, Bound, QueueOK
<1>4. QED BY <1>1, <1>3, HandsKeptByAll, OwnKeptByAll DEF HandInv

LEMMA LedgerHands ==
  ASSUME HandInv, Bound', NEW r \in Receipts,
         (\E decision \in Disposition : Review(r, decision)) \/ DisqualifyEntry(r) \/ ReinstateEntry(r)
  PROVE  HandInv'
<1>0. Bound  BY DEF HandInv
<1>1. UNCHANGED <<job, worker, stuck>>
  BY DEF Review, DisqualifyEntry, ReinstateEntry, queue, ladder
<1>2. LiveKept(job, job', {}) /\ AllAwaitedKept(job')  BY <1>1 DEF LiveKept, AllAwaitedKept
<1>3. OwnRows'  BY <1>1, <1>2, OwnKeptByAll
<1>4. ASSUME NEW decision \in Disposition, Review(r, decision) PROVE UndecidedHasJob'
  <2>1. PICK key, p : Commit(r, key, p, decision, "reviewer")  BY <1>4 DEF Review
  <2>2. receipt'[r].status = decision /\ \A q \in Receipts \ {r} : receipt'[q] = receipt[q]
    BY <1>0, <2>1 DEF Commit, Bound, LedgerOK
  <2>3. Rests(r)'  BY <2>2 DEF Rests, Disposition, Undecided
  <2>4. QED BY <1>1, <1>2, <2>2, <2>3, HandsKept
<1>5. ASSUME DisqualifyEntry(r) \/ ReinstateEntry(r) PROVE UndecidedHasJob'
  <2>1. UNCHANGED receipt  BY <1>5 DEF DisqualifyEntry, ReinstateEntry
  <2>2. QED BY <1>1, <1>2, <2>1, HandsKeptByAll
<1>6. QED BY <1>3, <1>4, <1>5 DEF HandInv

LEMMA CrashHands ==
  ASSUME HandInv, Bound', (\E w \in Workers : Crash(w)) \/ UNCHANGED vars
  PROVE  HandInv'
<1>1. UNCHANGED <<receipt, stuck, job>>  BY DEF Crash, vars, ledger, ladder
<1>2. LiveKept(job, job', {}) /\ AllAwaitedKept(job')  BY <1>1 DEF LiveKept, AllAwaitedKept
<1>3. UndecidedHasJob'  BY <1>1, <1>2, HandsKeptByAll
<1>4. OwnRows'
  <2>1. ASSUME NEW w \in Workers, Crash(w) PROVE OwnRows'  BY <1>2, <2>1, AllIsOwn, OwnKept DEF Crash
  <2>2. CASE UNCHANGED vars  BY <1>2, <2>2, OwnKeptByAll DEF vars
  <2>3. QED BY <2>1, <2>2
<1>5. QED BY <1>3, <1>4 DEF HandInv

LEMMA NextHands == HandInv /\ Bound' /\ [Next]_vars => HandInv'
<1> SUFFICES ASSUME HandInv, Bound', [Next]_vars PROVE HandInv'  OBVIOUS
<1>1. ASSUME NEW w \in Workers, Answer(w) PROVE HandInv'
  BY <1>1, DecideHands, DelayHands DEF Answer
<1>2. QED BY <1>1, SubmitHands, TakeHands, JobHands, LedgerHands, CrashHands DEF Next

\* A receipt that waits for its decision is never forgotten between the two tables: its
\* retry ladder ended in the alert, or a job of it is queued, leased, abandoned or shown
\* as dead, whoever decided, delayed or reprocessed it in between and whichever worker
\* finished a job that another one still held. Where processes die between statements, it
\* still holds of every receipt that was taken up (receipt-pipeline.mjs, intake.mjs).
THEOREM UndecidedIsInHand == Spec => []UndecidedHasJob
<1>1. Init => HandInv
  <2> SUFFICES ASSUME Init PROVE HandInv  OBVIOUS
  <2>1. Bound  BY InitBound
  <2>2. OwnRows  BY DEF Init, OwnRows
  <2>3. UndecidedHasJob  BY DEF Init, UndecidedHasJob, Rests, Undecided
  <2>4. QED BY <2>1, <2>2, <2>3 DEF HandInv
<1>2. HandInv => Bound /\ UndecidedHasJob  BY DEF HandInv
<1>3. HandInv /\ [Next]_vars => HandInv'  BY <1>2, NextBound, NextHands
<1>4. QED BY <1>1, <1>2, <1>3, PTL DEF Spec

=============================================================================
