------------------------------ MODULE Receipts ------------------------------
(***************************************************************************)
(* The receipt pipeline (src/src/receipt-pipeline.mjs) and the job queue   *)
(* that drives it (src/src/intake.mjs): submission, extraction, automatic  *)
(* decision, duplicate resolution, review, reprocessing, and the entry     *)
(* that a credited purchase earns.                                         *)
(*                                                                         *)
(* A decision is one transaction, but the extraction before it is awaited: *)
(* reviewers, operators and other workers act on the receipt meanwhile.    *)
(* What the extractor reads and what the eligibility rules say of it are   *)
(* chosen freely among what the image allows.                              *)
(***************************************************************************)
EXTENDS Integers, FiniteSets

CONSTANTS
  Receipts, Workers, Jobs,
  Participants, OwnerOf,   \* who submits a receipt
  Purchases,               \* canonical keys: outlet, date, number and total (one
                           \* whose total is unreadable is the row it matches)
  ReadsOf,                 \* the keys an extractor may read off a receipt
  Alike,                   \* pairs of keys with one printed identity
  Copies,                  \* pairs of receipts with the same image bytes
  MaxAttempts,             \* JOB_MAX_ATTEMPTS
  MaxRetries,              \* length of the retry ladder of delay()
  MaxAsks,                 \* bound: job retries and disqualifications
  Cuts,                    \* whether a process may die between two statements
  None

ASSUME ReceiptsAssumption ==
  /\ OwnerOf \in [Receipts -> Participants]
  /\ None \notin Purchases \cup Receipts \cup Jobs
  /\ ReadsOf \in [Receipts -> SUBSET (Purchases \cup {None})]
  /\ Alike \subseteq Purchases \X Purchases
  /\ Copies \subseteq Receipts \X Receipts
  /\ MaxAttempts \in Nat \ {0} /\ MaxRetries \in Nat /\ MaxAsks \in Nat
  /\ Cuts \subseteq BOOLEAN /\ FALSE \in Cuts

VARIABLES
  receipt,    \* receipts
  canon,      \* canonical_receipts, by key
  entry,      \* entries, by receipt
  task,       \* review_tasks.state ('assigned' is an open task)
  job,        \* jobs of kind receipt.process
  worker,     \* the job each worker loop awaits
  retries,    \* retry jobs delay() queued so far
  stuck,      \* the last delay() raised the receipt.stuck alert
  asks        \* those requests so far

vars == <<receipt, canon, entry, task, job, worker, retries, stuck, asks>>
ledger == <<receipt, canon, entry, task>>   \* what decisions write
queue  == <<job, worker, asks>>
ladder == <<retries, stuck>>

-----------------------------------------------------------------------------
Undecided   == {"received", "processing", "delayed"}
\* NOT_QUALIFIED stands for REUPLOAD_REQUIRED too: they differ in wording only.
Disposition == {"QUALIFIED", "NOT_QUALIFIED", "REVIEW_REQUIRED", "DUPLICATE"}

ReceiptRow == [status : Undecided \cup Disposition \cup {"none"},
               key : Purchases \cup {None},        \* fingerprint
               canonical : Purchases \cup {None}]  \* canonical_receipt_id
CanonRow   == [status : {"none", "pending", "credited"},
               first : Receipts \cup {None},
               credited : Receipts \cup {None}]
EntryRow   == [status : {"none", "active", "excluded"},
               purchase : Purchases \cup {None},
               by : {"none", "system", "reviewer"}]
JobRow     == [status : {"free", "ready", "leased", "expired", "done", "dead"},
               receipt : Receipts \cup {None},
               attempts : 0..MaxAttempts]

NoJob  == [status |-> "free", receipt |-> None, attempts |-> 0]
Idle   == [job |-> None, receipt |-> None, attempts |-> 0]

Claimed(p)  == p # None /\ canon[p].status # "none"
Entered(p)  == \E r \in Receipts : entry[r].status # "none" /\ entry[r].purchase = p
Alikes(p)   == {q \in Purchases : (<<p, q>> \in Alike \/ <<q, p>> \in Alike) /\ Claimed(q)}
CopiesOf(r) == {s \in Receipts : <<r, s>> \in Copies \/ <<s, r>> \in Copies}

Init ==
  /\ receipt = [r \in Receipts |-> [status |-> "none", key |-> None, canonical |-> None]]
  /\ canon = [p \in Purchases |-> [status |-> "none", first |-> None, credited |-> None]]
  /\ entry = [r \in Receipts |-> [status |-> "none", purchase |-> None, by |-> "none"]]
  /\ task = [r \in Receipts |-> "none"]
  /\ job = [j \in Jobs |-> NoJob]
  /\ worker = [w \in Workers |-> Idle]
  /\ retries = [r \in Receipts |-> 0]
  /\ stuck = [r \in Receipts |-> FALSE]
  /\ asks = 0

-----------------------------------------------------------------------------
(* Submission and the job queue                                            *)

\* The job table with a new row. The row of a finished job is used again once
\* no worker awaits it.
Queued(rows, r) ==
  {[rows EXCEPT ![j] = [status |-> "ready", receipt |-> r, attempts |-> 0]] :
     j \in {i \in Jobs : rows[i].status \in {"free", "done"}
                         /\ \A w \in Workers : worker'[w].job # i}}

Done(w, j) ==
  IF \E v \in Workers \ {w} : worker[v].job = j
  THEN [job EXCEPT ![j].status = "done"] ELSE [job EXCEPT ![j] = NoJob]

\* The receipt and its job are inserted by two statements. A replay of the
\* provider message finds the receipt and queues nothing.
Submit(r, cut) ==
  /\ receipt[r].status = "none"
  /\ receipt' = [receipt EXCEPT ![r].status = "received"]
  /\ UNCHANGED <<canon, entry, task, worker, asks, ladder>>
  /\ IF cut THEN UNCHANGED job ELSE job' \in Queued(job, r)

Offered(j) == job[j].status \in {"ready", "expired"} /\ job[j].attempts < MaxAttempts

\* processNextJob() leases a job and enters process(), which returns at once
\* from a receipt that is decided and claims any other.
Take(w, j) ==
  LET r == job[j].receipt IN
  /\ worker[w] = Idle /\ Offered(j)
  /\ IF receipt[r].status \in Disposition
     THEN /\ job' = Done(w, j)
          /\ UNCHANGED <<receipt, worker>>
     ELSE /\ job' = [job EXCEPT ![j].status = "leased", ![j].attempts = @ + 1]
          /\ receipt' = [receipt EXCEPT ![r].status = "processing"]
          /\ worker' = [worker EXCEPT ![w] =
               [job |-> j, receipt |-> r, attempts |-> job[j].attempts + 1]]
  /\ UNCHANGED <<canon, entry, task, asks, ladder>>

\* The outcome of a job is written by its id, whatever became of the lease.
Finish(w, dies) ==
  /\ worker' = [worker EXCEPT ![w] = Idle]
  /\ job' = IF dies THEN job ELSE Done(w, worker[w].job)

Throw(w) ==
  /\ worker' = [worker EXCEPT ![w] = Idle]
  /\ job' = [job EXCEPT ![worker[w].job].status =
                IF worker[w].attempts >= MaxAttempts THEN "dead" ELSE "ready"]

Crash(w) ==
  /\ worker[w] # Idle
  /\ worker' = [worker EXCEPT ![w] = Idle]
  /\ UNCHANGED <<ledger, job, asks, ladder>>

LeaseEnds(j) ==
  /\ job[j].status = "leased"
  /\ job' = [job EXCEPT ![j].status = "expired"]
  /\ UNCHANGED <<ledger, worker, asks, ladder>>

\* Fault: the sweep waits for one attempt more than the selector offers.
AbandonedLate(j) == job[j].status = "expired" /\ job[j].attempts > MaxAttempts

Abandoned(j) == job[j].status = "expired" /\ job[j].attempts >= MaxAttempts

SweepStranded ==
  /\ \E j \in Jobs : Abandoned(j)
  /\ job' = [j \in Jobs |->
       IF Abandoned(j) THEN [job[j] EXCEPT !.status = "dead"] ELSE job[j]]
  /\ UNCHANGED <<ledger, worker, asks, ladder>>

RetryJob(j) ==
  /\ asks < MaxAsks
  /\ \/ job[j].status \in {"dead", "expired"}
     \/ job[j].status = "ready" /\ job[j].attempts > 0
  /\ job' = [job EXCEPT ![j].status = "ready", ![j].attempts = 0]
  /\ asks' = asks + 1
  /\ UNCHANGED <<ledger, worker, ladder>>

-----------------------------------------------------------------------------
(* The decision                                                            *)

\* Another receipt already holds the credit of this purchase, or of this image.
Duplicate(r, p) ==
  \/ Claimed(p) /\ canon[p].first # r /\ canon[p].status = "credited"
  \/ \E s \in CopiesOf(r) : receipt[s].status = "QUALIFIED"

\* Fault: ownership is disputed only while the first presentation is undecided.
DisputedUndecided(r, p, verdict) ==
  /\ Claimed(p) /\ canon[p].first # r
  /\ OwnerOf[canon[p].first] # OwnerOf[r]
  /\ receipt[canon[p].first].status \in Undecided \cup {"REVIEW_REQUIRED"}

\* Somebody else presented this purchase first.
Disputed(r, p, verdict) ==
  /\ Claimed(p) /\ canon[p].first # r
  /\ OwnerOf[canon[p].first] # OwnerOf[r]
  /\ \/ receipt[canon[p].first].status \in Undecided \cup {"REVIEW_REQUIRED"}
     \/ verdict = "QUALIFIED"

\* The printed identity is claimed under another key.
Suspicious(p) == p # None /\ ~Claimed(p) /\ Alikes(p) # {}

Decision(r, p, verdict) ==
  IF Duplicate(r, p) THEN "DUPLICATE"
  ELSE IF Disputed(r, p, verdict) \/ Suspicious(p) THEN "REVIEW_REQUIRED"
  ELSE verdict

\* commit() writes status, canonical row, entry and task together, or throws:
\* entries are unique by canonical row and by receipt.
MayCredit(r, p) == p # None /\ ~Entered(p) /\ entry[r].status = "none"

\* Fault: insert or ignore, so a decided task stays decided.
OpenedOnce(state) == IF state = "none" THEN "open" ELSE state

Opened(state) == "open"

\* Fault: a later decision takes the credit off the claim.
CanonUncredited(r, p, decision) ==
  IF p = None THEN canon
  ELSE [canon EXCEPT ![p] =
    [status |-> IF decision = "QUALIFIED" THEN "credited" ELSE "pending",
     first |-> IF @.status = "none" THEN r ELSE @.first,
     credited |-> IF decision = "QUALIFIED" THEN r ELSE @.credited]]

CanonAfter(r, p, decision) ==
  IF p = None THEN canon
  ELSE [canon EXCEPT ![p] =
    [status |-> IF decision = "QUALIFIED" THEN "credited"
                ELSE IF @.status = "none" THEN "pending" ELSE @.status,
     first |-> IF @.status = "none" THEN r ELSE @.first,
     credited |-> IF decision = "QUALIFIED" THEN r ELSE @.credited]]

Commit(r, key, p, decision, by) ==
  /\ receipt' = [receipt EXCEPT ![r] =
       [status |-> decision, key |-> key,
        canonical |-> IF p = None THEN @.canonical ELSE p]]
  /\ canon' = CanonAfter(r, p, decision)
  /\ entry' = IF decision # "QUALIFIED" THEN entry
              ELSE [entry EXCEPT ![r] = [status |-> "active", purchase |-> p, by |-> by]]

\* process() after the extraction: the rules' verdict, then what is known of
\* the purchase. A key that could not be read is never a clean verdict. A
\* period already drawn, or automatic qualification paused, is a verdict of
\* REVIEW_REQUIRED. A duplicate claims nothing new.
Decide(w) ==
  LET r == worker[w].receipt IN
  /\ worker[w] # Idle
  /\ \E p \in ReadsOf[r], verdict \in Disposition \ {"DUPLICATE"} :
       LET d == Decision(r, p, verdict)
           claim == IF d = "DUPLICATE" /\ ~Claimed(p) THEN None ELSE p IN
       /\ verdict = "QUALIFIED" => p # None
       /\ IF d = "QUALIFIED" /\ ~MayCredit(r, p)
          THEN Throw(w) /\ UNCHANGED ledger
          ELSE /\ Commit(r, p, claim, d, "system")
               /\ task' = IF d = "REVIEW_REQUIRED"
                          THEN [task EXCEPT ![r] = Opened(@)] ELSE task
               /\ \E dies \in Cuts : Finish(w, dies)
  /\ UNCHANGED <<asks, ladder>>

\* delay(): the extractor or the media store failed. The receipt parks, and a
\* retry is queued while the failure is transient and the ladder lasts; then an
\* alert is raised. Nothing asks what became of the receipt meanwhile.
Delay(w, transient, dies) ==
  LET r == worker[w].receipt
      queues == transient /\ retries[r] < MaxRetries IN
  /\ worker[w] # Idle
  /\ receipt' = [receipt EXCEPT ![r].status = "delayed"]
  /\ worker' = [worker EXCEPT ![w] = Idle]
  /\ IF dies THEN UNCHANGED <<job, ladder>>
     ELSE /\ IF queues THEN job' \in Queued(Done(w, worker[w].job), r)
                       ELSE job' = Done(w, worker[w].job)
          /\ retries' = [retries EXCEPT ![r] = IF queues THEN @ + 1 ELSE @]
          /\ stuck' = [stuck EXCEPT ![r] = ~queues]
  /\ UNCHANGED <<canon, entry, task, asks>>

-----------------------------------------------------------------------------
(* Reviewers and operators                                                 *)

\* The canonical row a reviewer credits: the one of the key, or of the same
\* outlet, day and number (the totals of two alike keys differ).
Review(r, decision) ==
  LET p == receipt[r].key IN
  /\ receipt[r].status \notin {"none", "QUALIFIED"} /\ task[r] # "decided"
  /\ decision \in Disposition \ {"REVIEW_REQUIRED"}
  /\ decision = "QUALIFIED" =>
       /\ p # None
       /\ ~(canon[p].status = "credited" /\ canon[p].credited # r)
       /\ MayCredit(r, p)
  /\ Commit(r, receipt[r].key,
            IF decision = "QUALIFIED" THEN p ELSE receipt[r].canonical,
            decision, "reviewer")
  /\ task' = IF task[r] = "none" THEN task ELSE [task EXCEPT ![r] = "decided"]
  /\ UNCHANGED <<queue, ladder>>

\* Three statements: status, task, job.
Reprocess(r, cut) ==
  /\ receipt[r].status \notin {"none", "QUALIFIED"}
  /\ receipt' = [receipt EXCEPT ![r].status = "received"]
  /\ \E closed \in {~cut, TRUE} :
       task' = IF closed /\ task[r] = "open" THEN [task EXCEPT ![r] = "decided"] ELSE task
  /\ UNCHANGED <<canon, entry, worker, asks, ladder>>
  /\ IF cut THEN UNCHANGED job ELSE job' \in Queued(job, r)

DisqualifyEntry(r) ==
  /\ asks < MaxAsks
  /\ entry[r].status = "active"
  /\ entry' = [entry EXCEPT ![r].status = "excluded"]
  /\ asks' = asks + 1
  /\ UNCHANGED <<receipt, canon, task, job, worker, ladder>>

ReinstateEntry(r) ==
  /\ entry[r].status = "excluded"
  /\ entry' = [entry EXCEPT ![r].status = "active"]
  /\ UNCHANGED <<receipt, canon, task, queue, ladder>>

-----------------------------------------------------------------------------
Answer(w) ==
  \/ Decide(w)
  \/ \E transient \in BOOLEAN, dies \in Cuts : Delay(w, transient, dies)

Next ==
  \/ \E w \in Workers : (\E j \in Jobs : Take(w, j)) \/ Answer(w) \/ Crash(w)
  \/ \E r \in Receipts :
       \/ \E cut \in Cuts : Submit(r, cut) \/ Reprocess(r, cut)
       \/ \E decision \in Disposition : Review(r, decision)
       \/ DisqualifyEntry(r) \/ ReinstateEntry(r)
  \/ \E j \in Jobs : LeaseEnds(j) \/ RetryJob(j)
  \/ SweepStranded

Spec == Init /\ [][Next]_vars

\* Jobs are taken oldest first, an extraction returns or fails, leases run out
\* and housekeeping sweeps every minute.
FairReceipts ==
  /\ Spec
  /\ \A j \in Jobs : SF_vars(\E w \in Workers : Take(w, j))
  /\ \A w \in Workers : WF_vars(Answer(w))
  /\ \A j \in Jobs : WF_vars(LeaseEnds(j))
  /\ WF_vars(SweepStranded)

-----------------------------------------------------------------------------
(* Properties                                                              *)

ReceiptsTypeOK ==
  /\ receipt \in [Receipts -> ReceiptRow]
  /\ canon \in [Purchases -> CanonRow]
  /\ entry \in [Receipts -> EntryRow]
  /\ task \in [Receipts -> {"none", "open", "decided"}]
  /\ job \in [Jobs -> JobRow]
  /\ worker \in [Workers -> [job : Jobs \cup {None}, receipt : Receipts \cup {None},
                            attempts : 0..MaxAttempts]]
  /\ retries \in [Receipts -> 0..MaxRetries]
  /\ stuck \in [Receipts -> BOOLEAN] /\ asks \in 0..MaxAsks

\* The canonical claim and the entry ledger agree: a purchase is marked credited
\* exactly when one entry stands for it, and it names the receipt that earned it.
CreditMatchesEntry ==
  \A p \in Purchases :
    /\ canon[p].status = "credited" <=> Entered(p)
    /\ \A r \in Receipts : entry[r].status # "none" /\ entry[r].purchase = p
                          => canon[p].credited = r

\* A receipt that waits for a person is in a reviewer's queue, however often it
\* was decided and reprocessed before.
ReviewHasOpenTask ==
  \A r \in Receipts : receipt[r].status = "REVIEW_REQUIRED" => task[r] = "open"

\* A purchase two participants presented is never credited by the pipeline to
\* the second of them: a person decides whose it is.
SecondPresenterIsReviewed ==
  \A r \in Receipts : entry[r].by = "system" =>
    OwnerOf[canon[entry[r].purchase].first] = OwnerOf[r]

\* A submission does not stay undecided unseen: it is decided, or its job shows
\* as failed or dead, or its retry ladder ends in an alert.
Listed(j) == job[j].status = "dead" \/ (job[j].status = "ready" /\ job[j].attempts > 0)
Waiting(r) ==
  /\ receipt[r].status \in Undecided
  /\ ~(receipt[r].status = "delayed" /\ stuck[r])
  /\ ~\E j \in Jobs : job[j].receipt = r /\ Listed(j)
SubmissionsSettle == \A r \in Receipts : Waiting(r) ~> ~Waiting(r)

=============================================================================
