----------------------- MODULE DrawsImplementPromise -----------------------
(* The refinement mapping under which Draws implements DrawPromise.        *)
EXTENDS Draws

\* "frozen" and "executing" are one stage to an outsider: the pool and the seed
\* are fixed and no result exists.
StageOf(status) ==
  CASE status = "absent" -> "none"
    [] status \in {"frozen", "executing"} -> "sealed"
    [] status = "executed" -> "drawn"
    [] status = "approved" -> "endorsed"
    [] status = "published" -> "announced"
    [] status = "voided" -> "discarded"

SealContents ==
  [period : Periods, cands : SUBSET Entries, excl : SUBSET Entries, seed : Seeds]

SealOf(row) ==
  [period |-> row.period, cands |-> row.cands, excl |-> row.excl, seed |-> row.seed]

SealPeriod(content) == content.period
SealOutcome(content) == SelectWinners(content.cands, content.seed)

Promise == INSTANCE DrawPromise WITH
  Ids <- DrawIds, Contents <- SealContents, PeriodOfSeal <- SealPeriod,
  Outcome <- SealOutcome, NoResult <- NoOutput,
  stage <- [d \in DrawIds |-> StageOf(draw[d].status)],
  sealed <- [d \in DrawIds |-> SealOf(draw[d])],
  result <- [d \in DrawIds |-> draw[d].output]

\* The draw service keeps the promise: whatever the order of freezes, resumed
\* executions, decisions, voids, reruns and crashes between their statements, an
\* outsider sees sealed content first, the one result it determines next, and at
\* most one draw of a period in force (src/draw.mjs).
ImplementsPromise == Promise!Spec
=============================================================================
