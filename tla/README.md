# A verification of the promotion platform

TLA+ specifications of the WhatsApp promotion platform in `src/`: participants
send photographs of receipts, receipts earn entries, entries are drawn, winners
claim prizes, and everything people hear about it goes through one outbox. The
platform is one Node process (sometimes two during a redeploy) over synchronous
SQLite. That makes single handlers atomic and hides the hard part: what happens
*between* handlers, around every `await`, between two statements that are not in
one transaction, and when the process dies.

## Inventory

| Part | Code | State it keeps | Operations | Hard behaviour | What makes it correct |
|---|---|---|---|---|---|
| Inbound intake | `intake.mjs` | `channel_events` | receive, lease, process, dead-letter, replay, sweep | provider retries, expired leases, crashes, erasure under way | a stored receipt is acknowledged, what was erased stays gone |
| Job queue | `intake.mjs` | `jobs` | lease, run, fail, dead-letter, retry, sweep | leases that end under a live worker, abandoned leases at the cap | no job disappears unseen |
| Conversation | `conversation.mjs`, `nlp.mjs`, `copy.mjs` | `conversation_sessions` | turns, registration, retailer and branch choice, handoff, held outcomes | repeated turns, an operator or a withdrawal in the middle of a turn, numbers that mean two things | terms are read last, every option can be chosen, outcomes are held only while somebody owns the talk |
| Campaign | `services.mjs`, `activation.mjs` | campaigns, versions, periods, outlets, decisions | activate, edit, plan, close, reopen, decide | edits around a draw, a gate that is awaited | a drawn week is the week that was drawn |
| Participants | `services.mjs` | `participants`, identities, consents, `alerts` | register, withdraw, erase, change number | one identity behind many numbers, alerts that exist already | reuse is flagged |
| Receipt pipeline | `receipt-pipeline.mjs`, `duplicates.mjs`, `extract/` | `receipts`, `canonical_receipts`, `review_tasks` | submit, process, delay, review, reprocess | the extraction is awaited while people act; retries of decided work | one credit per purchase; status, claim, entry and review queue agree |
| Rules | `eligibility.mjs` | none | a function of a reading and the version's rules | aliases inside names, ambiguous dates, caps | nothing is credited on a guess |
| Media store | `media.mjs` | `media_assets`, files | store, reuse, touch, purge | files before rows, reuse against retention | a receipt within retention has its photo |
| Entry ledger | `receipt-pipeline.mjs` | `entries`, `entry_events` | award, disqualify, reinstate | frozen pools | a frozen pool is left under two names only |
| Draws | `draw.mjs`, `routes/admin.mjs` | `draws`, `draw_candidates` | freeze, execute, approve, reject, publish, void, rerun | reservation and resume, crash between statements, roles that move, pool that moves | one draw in force, sealed evidence, separated duties |
| Winners | `winner-service.mjs` | `winners`, `claims` | materialise, notify, transition, replace, expire, publish, void | deadlines against late answers, lost notices, replacements against voids | one holder per prize, stored order of alternates |
| Outbox | `outbox.mjs`, `transport/cloud-api.mjs` | `outbound_messages` | enqueue, lease, policy, send, callback, retry, reclaim | unknown outcomes, expired leases, callbacks out of order | at most one acceptance per request; every message settles |
| CRM | `crm.mjs` | `crm_events`, `crm_external_refs` | emit, deliver, read back, reconcile, requeue | unknown outcomes, superseded versions, faults in the reconciliation | a row that says delivered is held by the CRM; the CRM catches up |
| Accounts | `auth.mjs`, `mfa.mjs`, `server.mjs` | `admin_users`, `auth_tokens`, TOTP secrets, login counters | login, second factor, enrolment, roles, passwords, disabling | requests in flight while the account changes | a session has what its account has; a factor is not shed by a session without it |
| Audit chain | `audit.mjs` | `audit_events`, `audit_checkpoints` | record, checkpoint, verify | two processes on one head | the chain verifies |
| Database | `db.mjs` | schema ledger, one connection | migrate, `tx` | several migrators, nested transactions that throw | each file once; nothing of a call that threw |
| Deployment | `bootstrap.mjs`, `config.mjs`, `server.mjs` | data volume and its marker, `schema_meta` | boot, prove the volume, seed, redeploy | a volume that is not mounted | no data on the container's layer |
| Linked device | `transport/linked-device.mjs` | sockets, timers, credentials | connect, pair, drop, unlink, file messages | callbacks of superseded sockets, timers against stop | it keeps trying |
| Worker | `worker.mjs` | tick, in-flight promise, checkpoints | tick, housekeeping, stop, health | a second tick while one runs, shutdown, two processes in a redeploy | drained means idle; fairness of the queues |
| Periphery | `http.mjs`, consoles, desk, assistant, scripts | | | | |

How they interact: the intake calls the conversation, which calls
`pipeline.submit`; a job calls `pipeline.process`; the pipeline asks the rules and writes
entries, outbox rows and CRM events in the same transaction as its decision; draws read
entries, participants and periods at freeze and nothing afterwards; publication
calls the winner service, which fills the outbox; the worker drains events, jobs,
outbox and CRM in that order and runs housekeeping. Administrators reach all of it through
requests that authenticate, wait for their body, act, and are recorded in the audit chain.
`PROJECT.json` lists every component with its status, and every hazard at the line where
it bites.

## The modules

`Draws` models the draw service with what it reads. A draw is a row of the table
(`draw[d]`, ids in creation order); `Freeze`, `Execute`, `Approve`, `Reject`,
`Publish`, `VoidDraw`, `Rerun` are the handlers of `draw.mjs` with the checks their routes
make. A route that takes a body has its role checked before the body is awaited and not
again: `admitted` holds the roles with which requests were let in, and `LetIn` is the guard
of `Freeze`, `Approve`, `Reject`, `VoidDraw` and `Rerun`, whereas `Execute` and `Publish`
await nothing. An argument `cut` stands for the process dying between two
statements that share no transaction; `RerunVoidOnly` is the rerun whose second
half was refused after its void was committed. `Submit`, `Award`, `Refuse`,
`Reprocess`, `Disqualify`, `Reinstate`, `Leave`, `PeriodEnds`, `UpsertPeriod`,
`SetRole` and `PauseDraws` are the moves of the rest of the system that a draw can
notice. HMAC ranking is an unknown injective order per seed; digests are the values
they digest.

`DrawPromise` says what an outsider is promised: content is sealed in one step, its
result appears after it and is the one it determines, it is endorsed before it is
announced, a period has one draw in force. `DrawsImplementPromise` is the refinement
mapping; reservation, resumption and partial writes are stuttering steps.

`Promotion` extends `Draws` with the `winners` table (a sequence of rows per draw).
Every draw action reappears with its effect on winners: publication materialises,
a void takes winners along, a freeze looks up prior winners. `Notify`, `Transition`,
`ExpireDue`, `PublishWinner`, `Unpublish` are the winner handlers;
`WithAlternate` is the promotion of an alternate inside a replacement.
`ClaimPasses` and `NoticeTurns` are time and delivery as the service sees them.
`PrizePromise` is the abstract life of a prize that `Promotion` implements.

`Receipts` models the job queue together with the receipt pipeline, because one is the
scheduler of the other. `Take` is the synchronous prefix of `process()`, `Decide` and
`Delay` its two ends after the awaited extraction; between them everybody else may act.
`Decision` is the chain of duplicate, ownership and look-alike checks, `Commit` the
shared integrity path. What the extractor reads and what the rules say are free choices.
`Review`, `Reprocess`, `DisqualifyEntry`, `ReinstateEntry` are people; `LeaseEnds`,
`Crash`, `SweepStranded` and `RetryJob` are the queue's recovery.

`Outbox` models `outbound_messages` and the worker loops that drain it: `Pick` and
`Lease` are separate steps because the row is read before it is leased, `Block` is the
recipient policy, `Dispatch` the awaited call, and its ends are `SendSucceeds`,
`SendFails` and `SendTimesOut`. The provider is external: `ProviderAccepts` happens
between dispatch and answer. `MarkDelivery`, `Retry`, `ReleaseHold`, `ReclaimStalled`
and `AnonymiseParticipant` are everybody else.

`Conversation` is one session per telephone number with the participant behind it. A
turn (`Turn`) is one call of `handle()`: its disjuncts are the states of the dialogue and
the commands that work in any of them. A text is a member of `Vocabulary`, that is, what
`nlp.mjs` makes of it; a list on the screen is an ordered page, so that a digit is an
answer or a position just as in the code. A turn that submits a photo awaits the store and
saves the session afterwards against its version (`SaveSubmitted`); the retry of a
conflicting save is `Reapplied`. `Intake` extends it with `channel_events`: `Receive`,
`Take`, `Fetched`, `Handle`, `Store`, the replies and the end of the event, `LeaseEnds`,
crash, sweep and replay, against `Anonymise`, changed numbers, claims and withdrawals at any
point of a turn.

`Crm` models `crm_events`: `Emit` in the transaction of the change, `Pick` with its guard
against older versions, the awaited upsert with its four ends, `ReadBack`, and the
reconciliation (`StartScan`, `ScanAsks`, `ScanWrites`), which holds rows it read before an
await. The vendor is external.

`Console` is the administration API: a request (`Handlers`) authenticates, awaits its
body, runs, and is recorded. It extends four modules of operators and small actions:
`Staff` (accounts, sessions, second factor, login brakes), `Campaign` (campaigns, versions,
weeks, branches, decisions, the production gate), `Audit` (the chain and its two writers)
and `Eligibility` (the rule function over tills, where text is the set of catalogue keys it
contains). `Server` composes the API with the rest of the process: `Store` (migrations and
`tx`), `Deploy` (volumes, markers, boots and tools), `Media` (photos and retention),
`People` (registration, identities and alerts), `Link` (the linked device) and `Worker`
(the loop). These parts share no variable; `Families` says which of them a behaviour uses,
so that TLC explores their union and not their product.

`MCDraws`, `MCPromotion`, `MCReceipts`, `MCOutbox`, `MCIntake`, `MCCrm` and `MCConsole`
give the constants their small values. `DrawsProofs`, `PromotionProofs`, `ReceiptsProofs`,
`OutboxProofs`, `IntakeProofs`, `CrmProofs`, `ConsoleProofs` and `ServerProofs` hold the proofs. A definition whose comment starts with "Fault:" or says
what an earlier version did is a plausible bug of the definition beside it; no
specification uses it. It is there to show that each checked property would notice that bug.

## What TLC checks

| Run | Instance | Shows | Distinct states |
|---|---|---|---|
| `draws_duties` | 3 accounts whose roles may change at any time, 1 entry, 1 draw | whoever approved neither froze nor executed; a seen result is discarded by an account outside the draw that was let in as an approver, or under a second name | about 154 000 |
| `draws_evidence` | 2 participants, 2 contested entries, 2 draws of one period, the pause switch, crashes | one draw in force, results follow from the seal, awards respect the freeze, refinement of `DrawPromise` | about 221 000 |
| `promotion_prizes` | 1 prize, 2 alternates, 3 entries, any order of claim events and a void | order of alternates, refinement of `PrizePromise` (one holder per prize) | about 398 000 |
| `promotion_claims` | 1 winner, deadlines, lost notices, a rerun | the public list is sound; due claims are settled (liveness) | about 36 000 |
| `receipts_decisions` | 2 participants, 2 receipts, one of which can be read as the other's purchase, 2 jobs | claims match entries, reviews are queued, second presenters are reviewed | about 1 651 000 |
| `receipts_queue` | 1 receipt, 2 workers, 2 jobs, 2 attempts, 1 retry | every submission is decided or shown to an operator (liveness) | about 78 000 |
| `outbox_sends` | 1 message, 2 workers, 2 attempts, 2 requests | at most one acceptance per request, delivery stands, every message settles (liveness) | about 83 000 |
| `intake_dialogue` | 1 number, 11 branches of 9 retailers on two pages, 0 or 9 published weeks, the whole vocabulary, with and without the ID question | terms come last, every option on the screen can be chosen, outcomes are held only while an operator owns the talk | about 1 537 000 |
| `intake_queue` | a photo and a MENU, 2 workers, 2 attempts, 1 act of staff (replay, claim, release, withdrawal, erasure, move) | a stored receipt is acknowledged, erased stays gone, a claim survives the turn under way | about 730 000 |
| `crm_delivery` | 2 versions of one record, 2 attempts, 3 faults, 1 operator retry | delivered is held, stamped was accepted, the CRM catches up (liveness) | about 95 000 |
| `console_requests` | the families of one server, 2 accounts, 2 requests at once, 2 processes | the properties of accounts, brakes, audit chain, weeks, rules, migrations, transactions, volumes, photos, identities and the linked device | about 435 000 |

One run expects a violation. `worker_drain`: the interval fires while a tick runs; the new
call of `tick()` returns at once, its promise replaces the one that `stop()` waits for and
then clears it, so the process is told that everything has drained while the first tick is
still at work. `worker.mjs:220` promises to "DRAIN the one in flight". TLC's trace has four
states and needs no fault.

### Divergences no run states

Each was met while translating the code. Where a constant, a variable or a clause keeps one
out of the properties above, it is named:

- **Draws.** The role of a caller is read when the request is let in and the handler then
  awaits its body (`http.mjs:78-84`, `routes/admin.mjs:213-223`); the draw service does not
  read it again (`draw.mjs:262-273`). An account that lost a draw role meanwhile still
  freezes, approves, voids or discards a seen result alone, though `auth.mjs:136` ends its
  sessions (`admitted`; the property asks for the role at that earlier moment). A voided
  draw can be voided again, which unlocks the period of its published replacement
  (`draw.mjs:300`). The rerun route does not read the pause flag
  (`routes/admin.mjs:223`). A rerun of an older draw rewrites the link freeze made
  (`draw.mjs:307`). Between the two statements of a void a crash leaves holders of a voided
  draw (`draw.mjs:291`, `Cuts`). A period frozen between another draw's approval and its
  publication does not exclude that draw's winners, because they are looked up before they
  are materialised (`draw.mjs:133` against the comment at `:67`; `CampaignExclusion`).
- **Winners.** Disqualifying an entry does not withdraw its winner's publication
  (`winner-service.mjs:294`).
- **Receipts.** An automatic decision that returns from the extractor replaces the decision
  a reviewer took meanwhile, and its entry can stay under a rejected receipt
  (`receipt-pipeline.mjs:254, 327` against `docs/architecture.md:53, 504`). A reprocess goes
  past the look-alike check, because the pass that sent the receipt to review created the
  row that switches the check off (`:201, :228` against `:196`; `Alike`). A crash between a
  receipt and its job leaves it unseen (`:89-97` against `intake.mjs:21-22`; `Cuts`).
- **Outbox.** A connection that breaks after the provider took a message counts as a plain
  failure, and the message is sent twice (`transport/cloud-api.mjs:80` against
  `outbox.mjs:11`; `Drops`). Messages held by policy use up attempts (`outbox.mjs:99`
  against `worker.mjs:46`). An erasure that meets a message in flight leaves it `sending`
  (`services.mjs:482`).
- **Intake.** Erasure during the download of a photo turns the cancelled event back to
  failed or processed and restores its payload (`intake.mjs:105-112` against
  `services.mjs:451-456`); `ErasedStaysGone` is about messages that nobody held when they
  were erased. A dead event is not cancelled by an erasure; a replay runs the
  conversation for `deleted:<id>`. `cloud-api.mjs:59` keeps the provider's raw message, so
  an ID number redacted elsewhere survives there. A failed event is overtaken by newer
  messages of its number.
- **Activation.** `activation.mjs:4` says the gate cannot be passed by; PATCH of an active
  campaign changes what it checked without running it again (`routes/admin.mjs:82,
  100-116`), and conditions may change while it awaits the providers.
- **Accounts.** A PATCH in flight that sets one's own status to active re-activates an
  account just disabled. A pending second-factor challenge survives a password reset. Two
  administrators can disable each other through requests in flight. The login throttle
  keeps 10 000 keys and drops those touched longest ago (`server.mjs:54-68`): logins for
  enough other names make it forget what a source spent on an account while the account's
  own count stays, so that one source can charge the account past its own ceiling, against
  `server.mjs:209-214` (the variable `swept`). Logins with a second factor are not audited,
  and an audit row is written after its change and outside its transaction.
- **CRM.** The bound on requeues is never reached (`crm.mjs:215` against the catch at `:161`,
  which rewrites the counter's place), and three old rejected rows fill the slice that the
  reconciliation looks at, so that later casualties wait for ever.
- **Deployment.** A seed run by hand on an unmarked volume before its first production boot
  puts sample data into a database recorded as production (against `demo-seed.mjs:37`).
  An older release that finishes migrating later writes the lower `schema_version`. A write of `schema_version` that fails is swallowed
  whatever the reason (`db.mjs:137`) and is not modelled. With `ENVIRONMENT=local` the check
  of the volume is off by design; such deployments are outside of `DataStaysOffTheLayer`.
- **Transactions.** When SQLite itself rolls a transaction back (a full disk, an I/O
  error) and a caller catches what the nested call threw, its further writes are committed
  one by one. `LosesConnection` ends every call at once instead; no caller in the repository
  catches a nested failure.
- **Rules.** `NoCreditOnAGuess` is about packs. A date that reads two ways
  (`eligibility.mjs:137-157`) is modelled and evaluated, but no property is about it.
- **Media.** A process that dies between the files and the row leaves a photo no purge
  finds (`media.mjs:213-221`). In a standalone worker the purge and a reuse in the server
  interleave inside `purgeExpired` as well.
- **Participants.** `changePhone` accepts a deleted participant.
- **Linked device.** The close of a superseded socket clears the ready flag of the new one;
  an unlink and a `loggedOut` handler can leave two sockets on one set of credentials; a
  connect that throws is swallowed and nothing tries again (the variable `lost`); an inbound
  text whose filing throws is lost.
- **Worker.** `/health/ready` answers 200 before the first tick. The standalone
  `worker.js` has no signal handler and never drains.

### Bounds

Every bound is a constant whose comment says so: `MaxDraws`, `StartingRoles`,
`Reassignable`, `Editable`, `Contested`, `PauseFlags` (Draws), `Clock` (Promotion),
`MaxAttempts`, `MaxRetries`, `MaxAsks`, `Jobs` (Receipts), `MaxAttempts`, `MaxAsks` (Outbox),
`Reuse`, `Senders`, `Speech`, `Numbers`, `Beginnings`, `MaxAsks` (Intake), `MaxVersion`, `MaxFaults`,
`MaxAsks` (Crm), `Families`, `MaxRows`, `MaxSecrets`, `MaxPasswords`, `WeekStates`,
`MaxDepth`, `MaxDay`, `MaxAlerts`, `MaxSockets`, `MaxWaits`, `MaxRounds` (Server). They are
chosen so that the interesting case happens: two draws of one period are a void and its
replacement; three accounts are the least with a freezer, an executor and an approver; two
alternates give an order that can be broken; two receipts of two people on one purchase
give every dispute; two jobs let one receipt be processed twice at once; two attempts are
one retry and the cap; eleven branches of nine retailers fill one page of eight and start a
second; two versions let one supersede the other; two processes and three files let each
migrator be ahead of the other; three nested transactions have an outermost, a middle and
a deepest. A cap of 2 stands for 5, 6 or 8: the code compares attempts with the cap and
does nothing else with them. `receipts_decisions` uses one worker and a cap of one attempt;
the second worker and the retry ladder are in `receipts_queue`.

`Families` is a bound of its own kind: each behaviour of `Server` uses one family of routes
or one part of the process. What it hides is an interleaving of two families; the modules'
variables are disjoint but for accounts, which the family of staff and second factor has
together, and the audit chain, which every request writes and whose two writers are a
family. Fault switches stand at their neutral setting where a divergence above would
otherwise be the only result: `Alike`, `Copies` and `Cuts` (Receipts), `Drops` (Outbox),
`CampaignExclusion` (Draws). Setting one shows the divergence.

Symmetry is used over accounts (`draws_duties`), jobs (`receipts_decisions`) and request,
session and source identities (`console_requests`), which no constant tells apart; none of
those runs checks liveness.

### Fairness

`FairPromotion`: housekeeping calls `expireDue` at every pass, so an enabled expiry
happens. `FairReceipts`: a call to the extractor returns or fails (both have time
limits), leases are clock times and run out, the sweep runs every minute, and a job that
is offered again and again is taken, because the selector orders by age. `FairOutbox`:
the same for the worker's pass, the provider call, leases and the reclaim. `FairCrm`: a tick
that finds a due event picks one (strongly, as another writer may hold it for a while),
calls end, leases and backoffs run out, the reconciliation runs every minute. Nothing is
assumed of people or of crashes: a worker may die every time, which is why attempts are
capped and the caps are part of the model. `EveryMessageSettles` assumes that the policy
gate opens for good; while messages are held, nothing needs to move. `receipts_queue`
assumes that no process dies between the two inserts of a submission (`Cuts = {FALSE}`).
In `Crm`, faults are finite (`MaxFaults`): an outage ends.

## What is proved

`DrawsProofs` proves, for any number of accounts, participants, entries, periods, seeds
and draws, and under `DrawsAssumption` only (types of the constants, the ranking is
injective per seed):

- `TypeCorrect`, `AtMostOneLiveDraw`, `DutiesAreSeparated`, `ResultIsDetermined`,
  `NothingIsAwardedPastTheFreeze`, `PoolIsLeftUnderTwoNames`: the invariants of the same
  subjects that the runs check;
- `EvidenceIsImmutable` and `DiscardTakesTwo`: the action properties. The latter says that
  whoever discards a seen result alone neither froze nor executed the draw and was let in as
  an approver, and any other names a second account that is an approver at that moment;
  that the first still is one cannot be proved of this code (divergences);
- `DrawsKeepThePromise`: `Spec => Promise!Spec`, the refinement.

The argument has one idea. `EveryStepShape` classifies all steps of `Draws`: the table of
draws is unchanged, or one row changed, or one row was added, or (rerun) one row was
voided and one added. `EveryStepRows` then says what may happen to a single row
(`RowStep`): its seal is constant, its status moves along the life cycle, its result is
written once from its seal, its approver is independent at that moment. Each invariant is
inductive on top of `TypeOK` given `RowStep`, except those that relate draws to the
ledger: `NothingIsAwardedPastTheFreeze` needs that an excluded entry was disqualified some
time before (`ExcludedWasDisqualified`), since an entry that is excluded when the pool is
frozen may be reinstated later, and `PoolIsLeftUnderTwoNames` uses that the pool of a new
draw holds no excluded entry. `EntryMoves` lists the moves of the ledger for both. The
refinement proof maps each shape to one action of `DrawPromise` or to a stutter.

`PromotionProofs` proves first that the winner service leaves draws alone.
`PromotionIsDraws` says that every step of `Promotion` is, for the draws, a step of `Draws`
or a stutter (the prior winners it looks up are one of the sets `Draws` lets a freeze
exclude). `PromotionKeepsDraws`, `PromotionKeepsEvidence` and `PromotionKeepsThePromise` carry
the theorems above over: the promotion as a whole implements `DrawPromise`. Then it proves the winners themselves, for any ranking, prize plan and number of finitely
many entries (`PromotionAssumption`):

- `WinnersFollowTheDraw`: the inductive invariant `WinnersInv` of the table of winners. Rows
  exist only for a draw that was approved, name entries of its stored result and none twice;
  at most as many rows as there are prizes are not replaced; a published row is of a prize
  that is taken. `EveryStepWinners` is its case distinction: the rows of a draw are filled
  (`materialise`), taken back with the draw, changed one at a time, or one of them is
  replaced by an alternate appended in the same transaction.
- `AlternatesInOrder`: needs the ranking. `PlacesAreTaken` says that the places of the draw
  are gapless: whatever place is within the count, some chance has it. Its witness is the
  least of the ranks that are left (`LeastNumber`, from the well-foundedness of the naturals),
  so the proof needs no induction over the entries. With one prize per participant,
  `OneChanceEach` shows that the place is the participant's first. `CandsInv` adds that a
  candidate that is no longer active was disqualified at some time.
- `PublicListStands`: from `WinnersInv`, with `AtMostOneLiveDraw` for the two draws a period may
  have, of which one is voided.
- `PrizesAreKept`: `PromotionSpec` implements `PrizePromise!Spec`. What was collected stays
  given, a prize is passed on once, and only to an entry that was offered none; the latter
  is the part of `WinnersInv` that no entry has two rows.

`ReceiptsProofs` proves, for any number of receipts, participants, purchases, workers and
jobs, under `ReceiptsAssumption`:

- `ReceiptsTypeCorrect`: the types. They are not inductive by themselves; `Bound` adds that
  a job row in use has a receipt and that the row a worker awaits stays in use, which is
  what `Done` takes care of when a lease ended and two workers hold one job;
- `ReviewsAreQueued`: inductive on top of `Bound`;
- `CreditIsTheEntry` and `CreditGoesToTheFirst`: `NextSettles` reduces every step to a
  `LedgerStep` (nothing, a change of an entry's standing, or a decision that credits only
  what is uncredited). `CreditMatchesEntry` is inductive over those. The first presenter
  needs `SystemCredits`: an entry the pipeline gave belongs to a claimed purchase, and a
  claim never changes its first presenter;
- `UndecidedIsInHand`: an undecided receipt has a job that is queued, worked on, abandoned or
  shown as dead, or its last failure raised the alert. `HandInv` adds that the row a worker
  awaits is of the receipt it reads (`OwnRows`), for otherwise the end of one job could take
  away another receipt's. Under `Cuts` a receipt that was just stored, or delayed, may lose
  its job to a crash between two statements; the theorem then speaks of those that were
  taken up.

`OutboxProofs` proves, for any number of messages and finitely many workers:

- `AcceptedOnce`: under `~Drops`, a message is accepted no more often than it was asked for.
  `OutboxInv` counts: acceptances so far, plus the workers that hold the message before its
  acceptance, plus one if the row is queued, never exceed the requests. A lease that ended
  takes a row out of "sending" without knowing what its worker does; the count holds because
  such a row goes to "unknown_outcome" and not back to the queue. With `Drops`, a connection
  that breaks after acceptance is taken for a failure and sent again: the divergence above.
- `ProvenRowsStand`: while no worker awaits an answer for its message, a row the
  provider reported delivered or read is not taken back by a later report, an operator,
  an erasure or a worker that takes it up anew. A worker that still awaits an answer,
  after a retry or past its lease, writes its outcome over such a row by id
  (`outbox.mjs:109`, `:115`); rows in flight are outside of the theorem.
- `SentRowsWereAccepted`: a row that says sent, delivered or read, or carries a time of sending
  or an id, is of a message the provider took. It needs only that a worker which holds an
  answer holds a true one (`AnswersAreTrue`), and so stands under `Drops` as well: a dropped
  connection can cause a second acceptance, never a claim of one that was not.
- `RowsAreNeverStranded`: a row that has not come to an end is queued and in the order the
  selector reads, or is being sent under a lease that is live or has run out, where
  `ReclaimStalled` looks. It is inductive as one fact about each row (`RowMoves`) and one about
  the order (`AllOrdered`). Rows that an erasure renamed while they were in flight are outside.

`CrmProofs` proves, for any number of records, versions, workers and faults,
`DeliveredRowsAreHeld` and `StampedRowsWereAccepted`. What is delivered is inductive only
with what is in flight: a record that the reconciliation read back may have become newer
since but never older (`AnswersHold`), and a row is read back, or known to the CRM, only
after the CRM took it (`ReadAfterAccepted`, `KnownWasAccepted`). `RejectionsAreTrue` proves what
a row says of the vendor: it is rejected only for a payload the vendor does not take or for
a newer version the vendor holds, a dead row names its reason, and one that is being sent is
under a lease. So the records that `CrmCatchesUp` leaves out are refused or overtaken for
good, and none is left out because of an outage.

`IntakeProofs` proves, for any number of messages, numbers, operators and workers and any
branches, weeks and searches, from the inductive `IntakeInv`:

- `HeldRowsAreOwned`: held outcomes have an owner, by cases on what a turn may write to a
  session, on staff acts, and on the move of a session to another number;
- `NamesBeforeRegistration`: `Needs` lists the answers a state of the dialogue rests on; a
  correction (`back`) needs all of them. So terms come last whatever was taken back;
- `EveryOptionIsReachable`: from the order in which `Route` reads a text: the lists of the
  confirmation, the branches and the winners are asked before the numbered menu;
- `ClaimsStand`: every turn writes a session whose owner is the one it read, and a save that
  meets a newer version is applied again to that version;
- `ErasedMessagesRest` and `ReceiptsAreAcknowledged`: `Fact` says of each message whose hands
  it is in. A message that no worker died on or outlived (`broken`) is in one hand, and what
  became of its photo is either written down or still in that hand;
- `MessagesAreNeverStranded`: an open message is leased, offered to the next worker, or left by
  a worker on its last attempt, where the sweep finds it; and none is taken more often than
  the cap between two replays. It is inductive as a fact about each row (`MovingRow`).

`BeginningsAssumption` says which sessions `Beginnings` may hold: at rest or after a started
entry.

`ConsoleProofs` proves, for any number of requests, accounts, sources and processes, in
`ServerSpec`:

- `ChainVerifies` (`AuditInv`): a row's hash is its place and its predecessor the place before,
  so a head that a writer read is taken exactly when the chain has grown since, and the one
  row the unique index lets through follows the last;
- `SessionsMatch` and `FactorStands` (`AccountsInv`): a live session was issued from the account
  as it is. It is inductive because a change of roles or password ends the account's sessions
  in the same step, and a sign-in reads the account in the step that issues the token. The
  factor needs that none that is on has another secret waiting, since `EnableMfa` confirms
  the waiting one first: the route enrols without a code, which a factor that is on refuses;
- `OneSourceIsNotEnough` (`BrakesInv`): the account is charged only for attempts that their
  source was charged for. The two windows slide together, so the invariant holds of each
  half, and of a half only when no source's key was dropped since it began (`swept`): a
  dropped key forgets what its source spent and not what the account was charged. Dropping
  the account's key takes nothing away from the claim;
- `DrawnWeeksStay` (`WeeksInv`): the weeks of a campaign do not overlap, as `UpsertPeriod`
  compares the new bounds with all others of the campaign. A drawn week keeps its bounds, so
  its instants stay in it and in no other;
- `NoGuessIsCredited` (`VerdictInv`: a verdict is what the rules made of a reading, and stays
  so), for any catalogue, rules and tills of any length. A pack size the rules settle on is
  the only one the line can have been of (`SettledSize`: the best match's key prints no size,
  so the catalogue sells one); every other filling then counts the settled lines alike and
  the open ones in addition, and `Enough` grows with both sums. Three things are assumed:
  `EligibilityAssumption` (finitely many products with finitely many keys, positive pack
  sizes) and `ReadingAssumption` (what a till is; quantities are whole, though a model's
  transcription might carry a fraction), which TLC evaluates, and as the theorem's hypothesis
  `SizesArePrinted`: a line in which a key with a size was found prints a size. The extractors
  take the size off the same description with the same pattern (`parse-receipt.mjs:279`,
  `vision.mjs:93`); a spelling such as "2-KG", which only `norm()` turns into a size, is
  outside of it. The tills of the run satisfy it (`MCReadingsPrintTheirSizes`).

The sums of `NoGuessIsCredited` are folds over a till. The library's induction theorems take
an operator and cannot be used, so the lemmas about `SumFunctionOnSet` argue by a smallest
counterexample: the numbers are well founded (`LeastNumber`), hence a non-empty family of
finite sets has a smallest one (`SmallestSet`). With it, the function that the fold chooses
exists (`SummedAll`), obeys its equation (`SumsUnfold`), does not depend on the order
(`Reorders`, `SumTakes`) and grows with its set and its terms (`SumGrows`).

`ServerProofs` proves six more properties of `ServerSpec`, for any number of processes, files,
depths of nesting, uploads, photos, days, sockets, redeploys and participants. Each lives in
the variables of one part; the theorem's last step shows that every other part leaves them
alone.

- `MigratesOnce`: the ledger is a prefix of the files, what each migrator believes applied is
  a prefix of it, and the file it holds is the next after what it believes. A migrator that
  is up therefore ends the list. The step that matters is `FileApplied`: the file is absent
  from the ledger *as read again under the lock*, so the migrator's prefix is the whole
  ledger.
- `CallsUnwind`: `Nests` says what each savepoint holds: the committed rows and those written
  by the calls further out. `TxPops` then serves the return and the throw of an inner call.
- `LayerStaysEmpty`: needs that a database the layer holds as live was marked before, that
  the layer is never adopted, and that a service which is not down runs on a marked directory.
- `PhotosOutlast`: the rows are not enough, because a purge looks at `until` alone; `PhotosInv`
  adds that a row's `until` covers every receipt that refers to it, and that a stored row
  with a file missing has expired.
- `LinkTries`: inductive with its types, by cases on the action.
- `ReuseIsNamed` (`PeopleInv`): the property is inductive once the alert that names two
  participants is known to be of the identity they share. Otherwise the alert of another
  identity, whose text a repeat replaces, might be the only one that names them. A repeat for
  the same identity names everybody who shares it now, a registration that changes the
  identity is alerted in its own transaction, and withdrawn or erased rows do not come back.

Only model-checked:

- liveness: `DueClaimsAreSettled`, `SubmissionsSettle`, `EveryMessageSettles`, `CrmCatchesUp` and
  the violation of `DrainedMeansIdle`. Temporal reasoning under fairness is outside the
  prover's reach, as is `ENABLED`. For the queues the safety half is proved of every instance: no
  receipt, message or row is ever where no action of the queue finds it (`UndecidedIsInHand`,
  `MessagesAreNeverStranded`, `RowsAreNeverStranded`, `RejectionsAreTrue`). What remains to TLC
  is that the fair actions then do take it up. For the intake, which has no liveness run of
  its own, `MessagesAreNeverStranded` is what is known;
- the order in which rows are taken (the oldest that is due, a CRM batch by position), where it
  rests on `SelectSeq`: that is a recursive definition, and induction over it is out of reach.

For every safety or action property of a passing run there is a theorem.

`RECURSIVE` is used nowhere. An inductive invariant was checked by TLC on the instances of the
runs before it was proved.

## What is not modelled, and why

- **Reading an image** (`parse-receipt.mjs`, `tesseract.mjs`, `vision.mjs`): numerical and
  textual work over an image. `Receipts` and `Eligibility` let a reading be anything their
  bounds allow, so that their results do not depend on it.
- **Read-only routes and presentation** (`routes/promo.mjs`, listings, searches, exports,
  spreadsheets, the web console): queries over the tables modelled here.
- **The legacy desk and its assistant** (`desk.mjs`, `ai.mjs`): single-row writes outside the
  promotion. One window was seen while reading: the brief marks messages processed after an
  awaited model call and overwrites a thread's status edited meanwhile.
- **Parts of modelled services**: claim tokens, collection points and reminders of winners;
  evidence of `resolveDuplicate`, which nothing reads back; the linked device's `send()`;
  parsing of provider payloads and webhook signatures; HTTP headers and static files.
- **Demo data, benchmarks, operator scripts**: outside the running system, except that
  `Deploy` says when sample data may be written.
- Cryptography (HMAC ranking, password hashing, TOTP arithmetic, the chain's digest) is
  abstracted to what it distinguishes.

## Plan

1. Liveness of the intake: every message is answered or shown to an operator. The state
   space of two messages and two workers is too large for it; it needs a module of the queue
   without the dialogue, to which `MessagesAreNeverStranded` would carry over.
2. Proofs: what still holds when `Alike` is on, and more of what holds under `Drops` and `Cuts`
   (so far `SentRowsWereAccepted` and, of receipts that were taken up, `UndecidedIsInHand`).
3. The divergences above, each as a run of its own where a property states the code's
   promise without hindrance.
4. Winners: claim tokens, collection points and reminders. The desk, if it outlives the
   promotion.
