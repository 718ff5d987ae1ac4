------------------------------- MODULE Draws -------------------------------
(***************************************************************************)
(* The auditable draw (src/draw.mjs) together with what it reads: the      *)
(* periods, the entries the receipt pipeline awards and the staff roles.   *)
(*                                                                         *)
(* The service is one Node process over synchronous SQLite calls, so what  *)
(* a handler does once it has the body of its request is one step.  The    *)
(* router reads the caller's role before that body is awaited, and the     *)
(* service does not read it again (admitted).  What a handler does in      *)
(* SEPARATE statements outside tx() can be cut short by a crash: those     *)
(* handlers take an argument "cut" that says the process died after the    *)
(* first one.                                                              *)
(*                                                                         *)
(* Abstractions.  HMAC-SHA256(seed, entry) is an unknown injective ranking *)
(* of the entries per seed (Rank).  Digests of the snapshot and the output *)
(* are the values themselves, so a stored row that nobody tampered with    *)
(* always verifies; expected_output_hash compares two equal values.  The   *)
(* prize plan is constant.  A participant's approval name on entry events  *)
(* is a free string in the code, so only its presence is modelled.         *)
(***************************************************************************)
EXTENDS Naturals, FiniteSets

CONSTANTS
  Staff,            \* admin_users accounts
  Participants,
  Entries,          \* receipts that may become entries, one entry each
  Periods,
  OwnerOf,          \* [Entries -> Participants]
  PeriodOf,         \* [Entries -> Periods]: period_code pinned at intake
  Seeds,            \* outcomes of the CSPRNG
  Rank,             \* [Seeds -> [Entries -> Nat]]: the HMAC order per seed
  MaxDraws,         \* bound: draws ever frozen
  TotalWinners,     \* prize plan: planFrom().totalWinners
  TotalAlternates,  \* prize plan: planFrom().totalAlternates
  OnePrize,         \* prize plan: onePrizePerParticipant
  CampaignExclusion,\* prize plan: winnerExclusion = "campaign"
  StartingRoles,    \* bound: the [Staff -> Role] the accounts may start with
  Reassignable,     \* bound: staff whose role may change
  Editable,         \* bound: periods that upsertPeriod changes
  Contested,        \* bound: entries that are disqualified and reinstated
  PauseFlags,       \* bound: values the draws switch is set to
  Cuts,             \* {FALSE}, or BOOLEAN to let the process die in a handler
  Nobody            \* the null account

ASSUME DrawsAssumption ==
  /\ Periods # {} /\ Seeds # {}
  /\ OwnerOf \in [Entries -> Participants]
  /\ PeriodOf \in [Entries -> Periods]
  /\ Rank \in [Seeds -> [Entries -> Nat]]
  /\ \A s \in Seeds : \A e, f \in Entries : Rank[s][e] = Rank[s][f] => e = f
  /\ MaxDraws \in Nat
  /\ TotalWinners \in Nat
  /\ TotalAlternates \in Nat
  /\ OnePrize \in BOOLEAN
  /\ CampaignExclusion \in BOOLEAN
  /\ StartingRoles \subseteq [Staff -> {"draw_officer", "draw_approver", "other"}]
  /\ Reassignable \subseteq Staff
  /\ Editable \subseteq Periods
  /\ Contested \subseteq Entries
  /\ PauseFlags \subseteq BOOLEAN
  /\ Cuts \subseteq BOOLEAN
  /\ Nobody \notin Staff

DrawIds == 1..MaxDraws
NoDraw == 0

DrawStatus == {"absent", "frozen", "executing", "executed", "approved",
               "published", "voided"}
PeriodStatus == {"open", "closed", "drawn"}
\* "pending" stands for a receipt in received, processing, delayed or
\* REVIEW_REQUIRED, "refused" for the terminal outcomes without an entry.
EntryStatus == {"none", "pending", "refused", "active", "excluded"}
DrawRole == {"draw_officer", "draw_approver"}
Role == DrawRole \cup {"other"}

Output == [winners : SUBSET Entries, alternates : SUBSET Entries]
NoOutput == [winners |-> {}, alternates |-> {}]

DrawRow == [status : DrawStatus, period : Periods, cands : SUBSET Entries,
            excl : SUBSET Entries, seed : Seeds, frozenBy : Staff \cup {Nobody},
            operator : Staff \cup {Nobody}, approver : Staff \cup {Nobody},
            output : Output, voidedBy : Staff \cup {Nobody},
            voidSecond : Staff \cup {Nobody},
            supersedes : DrawIds \cup {NoDraw},
            supersededBy : DrawIds \cup {NoDraw}]

VARIABLES
  draw,         \* [DrawIds -> DrawRow]: table draws, ids in creation order
  periodStatus, \* campaign_periods.status
  ended,        \* the periods whose ends_at has passed
  entry,        \* [Entries -> EntryStatus]
  lastDisq,     \* latest disqualification in entry_events: never, single
                \* (no approved_by) or dual (with approved_by)
  active,       \* participants with status 'active'
  role,         \* [Staff -> Role]
  admitted,     \* [Staff -> SUBSET DrawRole]: the roles with which the router let
                \* in requests whose body may still be awaited
  drawsPaused   \* the campaign's pause flag for draws

drawVars == <<draw, periodStatus, ended, entry, lastDisq, active, role, admitted, drawsPaused>>

TypeOK ==
  /\ draw \in [DrawIds -> DrawRow]
  /\ periodStatus \in [Periods -> PeriodStatus]
  /\ ended \in SUBSET Periods
  /\ entry \in [Entries -> EntryStatus]
  /\ lastDisq \in [Entries -> {"never", "single", "dual"}]
  /\ active \in SUBSET Participants
  /\ role \in [Staff -> Role]
  /\ admitted \in [Staff -> SUBSET DrawRole]
  /\ drawsPaused \in BOOLEAN

---------------------------------------------------------------------------
(* The result as a pure function of the snapshot, the seed and the plan.   *)

\* The chances that survive the seenP/seenE filters: the best ranked entry of
\* each participant, or every entry when a participant may win more than once.
Chances(cands, seed) ==
  {e \in cands : OnePrize =>
     \A f \in cands : OwnerOf[f] = OwnerOf[e] => Rank[seed][e] <= Rank[seed][f]}

\* Position of a chance in the sequence selectWinners walks, from 1.
Place(e, cands, seed) ==
  Cardinality({f \in Chances(cands, seed) : Rank[seed][f] <= Rank[seed][e]})

SelectWinners(cands, seed) ==
  [winners |-> {e \in Chances(cands, seed) : Place(e, cands, seed) <= TotalWinners},
   alternates |-> {e \in Chances(cands, seed) :
       /\ Place(e, cands, seed) > TotalWinners
       /\ Place(e, cands, seed) <= TotalWinners + TotalAlternates}]

---------------------------------------------------------------------------
(* The cutoff barrier, on a given table of draws (rerun() evaluates it     *)
(* after its void) and a given set of prior winners.                       *)

LiveStatus == {"frozen", "executing", "executed", "approved", "published"}
LiveIn(table, p) == {d \in DrawIds : table[d].status \in LiveStatus /\ table[d].period = p}
Live(p) == LiveIn(draw, p)

Unresolved(p) == \E e \in Entries : PeriodOf[e] = p /\ entry[e] = "pending"

InPool(p) == {e \in Entries : PeriodOf[e] = p /\ entry[e] = "active"}
Eligible(p, prior) == {e \in InPool(p) : OwnerOf[e] \in active \ prior}

Enough(es) ==
  IF OnePrize THEN Cardinality({OwnerOf[e] : e \in es}) >= TotalWinners
              ELSE Cardinality(es) >= TotalWinners

\* Fault: the barrier without DRAW_EXISTS.
BarrierIgnoresDraws(table, p, prior, override) ==
  /\ p \in ended
  /\ override \/ ~Unresolved(p)
  /\ TotalWinners >= 1
  /\ Eligible(p, prior) # {}
  /\ Enough(Eligible(p, prior))

BarrierOpen(table, p, prior, override) ==
  /\ p \in ended                           \* else PERIOD_OPEN
  /\ override \/ ~Unresolved(p)            \* else UNRESOLVED_SUBMISSIONS
  /\ LiveIn(table, p) = {}                 \* else DRAW_EXISTS
  /\ TotalWinners >= 1                     \* else NO_PRIZE_PLAN
  /\ Eligible(p, prior) # {}               \* else NO_CANDIDATES
  /\ Enough(Eligible(p, prior))            \* else INSUFFICIENT_CANDIDATES

\* Participants that winnerExclusion "campaign" may remove.  Winners are not
\* part of this module; Promotion fixes the set from its winners table.
PriorSets == IF CampaignExclusion THEN SUBSET Participants ELSE {{}}

\* The next id, and the newest earlier draw of the period (or NoDraw).
NextId(table, d) ==
  /\ table[d].status = "absent"
  /\ \A c \in DrawIds : c < d => table[c].status # "absent"
Newest(table, p, m) ==
  LET same == {c \in DrawIds : table[c].status # "absent" /\ table[c].period = p}
  IN  IF same = {} THEN m = NoDraw
      ELSE m \in same /\ \A c \in same : c <= m

FrozenRow(p, u, seed, prior, m) ==
  [status |-> "frozen", period |-> p, cands |-> Eligible(p, prior),
   excl |-> InPool(p) \ Eligible(p, prior), seed |-> seed, frozenBy |-> u,
   operator |-> u, approver |-> Nobody, output |-> NoOutput,
   voidedBy |-> Nobody, voidSecond |-> Nobody,
   supersedes |-> m, supersededBy |-> NoDraw]

\* Table after draw n is inserted and linked to the draw m it replaces.
WithFrozen(table, n, p, u, seed, prior, m) ==
  [d \in DrawIds |->
     IF d = n THEN FrozenRow(p, u, seed, prior, m)
     ELSE IF d = m THEN [table[d] EXCEPT !.supersededBy = n]
     ELSE table[d]]

---------------------------------------------------------------------------
(* Handlers of the draw service.                                           *)

\* A handler that takes a body may run for an account that held the role when the
\* request was let in.  How many requests are open, and how long, is left free: one
\* that ended is one that is never served.
LetIn(u, r) == r \in admitted[u]

\* The open requests die with the process; only those of the roles held now follow.
Current == [u \in Staff |-> {role[u]} \cap DrawRole]
Requests(cut) == admitted' = IF cut THEN Current ELSE admitted

SetPeriod(p, s, cut) ==
  periodStatus' = IF cut THEN periodStatus ELSE [periodStatus EXCEPT ![p] = s]

\* POST /api/draws.  barrier() runs before the transaction, in the same
\* synchronous call; the override list is cut down to UNRESOLVED_SUBMISSIONS.
Freeze(p, u, override, prior) ==
  /\ LetIn(u, "draw_officer")
  /\ ~drawsPaused
  /\ BarrierOpen(draw, p, prior, override)
  /\ \E n \in DrawIds, seed \in Seeds, m \in DrawIds \cup {NoDraw} :
       /\ NextId(draw, n)
       /\ Newest(draw, p, m)
       /\ draw' = WithFrozen(draw, n, p, u, seed, prior, m)
  /\ SetPeriod(p, "closed", FALSE)
  /\ UNCHANGED <<ended, entry, lastDisq, active, role, admitted, drawsPaused>>

\* Fault: the result computed over the entries of the moment, not the snapshot.
ExecuteOnLivePool(d, u, cut) ==
  /\ role[u] = "draw_officer"
  /\ draw[d].status \in {"frozen", "executing"}
  /\ draw' = IF cut
       THEN [draw EXCEPT ![d].status = "executing"]
       ELSE [draw EXCEPT ![d].status = "executed", ![d].operator = u,
               ![d].output = SelectWinners(InPool(draw[d].period), draw[d].seed)]
  /\ Requests(cut)
  /\ UNCHANGED <<periodStatus, ended, entry, lastDisq, active, role, drawsPaused>>

\* Fault: the snapshot taken again when the draw is executed.
ExecuteFreshSnapshot(d, u, cut) ==
  /\ role[u] = "draw_officer"
  /\ draw[d].status \in {"frozen", "executing"}
  /\ LET pool == Eligible(draw[d].period, {}) IN
     draw' = [draw EXCEPT ![d].status = "executed", ![d].operator = u, ![d].cands = pool,
                ![d].output = SelectWinners(pool, draw[d].seed)]
  /\ Requests(cut)
  /\ UNCHANGED <<periodStatus, ended, entry, lastDisq, active, role, drawsPaused>>

\* POST /api/draws/:id/execute.  The reservation frozen -> executing is a
\* statement of its own; the result is committed in a transaction after it.
\* A repeated call on "executing" resumes and recomputes.
Execute(d, u, cut) ==
  /\ role[u] = "draw_officer"
  /\ draw[d].status \in {"frozen", "executing"}
  /\ draw' = IF cut
       THEN [draw EXCEPT ![d].status = "executing"]
       ELSE [draw EXCEPT ![d].status = "executed", ![d].operator = u,
               ![d].output = SelectWinners(draw[d].cands, draw[d].seed)]
  /\ Requests(cut)
  /\ UNCHANGED <<periodStatus, ended, entry, lastDisq, active, role, drawsPaused>>

\* What approve() recomputes from the stored evidence.
VerifyStored(d) ==
  /\ draw[d].output = SelectWinners(draw[d].cands, draw[d].seed)
  /\ draw[d].approver = Nobody \/ draw[d].approver # draw[d].operator

\* The second pair of eyes: neither the executor nor whoever froze the pool.
Independent(d, u) == u # draw[d].operator /\ u # draw[d].frozenBy

\* Fault: only the executor is refused, and operator_id names just the last one.
ApproveByFreezer(d, u) ==
  /\ LetIn(u, "draw_approver")
  /\ draw[d].status = "executed"
  /\ u # draw[d].operator
  /\ draw' = [draw EXCEPT ![d].status = "approved", ![d].approver = u]
  /\ UNCHANGED <<periodStatus, ended, entry, lastDisq, active, role, admitted, drawsPaused>>

Approve(d, u) ==
  /\ LetIn(u, "draw_approver")
  /\ draw[d].status = "executed"
  /\ Independent(d, u)
  /\ VerifyStored(d)
  /\ draw' = [draw EXCEPT ![d].status = "approved", ![d].approver = u]
  /\ UNCHANGED <<periodStatus, ended, entry, lastDisq, active, role, admitted, drawsPaused>>

Reject(d, u, cut) ==
  /\ LetIn(u, "draw_approver")
  /\ draw[d].status = "executed"
  /\ Independent(d, u)
  /\ draw' = [draw EXCEPT ![d].status = "voided", ![d].voidedBy = u]
  /\ SetPeriod(draw[d].period, "closed", cut)
  /\ Requests(cut)
  /\ UNCHANGED <<ended, entry, lastDisq, active, role, drawsPaused>>

\* Fault: publishing without the approval.
PublishUnapproved(d, cut) ==
  /\ draw[d].status \in {"executed", "approved"}
  /\ draw' = [draw EXCEPT ![d].status = "published"]
  /\ SetPeriod(draw[d].period, "drawn", cut)
  /\ Requests(cut)
  /\ UNCHANGED <<ended, entry, lastDisq, active, role, drawsPaused>>

\* POST /api/draws/:id/publish by winner_ops; materialise() is in Promotion.
Publish(d, cut) ==
  /\ draw[d].status = "approved"
  /\ draw' = [draw EXCEPT ![d].status = "published"]
  /\ SetPeriod(draw[d].period, "drawn", cut)
  /\ Requests(cut)
  /\ UNCHANGED <<ended, entry, lastDisq, active, role, drawsPaused>>

\* Fault: "executed" missing from the list of statuses that need a second name.
SecondApprovedOnceConfirmed(d, u, second) ==
  IF draw[d].status \in {"approved", "published"}
  THEN second \in Staff \ {u} /\ role[second] = "draw_approver"
  ELSE second = Nobody

\* assertSecondApprover: an active account that holds draw_approver and is not
\* the actor.  Only a draw that has produced a result asks for it; for a frozen
\* or an already voided draw approved_by is unchecked text, left out here.
SecondApproved(d, u, second) ==
  IF draw[d].status \in {"executed", "approved", "published"}
  THEN /\ second \in Staff \ {u}
       /\ role[second] = "draw_approver"
  ELSE second = Nobody

VoidedTable(d, u, second) ==
  [draw EXCEPT ![d].status = "voided", ![d].voidedBy = u, ![d].voidSecond = second]

\* voidDraw has no guard on the draw's status: a voided draw may be voided again.
VoidDraw(d, u, second, cut) ==
  /\ LetIn(u, "draw_approver")
  /\ draw[d].status # "absent"
  /\ SecondApproved(d, u, second)
  /\ draw' = VoidedTable(d, u, second)
  /\ SetPeriod(draw[d].period, "closed", cut)
  /\ Requests(cut)
  /\ UNCHANGED <<ended, entry, lastDisq, active, role, drawsPaused>>

\* POST /api/draws/:id/rerun by a draw officer: void unless voided already,
\* then freeze without an override and re-link the chain to the named draw.
\* cut: the process dies after the freeze committed, before the re-link.
Superseding(table, d, n) ==
  [table EXCEPT ![n].supersedes = d, ![d].supersededBy = n]

AfterVoid(d, u, second) ==
  IF draw[d].status = "voided" THEN draw ELSE VoidedTable(d, u, second)

Rerun(d, u, second, prior, cut) ==
  /\ LetIn(u, "draw_officer")
  /\ draw[d].status # "absent"
  /\ SecondApproved(d, u, second)
  /\ LET p == draw[d].period
         table == AfterVoid(d, u, second)
     IN  /\ BarrierOpen(table, p, prior, FALSE)
         /\ \E n \in DrawIds, seed \in Seeds, m \in DrawIds :
              LET frozen == WithFrozen(table, n, p, u, seed, prior, m) IN
              /\ NextId(table, n)
              /\ Newest(table, p, m)
              /\ draw' = IF cut THEN frozen ELSE Superseding(frozen, d, n)
         /\ SetPeriod(p, "closed", FALSE)
  /\ Requests(cut)
  /\ UNCHANGED <<ended, entry, lastDisq, active, role, drawsPaused>>

\* The rerun that voids and goes no further: the barrier refuses the freeze
\* (the void is already committed), or the process dies in between.
RerunVoidOnly(d, u, second, prior, cut) ==
  /\ LetIn(u, "draw_officer")
  /\ draw[d].status \in LiveStatus
  /\ SecondApproved(d, u, second)
  /\ cut \/ ~BarrierOpen(VoidedTable(d, u, second), draw[d].period, prior, FALSE)
  /\ draw' = VoidedTable(d, u, second)
  /\ \E early \in {cut, FALSE} : SetPeriod(draw[d].period, "closed", early)
  /\ Requests(cut)
  /\ UNCHANGED <<ended, entry, lastDisq, active, role, drawsPaused>>

---------------------------------------------------------------------------
(* Periods, entries, participants and staff: what the barrier and the      *)
(* separation of duties read, moved by the other components.               *)

PeriodEnds(p) ==
  /\ p \notin ended
  /\ ended' = ended \cup {p}
  /\ UNCHANGED <<draw, periodStatus, entry, lastDisq, active, role, admitted, drawsPaused>>

\* upsertPeriod on an existing period: a drawn one is immutable, any other may
\* get a later end and a new status.
UpsertPeriod(p, s, reopened) ==
  /\ periodStatus[p] # "drawn"
  /\ periodStatus' = [periodStatus EXCEPT ![p] = s]
  /\ ended' = IF reopened THEN ended \ {p} ELSE ended
  /\ UNCHANGED <<draw, entry, lastDisq, active, role, admitted, drawsPaused>>

Submit(e) ==
  /\ entry[e] = "none"
  /\ PeriodOf[e] \notin ended
  /\ entry' = [entry EXCEPT ![e] = "pending"]
  /\ UNCHANGED <<draw, periodStatus, ended, lastDisq, active, role, admitted, drawsPaused>>

\* Fault: a decision that does not look for a draw of the period.
AwardPastFreeze(e) ==
  /\ entry[e] \in {"pending", "refused"}
  /\ entry' = [entry EXCEPT ![e] = "active"]
  /\ UNCHANGED <<draw, periodStatus, ended, lastDisq, active, role, admitted, drawsPaused>>

\* process() or review() decides QUALIFIED; both refuse while the period has a
\* draw.  review() also decides a receipt that was refused before.
Award(e) ==
  /\ entry[e] \in {"pending", "refused"}
  /\ Live(PeriodOf[e]) = {}
  /\ entry' = [entry EXCEPT ![e] = "active"]
  /\ UNCHANGED <<draw, periodStatus, ended, lastDisq, active, role, admitted, drawsPaused>>

Refuse(e) ==
  /\ entry[e] = "pending"
  /\ entry' = [entry EXCEPT ![e] = "refused"]
  /\ UNCHANGED <<draw, periodStatus, ended, lastDisq, active, role, admitted, drawsPaused>>

Reprocess(e) ==
  /\ entry[e] = "refused"
  /\ entry' = [entry EXCEPT ![e] = "pending"]
  /\ UNCHANGED <<draw, periodStatus, ended, lastDisq, active, role, admitted, drawsPaused>>

\* Fault: only draws that are already confirmed count as holding the entry.
InConfirmedDraw(e) ==
  \E d \in DrawIds : draw[d].status \in {"approved", "published"}
                       /\ e \in draw[d].cands \cup draw[d].excl

\* draw_candidates holds a row for each candidate and each recorded exclusion.
InLiveDraw(e) ==
  \E d \in DrawIds : draw[d].status \in LiveStatus /\ e \in draw[d].cands \cup draw[d].excl

Disqualify(e, second) ==
  /\ entry[e] = "active"
  /\ InLiveDraw(e) => second
  /\ entry' = [entry EXCEPT ![e] = "excluded"]
  /\ lastDisq' = [lastDisq EXCEPT ![e] = IF second THEN "dual" ELSE "single"]
  /\ UNCHANGED <<draw, periodStatus, ended, active, role, admitted, drawsPaused>>

Reinstate(e, second) ==
  /\ entry[e] = "excluded"
  /\ lastDisq[e] = "dual" => second
  /\ entry' = [entry EXCEPT ![e] = "active"]
  /\ UNCHANGED <<draw, periodStatus, ended, lastDisq, active, role, admitted, drawsPaused>>

\* withdrawParticipant and anonymiseParticipant; neither is ever undone.
Leave(q) ==
  /\ q \in active
  /\ active' = active \ {q}
  /\ UNCHANGED <<draw, periodStatus, ended, entry, lastDisq, role, admitted, drawsPaused>>

\* PATCH /api/users/:id: one account never holds both draw roles; losing the
\* role stands for being disabled as well.  Its sessions end, its open requests go on.
SetRole(u, r) ==
  /\ u \in Reassignable
  /\ role[u] # r
  /\ role' = [role EXCEPT ![u] = r]
  /\ admitted' = [admitted EXCEPT ![u] = @ \cup ({r} \cap DrawRole)]
  /\ UNCHANGED <<draw, periodStatus, ended, entry, lastDisq, active, drawsPaused>>

PauseDraws(flag) ==
  /\ drawsPaused # flag
  /\ drawsPaused' = flag
  /\ UNCHANGED <<draw, periodStatus, ended, entry, lastDisq, active, role, admitted>>

---------------------------------------------------------------------------
AbsentRow ==
  [status |-> "absent", period |-> CHOOSE p \in Periods : TRUE, cands |-> {},
   excl |-> {}, seed |-> CHOOSE s \in Seeds : TRUE, frozenBy |-> Nobody,
   operator |-> Nobody, approver |-> Nobody, output |-> NoOutput,
   voidedBy |-> Nobody, voidSecond |-> Nobody,
   supersedes |-> NoDraw, supersededBy |-> NoDraw]

Init ==
  /\ draw = [d \in DrawIds |-> AbsentRow]
  /\ periodStatus = [p \in Periods |-> "open"]
  /\ ended = {}
  /\ entry = [e \in Entries |-> "none"]
  /\ lastDisq = [e \in Entries |-> "never"]
  /\ active = Participants
  /\ role \in StartingRoles
  /\ admitted = Current
  /\ drawsPaused = FALSE

DrawNext ==
  \/ \E p \in Periods, u \in Staff, override \in BOOLEAN, prior \in PriorSets :
       Freeze(p, u, override, prior)
  \/ \E d \in DrawIds, u \in Staff :
       \/ Approve(d, u)
       \/ \E cut \in Cuts : Execute(d, u, cut) \/ Reject(d, u, cut)
  \/ \E d \in DrawIds, cut \in Cuts : Publish(d, cut)
  \/ \E d \in DrawIds, u \in Staff, second \in Staff \cup {Nobody} :
       \/ \E cut \in Cuts : VoidDraw(d, u, second, cut)
       \/ \E prior \in PriorSets, cut \in Cuts :
            Rerun(d, u, second, prior, cut) \/ RerunVoidOnly(d, u, second, prior, cut)

PoolNext ==
  \/ \E p \in Periods : PeriodEnds(p)
  \/ \E p \in Editable, reopened \in BOOLEAN :
       \E s \in {periodStatus[p], "open"} : UpsertPeriod(p, s, reopened)
  \/ \E e \in Entries : Submit(e) \/ Award(e) \/ Refuse(e) \/ Reprocess(e)
  \/ \E e \in Contested, second \in BOOLEAN : Disqualify(e, second) \/ Reinstate(e, second)
  \/ \E q \in Participants : Leave(q)

StaffNext ==
  \/ \E u \in Staff, r \in Role : SetRole(u, r)
  \/ \E flag \in PauseFlags : PauseDraws(flag)

Next == DrawNext \/ PoolNext \/ StaffNext

Spec == Init /\ [][Next]_drawVars

---------------------------------------------------------------------------
(* Safety.                                                                 *)

Seen == {"executed", "approved", "published"}

\* A period never has two draws that are not voided, whatever the order of
\* freezes, voids and reruns (barrier's DRAW_EXISTS, which rerun evaluates after
\* its own void).
OneLiveDraw ==
  \A p \in Periods : \A c, d \in Live(p) : c = d

\* A confirmed result was approved by an account that neither froze the pool
\* nor executed the draw, although operator_id is overwritten by whoever
\* executes or resumes and accounts change roles in between (approve).
SeparationOfDuties ==
  \A d \in DrawIds : draw[d].status \in {"approved", "published"} =>
    draw[d].approver \in Staff /\ Independent(d, draw[d].approver)

\* An entry that was awarded and never disqualified is in the snapshot of its
\* period's live draw, as a candidate or as a recorded exclusion: nothing is
\* awarded into a pool that is already frozen (periodAlreadyDrawn), even when the
\* freeze overrode receipts that were still undecided.
AwardedEntriesAreInTheSnapshot ==
  \A d \in DrawIds, e \in Entries :
    (/\ draw[d].status \in LiveStatus
     /\ PeriodOf[e] = draw[d].period
     /\ entry[e] = "active"
     /\ lastDisq[e] = "never") => e \in draw[d].cands \cup draw[d].excl

\* An entry of a live draw's snapshot that is excluded now was disqualified
\* under two names: the pool that people are about to approve, or approved, does
\* not lose a member to one person (disqualifyEntry).
FrozenPoolIsLeftUnderTwoNames ==
  \A d \in DrawIds : draw[d].status \in LiveStatus =>
    \A e \in draw[d].cands \cup draw[d].excl :
      entry[e] = "excluded" => lastDisq[e] = "dual"

\* A stored result is always the one its snapshot and seed determine, through
\* crashes, resumed executions and voids (execute, verifyStored).
ResultFollowsFromFreeze ==
  \A d \in DrawIds :
    /\ draw[d].status \in Seen => draw[d].output = SelectWinners(draw[d].cands, draw[d].seed)
    /\ draw[d].status \in {"absent", "frozen", "executing"} => draw[d].output = NoOutput

\* What was frozen stays frozen, and a result that has been seen stays what it
\* was: no step changes the snapshot, seed or freezer of an existing draw, or
\* the output of a draw that has one.
FrozenEvidenceIsImmutable ==
  [][\A d \in DrawIds : draw[d].status # "absent" =>
       /\ draw'[d].status # "absent"
       /\ draw'[d].period = draw[d].period
       /\ draw'[d].cands = draw[d].cands
       /\ draw'[d].excl = draw[d].excl
       /\ draw'[d].seed = draw[d].seed
       /\ draw'[d].frozenBy = draw[d].frozenBy
       /\ draw[d].output # NoOutput => draw'[d].output = draw[d].output]_drawVars

\* A result that somebody has seen is not thrown away by the people who made it: the
\* account that voids it alone neither froze nor executed the draw and was let in as
\* an approver (reject), though it may have lost the role while its body was awaited;
\* any other names a second account that holds draw_approver at that moment (void,
\* rerun).
SeenResultIsDiscardedByTwo ==
  [][\A d \in DrawIds :
       draw[d].status \in Seen /\ draw'[d].status \notin Seen =>
         /\ draw'[d].status = "voided"
         /\ \/ Independent(d, draw'[d].voidedBy) /\ LetIn(draw'[d].voidedBy, "draw_approver")
            \/ /\ draw'[d].voidSecond \in Staff \ {draw'[d].voidedBy}
               /\ role[draw'[d].voidSecond] = "draw_approver"]_drawVars

=============================================================================
