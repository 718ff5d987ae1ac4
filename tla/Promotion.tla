----------------------------- MODULE Promotion -----------------------------
(***************************************************************************)
(* Winners and claims (src/winner-service.mjs) on top of the draw service: *)
(* materialising the stored result, contacting, the claim lifecycle,       *)
(* alternates, fulfilment, publication, expiry, and what voiding a draw    *)
(* does to its winners.                                                    *)
(*                                                                         *)
(* Every action of Draws appears here with what it does to the winners.    *)
(* The prior winners that a freeze leaves out, free in Draws, are read     *)
(* from the winners table.                                                 *)
(*                                                                         *)
(* Abstractions.  Outlets, evidence, claim references and the optimistic   *)
(* expectedVersion are inputs that can only refuse a call.  The deadline   *)
(* is "running" until ClaimPasses; the notice of a winner is lost while    *)
(* its latest message is a finished failure or a policy hold.              *)
(***************************************************************************)
EXTENDS Draws, Sequences

CONSTANT
  Clock      \* bound: whether claim deadlines pass and notices get lost

ASSUME PromotionAssumption == Clock \in BOOLEAN /\ IsFiniteSet(Entries)

VARIABLE
  winner     \* [DrawIds -> Seq(rows)]: table winners of a draw, by rank

promotionVars == <<drawVars, winner>>

WinnerStatus == {"selected", "notified", "verified", "accepted", "collected",
                 "unreachable", "declined", "ineligible", "expired", "disputed",
                 "replaced"}

\* Fault: staff may reopen the case of a prize that was collected.
AllowedReopening ==
  [selected |-> {"notified", "unreachable", "ineligible", "expired", "replaced", "declined"},
   notified |-> {"verified", "unreachable", "declined", "ineligible", "expired",
                 "disputed", "replaced"},
   verified |-> {"accepted", "declined", "ineligible", "expired", "disputed", "replaced"},
   accepted |-> {"collected", "expired", "ineligible", "disputed", "replaced"},
   disputed |-> {"verified", "ineligible", "replaced"},
   unreachable |-> {"notified", "expired", "replaced"},
   collected |-> {"disputed"}, declined |-> {"replaced"}, ineligible |-> {"replaced"},
   expired |-> {"replaced"}, replaced |-> {}]

Allowed ==
  [selected |-> {"notified", "unreachable", "ineligible", "expired", "replaced", "declined"},
   notified |-> {"verified", "unreachable", "declined", "ineligible", "expired",
                 "disputed", "replaced"},
   verified |-> {"accepted", "declined", "ineligible", "expired", "disputed", "replaced"},
   accepted |-> {"collected", "expired", "ineligible", "disputed", "replaced"},
   disputed |-> {"verified", "ineligible", "replaced"},
   unreachable |-> {"notified", "expired", "replaced"},
   collected |-> {}, declined |-> {"replaced"}, ineligible |-> {"replaced"},
   expired |-> {"replaced"}, replaced |-> {}]

Advancing == {"notified", "verified", "accepted", "collected"}
Confirmed == {"approved", "published"}

\* Fault: a decline leaves the winner on the public list.
TakenOutButDeclined == {"replaced", "ineligible", "expired"}

\* Statuses that take a winner out, and off the public list.
TakenOut == {"replaced", "ineligible", "expired", "declined"}

Promoting == {"replaced"}

Ranks(d) == 1..Len(winner[d])

---------------------------------------------------------------------------
(* One row's transition (transitionInTx), and the alternate that follows.  *)

MayMove(row, s) ==
  /\ s \in Allowed[row.status]
  /\ s \in Advancing => entry[row.entry] = "active"

Moved(row, s) ==
  [row EXCEPT !.status = s,
              !.publication = IF s \in TakenOut /\ @ = "published" THEN "withdrawn" ELSE @]

FreshWinner(e) ==
  [status |-> "selected", entry |-> e,
   claim |-> "none",                  \* claim_expires_at: "none", "running" or "passed"
   lost |-> FALSE,                    \* the latest notice never left
   publication |-> "unpublished",     \* "unpublished", "published" or "withdrawn"
   replacedBy |-> 0]                  \* rank of the alternate, 0 for none

EntriesIn(rows) == {rows[k].entry : k \in DOMAIN rows}

\* The stored alternates that may still be promoted (promoteAlternate: find).
AlternatesLeft(d, rows) ==
  {a \in draw[d].output.alternates :
     /\ a \notin EntriesIn(rows)
     /\ OnePrize => OwnerOf[a] \notin {OwnerOf[rows[k].entry] :
                      k \in {j \in DOMAIN rows : rows[j].status \notin TakenOut}}
     /\ entry[a] = "active"}

PlaceIn(d, e) == Place(e, draw[d].cands, draw[d].seed)

\* Fault: the alternates read backwards.
LastAlternate(d, left) == CHOOSE a \in left : \A b \in left : PlaceIn(d, b) <= PlaceIn(d, a)

NextAlternate(d, left) == CHOOSE a \in left : \A b \in left : PlaceIn(d, a) <= PlaceIn(d, b)

\* rows with the next alternate appended in the place of rank k, if one is left.
WithAlternate(d, rows, k) ==
  LET left == AlternatesLeft(d, rows) IN
  IF left = {} THEN rows
  ELSE Append([rows EXCEPT ![k].replacedBy = Len(rows) + 1],
              FreshWinner(NextAlternate(d, left)))

---------------------------------------------------------------------------
(* Handlers of the winner service.                                         *)

Drawn(d) ==
  LET won == draw[d].output.winners IN
  [k \in 1..Cardinality(won) |-> FreshWinner(CHOOSE e \in won : PlaceIn(d, e) = k)]

Materialise(d) ==
  /\ draw[d].status \in Confirmed
  /\ winner[d] = <<>>
  /\ winner' = [winner EXCEPT ![d] = Drawn(d)]
  /\ UNCHANGED drawVars

Notify(d, k) ==
  /\ draw[d].status \in Confirmed
  /\ winner[d][k].status \in {"selected", "unreachable"}
  /\ OwnerOf[winner[d][k].entry] \in active
  /\ MayMove(winner[d][k], "notified")
  /\ winner' = [winner EXCEPT ![d][k] =
                  [Moved(@, "notified") EXCEPT !.claim = "running", !.lost = FALSE]]
  /\ UNCHANGED drawVars

\* POST /api/winners/:id/transition: it reads the winner, not the draw.
Transition(d, k, s) ==
  /\ MayMove(winner[d][k], s)
  /\ LET rows == [winner[d] EXCEPT ![k] = Moved(@, s)] IN
     winner' = [winner EXCEPT ![d] = IF s \in Promoting THEN WithAlternate(d, rows, k) ELSE rows]
  /\ UNCHANGED drawVars

Claimable == {"notified", "verified", "accepted", "unreachable"}

\* Fault: unreachable winners forgotten by the expiry job.
ExpireReached(d, k) ==
  /\ winner[d][k].claim = "passed"
  /\ winner[d][k].status \in Claimable \ {"unreachable"}
  /\ ~winner[d][k].lost
  /\ winner' = [winner EXCEPT ![d][k] = Moved(@, "expired")]
  /\ UNCHANGED drawVars

\* One row of the expiry job, a transaction of its own.
ExpireDue(d, k) ==
  /\ winner[d][k].claim = "passed"
  /\ winner[d][k].status \in Claimable
  /\ ~winner[d][k].lost
  /\ winner' = [winner EXCEPT ![d][k] = Moved(@, "expired")]
  /\ UNCHANGED drawVars

PublishWinner(d, k) ==
  /\ draw[d].status = "published"
  /\ winner[d][k].status \in {"verified", "accepted", "collected"}
  /\ OwnerOf[winner[d][k].entry] \in active
  /\ entry[winner[d][k].entry] = "active"
  /\ winner' = [winner EXCEPT ![d][k].publication = "published"]
  /\ UNCHANGED drawVars

Unpublish(d, k) ==
  /\ winner' = [winner EXCEPT ![d][k].publication = "withdrawn"]
  /\ UNCHANGED drawVars

\* Time passes the deadline of a claim; the outbox learns that a notice did not
\* leave, or an operator clears what held it.
ClaimPasses(d, k) ==
  /\ Clock
  /\ winner[d][k].claim = "running"
  /\ winner' = [winner EXCEPT ![d][k].claim = "passed"]
  /\ UNCHANGED drawVars

NoticeTurns(d, k) ==
  /\ Clock
  /\ winner[d][k].claim # "none"
  /\ winner' = [winner EXCEPT ![d][k].lost = ~@]
  /\ UNCHANGED drawVars

---------------------------------------------------------------------------
(* The draw service's handlers with their effect on the winners.           *)

VoidedRow(row) ==
  IF row.status \in {"collected", "replaced"} THEN row ELSE Moved(row, "replaced")

\* voidForDraw: every row in rank order, no alternate promoted; upto is the last
\* rank reached when the process dies.
VoidForDraw(d, upto) ==
  [winner EXCEPT ![d] = [k \in Ranks(d) |-> IF k <= upto THEN VoidedRow(@[k]) ELSE @[k]]]

VoidsWinners(d, cut) ==
  \E upto \in IF cut THEN 0..Len(winner[d]) ELSE {Len(winner[d])} :
    winner' = VoidForDraw(d, upto)

\* barrier, winnerExclusion "campaign": participants with a winner that stands,
\* in a draw that table shows as confirmed.
PriorWinners(table) ==
  {q \in Participants :
     /\ CampaignExclusion
     /\ \E d \in DrawIds : /\ table[d].status \in Confirmed
                           /\ \E k \in Ranks(d) :
                                /\ winner[d][k].status \notin {"replaced", "expired", "ineligible"}
                                /\ OwnerOf[winner[d][k].entry] = q}

PromotionDraws ==
  \/ /\ \/ \E p \in Periods, u \in Staff, override \in BOOLEAN :
             Freeze(p, u, override, PriorWinners(draw))
        \/ \E d \in DrawIds, u \in Staff :
             \/ Approve(d, u)
             \/ \E cut \in Cuts : Execute(d, u, cut) \/ Reject(d, u, cut)
     /\ UNCHANGED winner
  \* POST /api/draws/:id/publish publishes, then materialises.
  \/ \E d \in DrawIds, cut \in Cuts, dies \in BOOLEAN :
       /\ Publish(d, cut)
       /\ winner' = IF cut \/ dies \/ winner[d] # <<>> THEN winner
                    ELSE [winner EXCEPT ![d] = Drawn(d)]
  \/ \E d \in DrawIds, u \in Staff, second \in Staff \cup {Nobody}, cut \in Cuts :
       \/ VoidDraw(d, u, second, cut) /\ VoidsWinners(d, cut)
       \/ /\ Rerun(d, u, second, PriorWinners(AfterVoid(d, u, second)), cut)
          /\ IF draw[d].status = "voided" THEN UNCHANGED winner ELSE VoidsWinners(d, FALSE)
       \/ /\ RerunVoidOnly(d, u, second, PriorWinners(VoidedTable(d, u, second)), cut)
          /\ VoidsWinners(d, cut)

WinnerStep ==
  \E d \in DrawIds :
    \/ Materialise(d)
    \/ \E k \in Ranks(d) :
         \/ Notify(d, k) \/ ExpireDue(d, k) \/ PublishWinner(d, k) \/ Unpublish(d, k)
         \/ ClaimPasses(d, k) \/ NoticeTurns(d, k)
         \/ \E s \in WinnerStatus : Transition(d, k, s)

PromotionInit == Init /\ winner = [d \in DrawIds |-> <<>>]

PromotionNext ==
  \/ PromotionDraws
  \/ (PoolNext \/ StaffNext) /\ UNCHANGED winner
  \/ WinnerStep

PromotionSpec == PromotionInit /\ [][PromotionNext]_promotionVars

\* The expiry job runs every hour for as long as a worker does.
FairPromotion ==
  /\ PromotionSpec
  /\ \A d \in DrawIds, k \in 1..(TotalWinners + TotalAlternates) :
       WF_promotionVars(k \in Ranks(d) /\ ExpireDue(d, k))

---------------------------------------------------------------------------
(* Safety.                                                                 *)

\* Alternates come up in the stored order: one that was passed by for a later
\* one had been disqualified (promoteAlternate).
AlternatesKeepTheirOrder ==
  \A d \in DrawIds : \A a, b \in draw[d].output.alternates :
    (/\ PlaceIn(d, a) < PlaceIn(d, b)
     /\ b \in EntriesIn(winner[d])
     /\ a \notin EntriesIn(winner[d])) => lastDisq[a] # "never"

\* The rows that listPublic shows.
Listed(d) ==
  {k \in Ranks(d) : draw[d].status = "published" /\ winner[d][k].publication = "published"}

\* The public list shows nobody who has lost the prize, and not more winners of a
\* period than the period has prizes, through voids, reruns and crashes
\* (publish, transitionInTx, listPublic).
PublicListIsSound ==
  /\ \A d \in DrawIds : \A k \in Listed(d) :
       winner[d][k].status \in {"verified", "accepted", "collected", "disputed"}
  /\ \A p \in Periods :
       Cardinality(UNION {{<<d, k>> : k \in Listed(d)} :
                            d \in {c \in DrawIds : draw[c].period = p}}) <= TotalWinners

\* The prizes of each draw, seen without statuses, deadlines and publication.
Prize == INSTANCE PrizePromise WITH
  Contests <- DrawIds, Tickets <- Entries, Prizes <- TotalWinners,
  offered <- [d \in DrawIds |-> {winner[d][k].entry : k \in
     {j \in Ranks(d) : winner[d][j].status \notin {"replaced", "collected"}}}],
  passedOver <- [d \in DrawIds |-> {winner[d][k].entry : k \in
     {j \in Ranks(d) : winner[d][j].status = "replaced"}}],
  given <- [d \in DrawIds |-> {winner[d][k].entry : k \in
     {j \in Ranks(d) : winner[d][j].status = "collected"}}]

\* Promotion implements the promise: what was handed over stays handed over, a
\* prize is passed on to at most one fresh entry, and never twice.
PrizesKeepThePromise == Prize!Spec

\* A claim whose deadline has passed does not stay open: it is expired, decided,
\* renewed, or known to have been announced to nobody (expireDue).
DueClaimsAreSettled ==
  \A d \in DrawIds, k \in 1..(TotalWinners + TotalAlternates) :
    (k \in Ranks(d) /\ winner[d][k].claim = "passed" /\ winner[d][k].status \in Claimable)
      ~> (k \in Ranks(d) => \/ winner[d][k].claim # "passed"
                            \/ winner[d][k].status \notin Claimable
                            \/ winner[d][k].lost)

=============================================================================
