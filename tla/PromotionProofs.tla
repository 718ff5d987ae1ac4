-------------------------- MODULE PromotionProofs --------------------------
(* Proofs about Promotion for every value of its constants.  Winners and    *)
(* claims leave the draws as the draw service alone would have them, so     *)
(* what is proved of Draws holds of the whole promotion; then the winners.  *)
EXTENDS Promotion, DrawsProofs, FiniteSetTheorems, FunctionTheorems, WellFoundedInduction

\* A freeze that looks up prior winners is one of the freezes of Draws.
LEMMA PriorWinnersAreASet ==
  ASSUME NEW table PROVE PriorWinners(table) \in PriorSets
BY DEF PriorWinners, PriorSets

LEMMA WinnerStepsLeaveDraws == WinnerStep => UNCHANGED drawVars
BY DEF WinnerStep, Materialise, Notify, ExpireDue, PublishWinner, Unpublish,
       ClaimPasses, NoticeTurns, Transition

LEMMA PromotionDrawsAreDraws == PromotionDraws => DrawNext
<1> SUFFICES ASSUME PromotionDraws PROVE DrawNext OBVIOUS
<1>1. ASSUME NEW p \in Periods, NEW u \in Staff, NEW override \in BOOLEAN,
             Freeze(p, u, override, PriorWinners(draw))
      PROVE  DrawNext
  BY <1>1, PriorWinnersAreASet DEF DrawNext
<1>2. ASSUME NEW d \in DrawIds, NEW u \in Staff,
             Approve(d, u) \/ \E cut \in Cuts : Execute(d, u, cut) \/ Reject(d, u, cut)
      PROVE  DrawNext
  BY <1>2 DEF DrawNext
<1>3. ASSUME NEW d \in DrawIds, NEW cut \in Cuts, Publish(d, cut) PROVE DrawNext
  BY <1>3 DEF DrawNext
<1>4. ASSUME NEW d \in DrawIds, NEW u \in Staff, NEW second \in Staff \cup {Nobody},
             NEW cut \in Cuts, VoidDraw(d, u, second, cut)
      PROVE  DrawNext
  BY <1>4 DEF DrawNext
<1>5. ASSUME NEW d \in DrawIds, NEW u \in Staff, NEW second \in Staff \cup {Nobody},
             NEW cut \in Cuts, NEW prior \in PriorSets,
             Rerun(d, u, second, prior, cut) \/ RerunVoidOnly(d, u, second, prior, cut)
      PROVE  DrawNext
  BY <1>5 DEF DrawNext
<1>6. QED BY <1>1, <1>2, <1>3, <1>4, <1>5, PriorWinnersAreASet DEF PromotionDraws

LEMMA PromotionStepsAreSteps == [PromotionNext]_promotionVars => [Next]_drawVars
<1> SUFFICES ASSUME [PromotionNext]_promotionVars PROVE [Next]_drawVars OBVIOUS
<1>1. CASE PromotionDraws  BY <1>1, PromotionDrawsAreDraws DEF Next
<1>2. CASE PoolNext \/ StaffNext  BY <1>2 DEF Next
<1>3. CASE WinnerStep  BY <1>3, WinnerStepsLeaveDraws
<1>4. CASE UNCHANGED promotionVars  BY <1>4 DEF promotionVars
<1>5. QED BY <1>1, <1>2, <1>3, <1>4 DEF PromotionNext

\* Every behaviour of the promotion is, for the draws, a behaviour of the draw
\* service: the winner service reads draws and never writes them.
THEOREM PromotionIsDraws == PromotionSpec => Spec
<1>1. PromotionInit => Init  BY DEF PromotionInit
<1>2. QED BY <1>1, PromotionStepsAreSteps, PTL DEF PromotionSpec, Spec

\* So the guarantees of a draw hold in the whole promotion: one draw of a period in
\* force, a result that its seal determines, and duties that are separated, whatever
\* happens to winners and claims.
THEOREM PromotionKeepsDraws ==
  PromotionSpec => [](OneLiveDraw /\ ResultFollowsFromFreeze /\ SeparationOfDuties)
BY PromotionIsDraws, AtMostOneLiveDraw, ResultIsDetermined, DutiesAreSeparated, PTL

\* And winners and claims do not touch the evidence, nor get around the account outside
\* the draw, or the second one, that discarding a seen result takes.
THEOREM PromotionKeepsEvidence ==
  PromotionSpec => FrozenEvidenceIsImmutable /\ SeenResultIsDiscardedByTwo
BY PromotionIsDraws, EvidenceIsImmutable, DiscardTakesTwo, PTL

\* To an outsider who holds the bundles of a period, the whole promotion is still what
\* DrawPromise says: sealed before drawn, the one result that the seal determines, one
\* draw in force. An entry that was awarded was in the frozen pool, and a frozen pool is
\* left under two names only.
THEOREM PromotionKeepsThePromise ==
  PromotionSpec => /\ ImplementsPromise
                   /\ [](AwardedEntriesAreInTheSnapshot /\ FrozenPoolIsLeftUnderTwoNames)
BY PromotionIsDraws, DrawsKeepThePromise, NothingIsAwardedPastTheFreeze,
   PoolIsLeftUnderTwoNames, PTL

---------------------------------------------------------------------------
(* The order of a draw: places are numbers without gaps or repetitions.    *)

\* Whatever natural numbers are given, one is the least.
LEMMA LeastNumber ==
  ASSUME NEW T \in SUBSET Nat, T # {}
  PROVE  \E x \in T : \A y \in T : x <= y
<1> DEFINE R == OpToRel(<, Nat)
<1>1. PICK x \in T : \A y \in T : ~ (<<y, x>> \in R)
  <2>1. IsWellFoundedOn(R, Nat)  BY NatLessThanWellFounded
  <2> HIDE DEF R
  <2>2. QED BY <2>1, WFMin
<1>2. ASSUME NEW y \in T PROVE x <= y
  <2>1. ~ (<<y, x>> \in {ss \in Nat \X Nat : ss[1] < ss[2]})  BY <1>1 DEF OpToRel
  <2>2. QED BY <2>1
<1>3. QED BY <1>2

LEMMA ChancesAreFinite ==
  ASSUME NEW cands \in SUBSET Entries, NEW seed
  PROVE  /\ Chances(cands, seed) \in SUBSET Entries
         /\ IsFiniteSet(Chances(cands, seed)) /\ Cardinality(Chances(cands, seed)) \in Nat
<1>1. Chances(cands, seed) \in SUBSET Entries  BY DEF Chances
<1>2. IsFiniteSet(Chances(cands, seed))  BY <1>1, PromotionAssumption, FS_Subset
<1>3. QED BY <1>1, <1>2, FS_CardinalityType

\* No two chances share a place, and every place up to their number is taken.
LEMMA PlacesAreTaken ==
  ASSUME NEW cands \in SUBSET Entries, NEW seed \in Seeds
  PROVE  LET C == Chances(cands, seed)
         IN  /\ \A e \in C : Place(e, cands, seed) \in 1 .. Cardinality(C)
             /\ \A e, f \in C : Place(e, cands, seed) = Place(f, cands, seed) => e = f
             /\ \A k \in 1 .. Cardinality(C) : \E e \in C : Place(e, cands, seed) = k
<1> DEFINE C == Chances(cands, seed)
           n == Cardinality(C)
           below(e) == {f \in C : Rank[seed][f] <= Rank[seed][e]}
<1>1. C \in SUBSET Entries /\ IsFiniteSet(C) /\ n \in Nat  BY ChancesAreFinite
<1>2. \A e \in C : Place(e, cands, seed) = Cardinality(below(e))  BY DEF Place
<1>3. \A e \in C : Rank[seed][e] \in Nat  BY <1>1, DrawsAssumption
<1>4. \A e, f \in C : Rank[seed][e] = Rank[seed][f] => e = f  BY <1>1, DrawsAssumption
<1> HIDE DEF C
<1>5. ASSUME NEW e \in C PROVE Cardinality(below(e)) \in 1 .. n
  <2>1. below(e) \in SUBSET C /\ e \in below(e)  BY <1>3
  <2> HIDE DEF below
  <2>2. IsFiniteSet(below(e)) /\ Cardinality(below(e)) <= n  BY <1>1, <2>1, FS_Subset
  <2>3. Cardinality(below(e)) \in Nat /\ Cardinality(below(e)) # 0
    BY <2>1, <2>2, FS_CardinalityType, FS_EmptySet
  <2>4. QED BY <1>1, <2>2, <2>3
<1>6. ASSUME NEW e \in C, NEW f \in C, Cardinality(below(e)) = Cardinality(below(f)) PROVE e = f
  <2>1. below(e) \in SUBSET below(f) \/ below(f) \in SUBSET below(e)  BY <1>3
  <2>2. below(e) \in SUBSET C /\ below(f) \in SUBSET C  OBVIOUS
  <2>3. e \in below(e) /\ f \in below(f)  BY <1>3
  <2>4. below(e) = below(f) => e = f
    <3> SUFFICES ASSUME below(e) = below(f) PROVE e = f  OBVIOUS
    <3>1. e \in below(f) /\ f \in below(e)  BY <2>3
    <3>2. Rank[seed][e] = Rank[seed][f]  BY <1>3, <3>1
    <3>3. QED BY <1>4, <3>2
  <2> HIDE DEF below
  <2>5. IsFiniteSet(below(e)) /\ IsFiniteSet(below(f))  BY <1>1, <2>2, FS_Subset
  <2>6. below(e) = below(f)  BY <1>6, <2>1, <2>5, FS_Subset
  <2>7. QED BY <2>4, <2>6
<1> DEFINE place == [e \in C |-> Cardinality(below(e))]
<1> HIDE DEF below
<1>7. place \in Injection(C, 1 .. n)
  <2>1. place \in [C -> 1 .. n]  BY <1>5
  <2>2. \A e, f \in C : place[e] = place[f] => e = f  BY <1>6
  <2>3. QED BY <2>1, <2>2, Fun_IsInj
<1>8. IsFiniteSet(1 .. n) /\ Cardinality(1 .. n) = n
  <2>1. 1 \in Int /\ n \in Int  BY <1>1
  <2>2. QED BY <1>1, <2>1, FS_Interval
<1>9. place \in Surjection(C, 1 .. n)  BY <1>7, <1>8, FS_Injection
<1>10. ASSUME NEW k \in 1 .. n PROVE \E e \in C : Cardinality(below(e)) = k
  <2>1. PICK e \in C : place[e] = k  BY <1>9 DEF Surjection
  <2>2. QED BY <2>1
<1>11. QED BY <1>2, <1>5, <1>6, <1>10 DEF C

\* The winners are those of the first places, at most as many as there are prizes.
LEMMA WinnersArePlaced ==
  ASSUME NEW cands \in SUBSET Entries, NEW seed \in Seeds
  PROVE  LET W == SelectWinners(cands, seed).winners
         IN  /\ Cardinality(W) \in Nat /\ Cardinality(W) <= TotalWinners
             /\ \A k \in 1 .. Cardinality(W) : \E e \in W : Place(e, cands, seed) = k
             /\ \A e \in W : Place(e, cands, seed) \in 1 .. Cardinality(W)
<1> DEFINE C == Chances(cands, seed)
           n == Cardinality(C)
           m == IF n <= TotalWinners THEN n ELSE TotalWinners
           W == {e \in C : Place(e, cands, seed) <= TotalWinners}
<1>1. SelectWinners(cands, seed).winners = W  BY DEF SelectWinners
<1>2. n \in Nat /\ m \in Nat /\ m <= TotalWinners /\ m <= n
  <2>1. n \in Nat  BY ChancesAreFinite
  <2>2. TotalWinners \in Nat  BY DrawsAssumption
  <2> HIDE DEF n
  <2>3. QED BY <2>1, <2>2
<1>3. /\ \A e \in C : Place(e, cands, seed) \in 1 .. n
      /\ \A e, f \in C : Place(e, cands, seed) = Place(f, cands, seed) => e = f
      /\ \A k \in 1 .. n : \E e \in C : Place(e, cands, seed) = k
  BY PlacesAreTaken
<1> HIDE DEF C
<1>4. \A e \in W : Place(e, cands, seed) \in 1 .. m  BY <1>2, <1>3, DrawsAssumption
<1>5. ASSUME NEW k \in 1 .. m PROVE \E e \in W : Place(e, cands, seed) = k
  <2>1. k \in 1 .. n /\ k <= TotalWinners  BY <1>2, DrawsAssumption
  <2>2. QED BY <1>3, <2>1
<1>6. \A e, f \in W : Place(e, cands, seed) = Place(f, cands, seed) => e = f  BY <1>3
<1>7. IsFiniteSet(W)
  <2>1. W \in SUBSET C  OBVIOUS
  <2>2. IsFiniteSet(C)  BY ChancesAreFinite DEF C
  <2>3. QED BY <2>1, <2>2, FS_Subset
<1> HIDE DEF W, m
<1> DEFINE place == [e \in W |-> Place(e, cands, seed)]
<1>8. place \in Bijection(W, 1 .. m)
  <2>1. place \in [W -> 1 .. m]  BY <1>4
  <2>2. \A e, f \in W : place[e] = place[f] => e = f  BY <1>6
  <2>3. place \in Injection(W, 1 .. m)  BY <2>1, <2>2, Fun_IsInj
  <2>4. \A k \in 1 .. m : \E e \in W : place[e] = k  BY <1>5
  <2>5. place \in Surjection(W, 1 .. m)  BY <2>1, <2>4, Fun_IsSurj
  <2>6. QED BY <2>3, <2>5 DEF Bijection
<1>9. Cardinality(1 .. m) = m
  <2>1. 1 \in Int /\ m \in Int  BY <1>2
  <2>2. QED BY <1>2, <2>1, FS_Interval
<1>10. Cardinality(W) = m
  <2>1. ExistsBijection(W, 1 .. m)  BY <1>8 DEF ExistsBijection
  <2>2. QED BY <1>7, <1>9, <2>1, FS_Bijection
<1>11. QED BY <1>1, <1>2, <1>4, <1>5, <1>10

\* Where a participant may win once, no two chances are one participant's.
LEMMA OneChanceEach ==
  ASSUME NEW cands \in SUBSET Entries, NEW seed \in Seeds, OnePrize,
         NEW e \in Chances(cands, seed), NEW f \in Chances(cands, seed), OwnerOf[e] = OwnerOf[f]
  PROVE  e = f
<1>1. e \in Entries /\ f \in Entries /\ e \in cands /\ f \in cands  BY DEF Chances
<1>2. Rank[seed][e] <= Rank[seed][f] /\ Rank[seed][f] <= Rank[seed][e]  BY <1>1 DEF Chances
<1>3. Rank[seed] \in [Entries -> Nat]  BY DrawsAssumption
<1>4. Rank[seed][e] \in Nat /\ Rank[seed][f] \in Nat  BY <1>1, <1>3
<1>5. Rank[seed][e] = Rank[seed][f]  BY <1>2, <1>4
<1>6. QED BY <1>1, <1>5, DrawsAssumption

---------------------------------------------------------------------------
(* The winners table: its rows, and what one step may do to those of a     *)
(* draw.  Everything proved of winners follows from this case distinction. *)

WinnerRow ==
  [status : WinnerStatus, entry : Entries, claim : {"none", "running", "passed"},
   lost : BOOLEAN, publication : {"unpublished", "published", "withdrawn"}, replacedBy : Nat]

\* The statuses of a prize that is taken, and the rows whose prize was not passed on.
Shown == {"verified", "accepted", "collected", "disputed"}
StandingIn(rows) == {k \in DOMAIN rows : rows[k].status # "replaced"}

ShownRow(row) == row.publication = "published" => row.status \in Shown

\* What is true of the rows that a draw r has in the table: they exist once it was
\* approved, come from its result, no entry twice, and stand for its prizes.
RowsOf(r, rows) ==
  /\ rows \in Seq(WinnerRow)
  /\ \A k \in 1 .. Len(rows) : ShownRow(rows[k])
  /\ \A j, k \in 1 .. Len(rows) : rows[j].entry = rows[k].entry => j = k
  /\ Cardinality(StandingIn(rows)) <= TotalWinners
  /\ rows # <<>> =>
       /\ r.status \in {"approved", "published", "voided"}
       /\ r.output = SelectWinners(r.cands, r.seed)
  /\ EntriesIn(rows) \subseteq r.output.winners \cup r.output.alternates

WinnersInv ==
  /\ winner \in [DrawIds -> Seq(WinnerRow)]
  /\ \A d \in DrawIds : RowsOf(draw[d], winner[d])

\* A row after an ordinary step: the entry stays, "replaced" and "collected" are final.
Follows(new, old) ==
  /\ new \in WinnerRow
  /\ new.entry = old.entry
  /\ old.status \in {"replaced", "collected"} => new.status = old.status
  /\ ShownRow(new)

Carried(d, rows) ==
  /\ rows \in Seq(WinnerRow)
  /\ Len(rows) = Len(winner[d])
  /\ \A k \in Ranks(d) : Follows(rows[k], winner[d][k])

Filled(d, rows) == winner[d] = <<>> /\ draw[d].status \in Confirmed /\ rows = Drawn(d)

TakenBack(d, rows) ==
  /\ Carried(d, rows)
  /\ \A k \in Ranks(d) : rows[k].status = "collected" => winner[d][k].status = "collected"

HandedOver(d, k, rows) ==
  /\ Carried(d, rows)
  /\ winner[d][k].status \notin {"replaced", "collected"}
  /\ rows[k].status = "collected"
  /\ \A j \in Ranks(d) : j # k => rows[j].status = winner[d][j].status

\* a comes up, and every stored alternate before it has come up or is disqualified.
FirstLeft(d, a) ==
  /\ a \in draw[d].output.alternates /\ a \notin EntriesIn(winner[d])
  /\ \A b \in draw[d].output.alternates :
       (PlaceIn(d, b) < PlaceIn(d, a) /\ b \notin EntriesIn(winner[d])) => entry[b] # "active"

PassedOn(d, k, rows) ==
  \E mid \in Seq(WinnerRow), a \in Entries :
    /\ Carried(d, mid)
    /\ winner[d][k].status \notin {"replaced", "collected"}
    /\ mid[k].status = "replaced"
    /\ \A j \in Ranks(d) : j # k => mid[j].status = winner[d][j].status
    /\ FirstLeft(d, a)
    /\ rows = Append(mid, FreshWinner(a))

RowsStep(d, rows) ==
  \/ Filled(d, rows)
  \/ TakenBack(d, rows)
  \/ \E k \in Ranks(d) : HandedOver(d, k, rows)
  \/ UNCHANGED drawVars /\ \E k \in Ranks(d) : PassedOn(d, k, rows)

WinnersStep ==
  \/ UNCHANGED winner
  \/ \E d \in DrawIds, rows \in Seq(WinnerRow) :
       winner' = [winner EXCEPT ![d] = rows] /\ RowsStep(d, rows)

\* The table of transitions: nothing leads out of "collected" or "replaced", and a
\* prize that is taken stays taken or the winner is taken out.
LEMMA AllowedMoves ==
  ASSUME NEW st \in WinnerStatus, NEW s \in Allowed[st]
  PROVE  /\ s \in WinnerStatus
         /\ st \notin {"collected", "replaced"}
         /\ st \in Shown => s \in Shown \cup TakenOut
<1>1. \A x \in {"collected", "replaced"} : Allowed[x] = {}  BY DEF Allowed
<1>2. \A x \in Shown : Allowed[x] \subseteq Shown \cup TakenOut
  BY DEF Allowed, Shown, TakenOut
<1>3. \A x \in WinnerStatus : Allowed[x] \subseteq WinnerStatus  BY DEF Allowed, WinnerStatus
<1>4. QED BY <1>1, <1>2, <1>3

\* transitionInTx on one row.
LEMMA MovedFollows ==
  ASSUME NEW row \in WinnerRow, NEW s \in WinnerStatus, ShownRow(row),
         row.status \notin {"replaced", "collected"},
         row.status \in Shown => s \in Shown \cup TakenOut,
         NEW new, new = Moved(row, s)
  PROVE  Follows(new, row) /\ new.status = s
<1> DEFINE pub == IF s \in TakenOut /\ row.publication = "published" THEN "withdrawn"
                  ELSE row.publication
<1>1. new = [row EXCEPT !.status = s, !.publication = pub]  BY DEF Moved
<1>2. /\ row.publication \in {"unpublished", "published", "withdrawn"}
      /\ pub \in {"unpublished", "published", "withdrawn"}
      /\ pub = "published" => s \in Shown
  BY DEF WinnerRow, ShownRow
<1> HIDE DEF pub
<1>3. /\ new \in WinnerRow /\ new.entry = row.entry /\ new.status = s
      /\ new.publication = pub
  BY <1>1, <1>2 DEF WinnerRow
<1>4. QED BY <1>2, <1>3 DEF Follows, ShownRow

LEMMA FreshRow ==
  ASSUME NEW e \in Entries
  PROVE  /\ FreshWinner(e) \in WinnerRow /\ FreshWinner(e).entry = e
         /\ FreshWinner(e).status = "selected" /\ ShownRow(FreshWinner(e))
BY DEF FreshWinner, WinnerRow, WinnerStatus, ShownRow

\* A step that writes one row of a draw.
OneRowIs(d, k, new, rows) == rows = [winner[d] EXCEPT ![k] = new]

LEMMA OneRowCarried ==
  ASSUME WinnersInv, NEW d \in DrawIds, NEW k \in Ranks(d), NEW new, NEW rows,
         Follows(new, winner[d][k]), OneRowIs(d, k, new, rows)
  PROVE  /\ Carried(d, rows) /\ rows[k] = new
         /\ \A j \in Ranks(d) : j # k => rows[j] = winner[d][j]
<1>1. /\ winner[d] \in Seq(WinnerRow) /\ Len(winner[d]) \in Nat
      /\ \A j \in Ranks(d) : winner[d][j] \in WinnerRow /\ ShownRow(winner[d][j])
  BY DEF WinnersInv, RowsOf, Ranks
<1>2. new \in WinnerRow  BY DEF Follows
<1>3. /\ rows \in Seq(WinnerRow) /\ Len(rows) = Len(winner[d]) /\ rows[k] = new
      /\ \A j \in Ranks(d) : j # k => rows[j] = winner[d][j]
  BY <1>1, <1>2 DEF Ranks, OneRowIs
<1>4. \A j \in Ranks(d) : j # k => Follows(rows[j], winner[d][j])
  BY <1>1, <1>3 DEF Follows
<1>5. QED BY <1>3, <1>4 DEF Carried

\* Where the rows of a draw come from.
LEMMA RowsAreDrawn ==
  ASSUME TypeOK, WinnersInv, NEW d \in DrawIds, NEW k \in Ranks(d)
  PROVE  /\ draw[d].cands \in SUBSET Entries /\ draw[d].seed \in Seeds
         /\ draw[d].output = SelectWinners(draw[d].cands, draw[d].seed)
         /\ draw[d].output.winners \cup draw[d].output.alternates
              \subseteq Chances(draw[d].cands, draw[d].seed)
         /\ \A j \in Ranks(d) : winner[d][j].entry \in Chances(draw[d].cands, draw[d].seed)
         /\ \A e \in Chances(draw[d].cands, draw[d].seed) : PlaceIn(d, e) \in Nat
<1>1. draw[d].cands \in SUBSET Entries /\ draw[d].seed \in Seeds  BY DEF TypeOK, DrawRow
<1>2. winner[d] \in Seq(WinnerRow) /\ Len(winner[d]) \in Nat  BY DEF WinnersInv
<1>3. winner[d] # <<>>  BY <1>2 DEF Ranks
<1>4. /\ draw[d].output = SelectWinners(draw[d].cands, draw[d].seed)
      /\ EntriesIn(winner[d]) \subseteq draw[d].output.winners \cup draw[d].output.alternates
  BY <1>3 DEF WinnersInv, RowsOf
<1>5. draw[d].output.winners \cup draw[d].output.alternates
        \subseteq Chances(draw[d].cands, draw[d].seed)
  BY <1>4 DEF SelectWinners
<1>6. \A j \in Ranks(d) : winner[d][j].entry \in EntriesIn(winner[d])
  BY <1>2 DEF EntriesIn, Ranks
<1>7. \A e \in Chances(draw[d].cands, draw[d].seed) : PlaceIn(d, e) \in Nat
  <2>1. Cardinality(Chances(draw[d].cands, draw[d].seed)) \in Nat  BY <1>1, ChancesAreFinite
  <2>2. \A e \in Chances(draw[d].cands, draw[d].seed) :
          PlaceIn(d, e) \in 1 .. Cardinality(Chances(draw[d].cands, draw[d].seed))
    BY <1>1, PlacesAreTaken DEF PlaceIn
  <2>3. QED BY <2>1, <2>2
<1>8. QED BY <1>1, <1>4, <1>5, <1>6, <1>7

LEMMA SameEntries ==
  ASSUME WinnersInv, NEW d \in DrawIds, NEW rows, Carried(d, rows)
  PROVE  EntriesIn(rows) = EntriesIn(winner[d])
<1>1. /\ rows \in Seq(WinnerRow) /\ winner[d] \in Seq(WinnerRow)
      /\ DOMAIN rows = Ranks(d) /\ DOMAIN winner[d] = Ranks(d)
  BY DEF WinnersInv, Carried, Ranks
<1>2. \A k \in Ranks(d) : rows[k].entry = winner[d][k].entry  BY DEF Carried, Follows
<1>3. QED BY <1>1, <1>2 DEF EntriesIn

\* The alternate that promoteAlternate finds is the first that is left.
LEMMA NextIsFirstLeft ==
  ASSUME TypeOK, WinnersInv, NEW d \in DrawIds, NEW k \in Ranks(d), NEW rows, Carried(d, rows),
         NEW left, left = AlternatesLeft(d, rows), left # {}
  PROVE  NextAlternate(d, left) \in Entries /\ FirstLeft(d, NextAlternate(d, left))
<1> DEFINE C == Chances(draw[d].cands, draw[d].seed)
           alts == draw[d].output.alternates
<1>1. /\ draw[d].cands \in SUBSET Entries /\ draw[d].seed \in Seeds
      /\ alts \subseteq C
      /\ \A j \in Ranks(d) : winner[d][j].entry \in C
      /\ \A e \in C : PlaceIn(d, e) \in Nat
  BY RowsAreDrawn
<1>2. C \subseteq Entries  BY <1>1, ChancesAreFinite
<1>3. EntriesIn(rows) = EntriesIn(winner[d])  BY SameEntries
<1>4. left \subseteq alts  BY DEF AlternatesLeft
<1>5. PICK a \in left : \A b \in left : PlaceIn(d, a) <= PlaceIn(d, b)
  <2> DEFINE T == {PlaceIn(d, b) : b \in left}
  <2>1. T \in SUBSET Nat /\ T # {}  BY <1>1, <1>4
  <2>2. \E x \in T : \A y \in T : x <= y
    <3> HIDE DEF T
    <3>1. QED BY <2>1, LeastNumber
  <2>3. QED BY <2>2
<1> DEFINE next == NextAlternate(d, left)
<1>6. next \in left /\ \A b \in left : PlaceIn(d, next) <= PlaceIn(d, b)
  BY <1>5 DEF NextAlternate
<1> HIDE DEF next
<1>7. next \in alts /\ next \notin EntriesIn(winner[d])  BY <1>3, <1>6 DEF AlternatesLeft
<1>8. ASSUME NEW b \in alts, PlaceIn(d, b) < PlaceIn(d, next), b \notin EntriesIn(winner[d])
      PROVE  entry[b] # "active"
  <2>1. b \in C /\ next \in C  BY <1>1, <1>7
  <2>2. b \notin left  BY <1>1, <1>6, <1>8, <2>1
  <2>3. ASSUME OnePrize, NEW j \in DOMAIN rows, OwnerOf[b] = OwnerOf[rows[j].entry]
        PROVE  FALSE
    <3>1. rows[j].entry \in EntriesIn(winner[d])  BY <1>3 DEF EntriesIn
    <3>2. rows[j].entry \in C
      <4>1. PICK i \in DOMAIN winner[d] : rows[j].entry = winner[d][i].entry
        BY <3>1 DEF EntriesIn
      <4>2. i \in Ranks(d)  BY DEF Ranks, WinnersInv
      <4>3. QED BY <1>1, <4>1, <4>2
    <3>3. b = rows[j].entry  BY <1>1, <2>1, <2>3, <3>2, OneChanceEach
    <3>4. QED BY <1>8, <3>1, <3>3
  <2>4. QED BY <1>3, <1>8, <2>2, <2>3 DEF AlternatesLeft
<1>9. QED BY <1>2, <1>1, <1>7, <1>8 DEF FirstLeft, next

\* A write to the table that replaces the rows of one draw by good ones.
LEMMA OneDrawWritten ==
  ASSUME NEW d \in DrawIds, NEW rows \in Seq(WinnerRow), RowsStep(d, rows),
         winner' = [winner EXCEPT ![d] = rows]
  PROVE  WinnersStep
BY DEF WinnersStep

\* The calls that write one row and promote nobody.
LEMMA OneRowWritten ==
  ASSUME WinnersInv, NEW d \in DrawIds, NEW k \in Ranks(d), NEW new, NEW rows,
         Follows(new, winner[d][k]), OneRowIs(d, k, new, rows),
         winner' = [winner EXCEPT ![d] = rows]
  PROVE  WinnersStep
<1>1. /\ Carried(d, rows) /\ rows[k] = new
      /\ \A j \in Ranks(d) : j # k => rows[j] = winner[d][j]
  BY OneRowCarried
<1>2. rows \in Seq(WinnerRow)  BY <1>1 DEF Carried
<1>3. CASE new.status = "collected" /\ winner[d][k].status # "collected"
  <2>1. winner[d][k].status # "replaced"  BY <1>3 DEF Follows
  <2>2. HandedOver(d, k, rows)  BY <1>1, <1>3, <2>1 DEF HandedOver
  <2>3. QED BY <1>2, <2>2, OneDrawWritten DEF RowsStep
<1>4. CASE ~ (new.status = "collected" /\ winner[d][k].status # "collected")
  <2>1. TakenBack(d, rows)  BY <1>1, <1>4 DEF TakenBack
  <2>2. QED BY <1>2, <2>1, OneDrawWritten DEF RowsStep
<1>5. QED BY <1>3, <1>4

\* Filling the table, once the draw is confirmed.
LEMMA DrawnRows ==
  ASSUME TypeOK, ResultFollowsFromFreeze, NEW d \in DrawIds, draw[d].status \in Confirmed,
         NEW rows, rows = Drawn(d)
  PROVE  /\ rows \in Seq(WinnerRow)
         /\ RowsOf(draw[d], rows)
         /\ EntriesIn(rows) \subseteq draw[d].output.winners
         /\ \A k \in 1 .. Len(rows) : rows[k].status = "selected"
<1> DEFINE cands == draw[d].cands
           seed == draw[d].seed
           W == draw[d].output.winners
           n == Cardinality(W)
           chosen(k) == CHOOSE e \in W : PlaceIn(d, e) = k
<1>1. cands \in SUBSET Entries /\ seed \in Seeds  BY DEF TypeOK, DrawRow
<1>2. draw[d].output = SelectWinners(cands, seed)
  BY DEF ResultFollowsFromFreeze, Confirmed, Seen
<1>3. W \subseteq Entries  BY DEF TypeOK, DrawRow, Output
<1>4. /\ n \in Nat /\ n <= TotalWinners
      /\ \A k \in 1 .. n : \E e \in W : PlaceIn(d, e) = k
  <2> DEFINE won == SelectWinners(cands, seed).winners
  <2>1. /\ Cardinality(won) \in Nat /\ Cardinality(won) <= TotalWinners
        /\ \A k \in 1 .. Cardinality(won) : \E e \in won : Place(e, cands, seed) = k
    BY <1>1, WinnersArePlaced
  <2>2. won = W  BY <1>2
  <2> HIDE DEF won
  <2>3. QED BY <2>1, <2>2 DEF PlaceIn
<1>5. \A k \in 1 .. n : chosen(k) \in W /\ PlaceIn(d, chosen(k)) = k  BY <1>4
<1>6. rows = [k \in 1 .. n |-> FreshWinner(chosen(k))]  BY DEF Drawn
<1> HIDE DEF chosen, n
<1>7. \A k \in 1 .. n : /\ FreshWinner(chosen(k)) \in WinnerRow
                        /\ FreshWinner(chosen(k)).entry = chosen(k)
                        /\ FreshWinner(chosen(k)).status = "selected"
                        /\ ShownRow(FreshWinner(chosen(k)))
  BY <1>3, <1>5, FreshRow
<1>8. /\ rows \in Seq(WinnerRow) /\ Len(rows) = n /\ DOMAIN rows = 1 .. n
      /\ \A k \in 1 .. n : /\ rows[k].entry = chosen(k) /\ rows[k].status = "selected"
                           /\ ShownRow(rows[k])
  <2>1. rows \in [1 .. n -> WinnerRow]  BY <1>6, <1>7
  <2>2. rows \in Seq(WinnerRow) /\ Len(rows) = n  BY <1>4, <2>1
  <2>3. QED BY <1>6, <1>7, <2>1, <2>2
<1>9. \A j, k \in 1 .. n : rows[j].entry = rows[k].entry => j = k  BY <1>5, <1>8
<1>10. EntriesIn(rows) \subseteq W  BY <1>5, <1>8 DEF EntriesIn
<1>11. Cardinality(StandingIn(rows)) <= TotalWinners
  <2>1. 1 \in Int /\ n \in Int  BY <1>4
  <2>2. IsFiniteSet(1 .. n) /\ Cardinality(1 .. n) = n  BY <1>4, <2>1, FS_Interval
  <2>3. StandingIn(rows) = 1 .. n  BY <1>8 DEF StandingIn
  <2>4. QED BY <1>4, <2>2, <2>3
<1>12. QED BY <1>2, <1>8, <1>9, <1>10, <1>11 DEF RowsOf, Confirmed

LEMMA RowTypes ==
  ASSUME WinnersInv, NEW d \in DrawIds, NEW k \in Ranks(d)
  PROVE  /\ winner \in [DrawIds -> Seq(WinnerRow)]
         /\ winner[d][k] \in WinnerRow /\ ShownRow(winner[d][k])
         /\ winner[d][k].status \in WinnerStatus
<1>1. winner[d] \in Seq(WinnerRow) /\ \A j \in Ranks(d) : ShownRow(winner[d][j])
  BY DEF WinnersInv, RowsOf, Ranks
<1>2. winner[d][k] \in WinnerRow  BY <1>1 DEF Ranks
<1>3. winner \in [DrawIds -> Seq(WinnerRow)]  BY DEF WinnersInv
<1>4. QED BY <1>1, <1>2, <1>3 DEF WinnerRow

\* notifyWinner, expireDue, publishWinner, unpublishWinner, and the clock.
LEMMA OneRowCalls ==
  ASSUME WinnersInv, NEW d \in DrawIds, NEW k \in Ranks(d),
         \/ Notify(d, k) \/ ExpireDue(d, k) \/ PublishWinner(d, k) \/ Unpublish(d, k)
         \/ ClaimPasses(d, k) \/ NoticeTurns(d, k)
  PROVE  WinnersStep
<1> DEFINE row == winner[d][k]
<1>1. /\ winner \in [DrawIds -> Seq(WinnerRow)] /\ row \in WinnerRow /\ ShownRow(row)
      /\ row.status \in WinnerStatus
  BY RowTypes
<1>2. ASSUME NEW new, Follows(new, row),
             winner' = [winner EXCEPT ![d] = [winner[d] EXCEPT ![k] = new]]
      PROVE  WinnersStep
  <2>1. PICK rows : OneRowIs(d, k, new, rows)  BY DEF OneRowIs
  <2>2. winner' = [winner EXCEPT ![d] = rows]  BY <1>2, <2>1 DEF OneRowIs
  <2>3. QED BY <1>2, <2>1, <2>2, OneRowWritten
<1>3. CASE Notify(d, k)
  <2>1. PICK told : told = Moved(row, "notified")  OBVIOUS
  <2>2. Follows(told, row) /\ told.status = "notified"
    <3>1. "notified" \in WinnerStatus  BY DEF WinnerStatus
    <3>2. row.status \notin {"replaced", "collected"} /\ row.status \notin Shown
      BY <1>3 DEF Notify, Shown
    <3>3. QED BY <1>1, <2>1, <3>1, <3>2, MovedFollows
  <2>3. Follows([told EXCEPT !.claim = "running", !.lost = FALSE], row)
    <3>1. told \in WinnerRow /\ ShownRow(told) /\ told.entry = row.entry  BY <2>2 DEF Follows
    <3>2. row.status \notin {"replaced", "collected"}  BY <1>3 DEF Notify
    <3> DEFINE new == [told EXCEPT !.claim = "running", !.lost = FALSE]
    <3>3. new \in WinnerRow /\ new.entry = told.entry /\ new.status = told.status
          /\ new.publication = told.publication
      BY <3>1 DEF WinnerRow
    <3> HIDE DEF new
    <3>4. Follows(new, row)  BY <3>1, <3>2, <3>3 DEF Follows, ShownRow
    <3>5. QED BY <3>4 DEF new
  <2>4. winner' = [winner EXCEPT ![d] = [winner[d] EXCEPT
                     ![k] = [told EXCEPT !.claim = "running", !.lost = FALSE]]]
    BY <1>3, <2>1 DEF Notify
  <2>5. QED BY <1>2, <2>3, <2>4
<1>4. CASE ExpireDue(d, k)
  <2>1. "expired" \in WinnerStatus /\ "expired" \in TakenOut
    BY DEF WinnerStatus, TakenOut
  <2>2. row.status \notin {"replaced", "collected"}  BY <1>4 DEF ExpireDue, Claimable
  <2>3. Follows(Moved(row, "expired"), row)  BY <1>1, <2>1, <2>2, MovedFollows
  <2>4. winner' = [winner EXCEPT ![d] = [winner[d] EXCEPT ![k] = Moved(row, "expired")]]
    BY <1>4 DEF ExpireDue
  <2>5. QED BY <1>2, <2>3, <2>4
<1>5. CASE PublishWinner(d, k)
  <2>1. row.status \in Shown  BY <1>5 DEF PublishWinner, Shown
  <2>2. Follows([row EXCEPT !.publication = "published"], row)
    BY <1>1, <2>1 DEF Follows, ShownRow, WinnerRow
  <2>3. winner' = [winner EXCEPT ![d] = [winner[d] EXCEPT
                     ![k] = [row EXCEPT !.publication = "published"]]]
    BY <1>5 DEF PublishWinner
  <2>4. QED BY <1>2, <2>2, <2>3
<1>6. CASE Unpublish(d, k)
  <2>1. Follows([row EXCEPT !.publication = "withdrawn"], row)
    BY <1>1 DEF Follows, ShownRow, WinnerRow
  <2>2. winner' = [winner EXCEPT ![d] = [winner[d] EXCEPT
                     ![k] = [row EXCEPT !.publication = "withdrawn"]]]
    BY <1>6 DEF Unpublish
  <2>3. QED BY <1>2, <2>1, <2>2
<1>7. CASE ClaimPasses(d, k)
  <2>1. Follows([row EXCEPT !.claim = "passed"], row)
    BY <1>1 DEF Follows, ShownRow, WinnerRow
  <2>2. winner' = [winner EXCEPT ![d] = [winner[d] EXCEPT
                     ![k] = [row EXCEPT !.claim = "passed"]]]
    BY <1>7 DEF ClaimPasses
  <2>3. QED BY <1>2, <2>1, <2>2
<1>8. CASE NoticeTurns(d, k)
  <2>1. Follows([row EXCEPT !.lost = ~@], row)
    BY <1>1 DEF Follows, ShownRow, WinnerRow
  <2>2. winner' = [winner EXCEPT ![d] = [winner[d] EXCEPT ![k] = [row EXCEPT !.lost = ~@]]]
    BY <1>8 DEF NoticeTurns
  <2>3. QED BY <1>2, <2>1, <2>2
<1>9. QED BY <1>3, <1>4, <1>5, <1>6, <1>7, <1>8

\* The transition route, with the alternate that takes over from a replaced winner.
LEMMA TransitionRows ==
  ASSUME TypeOK, WinnersInv, NEW d \in DrawIds, NEW k \in Ranks(d), NEW s \in WinnerStatus,
         Transition(d, k, s)
  PROVE  WinnersStep
<1> DEFINE row == winner[d][k]
<1>1. /\ winner \in [DrawIds -> Seq(WinnerRow)] /\ row \in WinnerRow /\ ShownRow(row)
      /\ row.status \in WinnerStatus
  BY RowTypes
<1>2. s \in Allowed[row.status]  BY DEF Transition, MayMove
<1>3. row.status \notin {"collected", "replaced"} /\ (row.status \in Shown => s \in Shown \cup TakenOut)
  BY <1>1, <1>2, AllowedMoves
<1>4. PICK new : new = Moved(row, s)  OBVIOUS
<1>5. Follows(new, row) /\ new.status = s  BY <1>1, <1>3, <1>4, MovedFollows
<1>6. PICK rows : OneRowIs(d, k, new, rows)  BY DEF OneRowIs
<1>7. rows = [winner[d] EXCEPT ![k] = Moved(@, s)]  BY <1>4, <1>6 DEF OneRowIs
<1>8. /\ winner' = [winner EXCEPT ![d] = IF s \in Promoting THEN WithAlternate(d, rows, k)
                                         ELSE rows]
      /\ UNCHANGED drawVars
  BY <1>7 DEF Transition
<1>9. Carried(d, rows) /\ rows[k] = new /\ \A j \in Ranks(d) : j # k => rows[j] = winner[d][j]
  BY <1>5, <1>6, OneRowCarried
<1>10. PICK left : left = AlternatesLeft(d, rows)  OBVIOUS
<1>11. CASE s \notin Promoting \/ left = {}
  <2>1. winner' = [winner EXCEPT ![d] = rows]  BY <1>8, <1>10, <1>11 DEF WithAlternate
  <2>2. QED BY <1>5, <1>6, <2>1, OneRowWritten
<1>12. CASE s \in Promoting /\ left # {}
  <2>1. s = "replaced"  BY <1>12 DEF Promoting
  <2>2. PICK a : a = NextAlternate(d, left)  OBVIOUS
  <2>3. a \in Entries /\ FirstLeft(d, a)  BY <1>9, <1>10, <1>12, <2>2, NextIsFirstLeft
  <2>4. rows \in Seq(WinnerRow) /\ Len(rows) \in Nat  BY <1>9 DEF Carried
  <2>5. PICK linked : linked = [new EXCEPT !.replacedBy = Len(rows) + 1]  OBVIOUS
  <2>6. Follows(linked, row) /\ linked.status = "replaced"
    <3>1. new \in WinnerRow /\ ShownRow(new) /\ new.entry = row.entry  BY <1>5 DEF Follows
    <3>2. linked \in WinnerRow /\ linked.entry = new.entry /\ linked.status = new.status
          /\ linked.publication = new.publication
      BY <2>4, <2>5, <3>1 DEF WinnerRow
    <3>3. QED BY <1>3, <1>5, <2>1, <3>1, <3>2 DEF Follows, ShownRow
  <2>7. PICK mid : OneRowIs(d, k, linked, mid)  BY DEF OneRowIs
  <2>8. /\ Carried(d, mid) /\ mid[k] = linked
        /\ \A j \in Ranks(d) : j # k => mid[j] = winner[d][j]
    BY <2>6, <2>7, OneRowCarried
  <2>9. mid = [rows EXCEPT ![k].replacedBy = Len(rows) + 1]
    <3>1. k \in DOMAIN rows
      BY <1>1, <1>9 DEF Carried, Ranks
    <3>2. [rows EXCEPT ![k].replacedBy = Len(rows) + 1] = [rows EXCEPT ![k] = linked]
      BY <1>9, <2>5, <3>1
    <3>3. [rows EXCEPT ![k] = linked] = [winner[d] EXCEPT ![k] = linked]
      BY <1>6 DEF OneRowIs
    <3>4. QED BY <2>7, <3>2, <3>3 DEF OneRowIs
  <2>10. PICK longer : longer = Append(mid, FreshWinner(a))  OBVIOUS
  <2>11. winner' = [winner EXCEPT ![d] = longer]
    <3>1. WithAlternate(d, rows, k) = longer
      BY <1>10, <1>12, <2>2, <2>9, <2>10 DEF WithAlternate
    <3>2. QED BY <1>8, <1>12, <3>1
  <2>12. PassedOn(d, k, longer)
    <3>1. mid \in Seq(WinnerRow)  BY <2>8 DEF Carried
    <3>2. QED BY <1>3, <2>3, <2>6, <2>8, <2>10, <3>1 DEF PassedOn
  <2>13. longer \in Seq(WinnerRow)
    <3>1. FreshWinner(a) \in WinnerRow  BY <2>3, FreshRow
    <3>2. mid \in Seq(WinnerRow)  BY <2>8 DEF Carried
    <3>3. QED BY <2>10, <3>1, <3>2
  <2>14. QED BY <1>8, <2>11, <2>12, <2>13, OneDrawWritten DEF RowsStep
<1>13. QED BY <1>11, <1>12

LEMMA FillingRows ==
  ASSUME TypeOK, ResultFollowsFromFreeze, NEW d \in DrawIds,
         draw[d].status \in Confirmed, winner[d] = <<>>,
         winner' = [winner EXCEPT ![d] = Drawn(d)]
  PROVE  WinnersStep
<1>1. PICK rows : rows = Drawn(d)  OBVIOUS
<1>2. rows \in Seq(WinnerRow)  BY <1>1, DrawnRows
<1>3. Filled(d, rows)  BY <1>1 DEF Filled
<1>4. QED BY <1>1, <1>2, <1>3, OneDrawWritten DEF RowsStep

\* What voiding a draw, or dying in the middle of it, does to its winners.
LEMMA VoidingRows ==
  ASSUME WinnersInv, NEW d \in DrawIds, NEW cut \in BOOLEAN, VoidsWinners(d, cut)
  PROVE  WinnersStep
<1>1. PICK upto : winner' = VoidForDraw(d, upto)  BY DEF VoidsWinners
<1>2. PICK rows : rows = [k \in Ranks(d) |-> IF k <= upto THEN VoidedRow(winner[d][k])
                                             ELSE winner[d][k]]
  OBVIOUS
<1>3. winner' = [winner EXCEPT ![d] = rows]  BY <1>1, <1>2 DEF VoidForDraw
<1>4. \A k \in Ranks(d) : /\ winner[d][k] \in WinnerRow /\ ShownRow(winner[d][k])
                          /\ winner[d][k].status \in WinnerStatus
  BY RowTypes
<1>5. ASSUME NEW k \in Ranks(d)
      PROVE  /\ Follows(VoidedRow(winner[d][k]), winner[d][k])
             /\ VoidedRow(winner[d][k]).status = "collected" => winner[d][k].status = "collected"
  <2>1. CASE winner[d][k].status \in {"collected", "replaced"}
    BY <1>4, <2>1 DEF VoidedRow, Follows
  <2>2. CASE winner[d][k].status \notin {"collected", "replaced"}
    <3>1. "replaced" \in WinnerStatus /\ "replaced" \in TakenOut  BY DEF WinnerStatus, TakenOut
    <3>2. PICK new : new = Moved(winner[d][k], "replaced")  OBVIOUS
    <3>3. Follows(new, winner[d][k]) /\ new.status = "replaced"
      BY <1>4, <2>2, <3>1, <3>2, MovedFollows
    <3>4. VoidedRow(winner[d][k]) = new  BY <2>2, <3>2 DEF VoidedRow
    <3>5. QED BY <3>3, <3>4
  <2>3. QED BY <2>1, <2>2
<1>6. Len(winner[d]) \in Nat  BY DEF WinnersInv
<1>7. \A k \in Ranks(d) : /\ Follows(rows[k], winner[d][k])
                          /\ rows[k].status = "collected" => winner[d][k].status = "collected"
  BY <1>2, <1>4, <1>5 DEF Follows
<1>8. rows \in Seq(WinnerRow) /\ Len(rows) = Len(winner[d])
  <2>1. rows \in [1 .. Len(winner[d]) -> WinnerRow]
    BY <1>2, <1>7 DEF Ranks, Follows
  <2>2. QED BY <1>6, <2>1
<1>9. TakenBack(d, rows)  BY <1>7, <1>8 DEF TakenBack, Carried
<1>10. QED BY <1>3, <1>8, <1>9, OneDrawWritten DEF RowsStep

\* Every step of the promotion treats the winners table in one of these ways.
LEMMA EveryStepWinners ==
  TypeOK /\ ResultFollowsFromFreeze /\ WinnersInv /\ [PromotionNext]_promotionVars => WinnersStep
<1> SUFFICES ASSUME TypeOK, ResultFollowsFromFreeze, WinnersInv, [PromotionNext]_promotionVars
             PROVE  WinnersStep
  OBVIOUS
<1>1. CASE UNCHANGED winner  BY <1>1 DEF WinnersStep
<1>2. CASE WinnerStep
  <2>1. ASSUME NEW d \in DrawIds, Materialise(d) PROVE WinnersStep
    BY <2>1, FillingRows DEF Materialise
  <2>2. QED BY <1>2, <2>1, OneRowCalls, TransitionRows DEF WinnerStep
<1>3. CASE PromotionDraws
  <2>1. ASSUME NEW d \in DrawIds, NEW cut \in Cuts, NEW dies \in BOOLEAN, Publish(d, cut),
               winner' = IF cut \/ dies \/ winner[d] # <<>> THEN winner
                         ELSE [winner EXCEPT ![d] = Drawn(d)]
        PROVE  WinnersStep
    <3>1. draw[d].status \in Confirmed  BY <2>1 DEF Publish, Confirmed
    <3>2. winner' = winner \/ (winner[d] = <<>> /\ winner' = [winner EXCEPT ![d] = Drawn(d)])
      BY <2>1
    <3>3. QED BY <1>1, <3>1, <3>2, FillingRows
  <2>2. ASSUME NEW d \in DrawIds, NEW cut \in Cuts, VoidsWinners(d, cut) \/ VoidsWinners(d, FALSE)
        PROVE  WinnersStep
    <3>1. cut \in BOOLEAN /\ FALSE \in BOOLEAN  BY DrawsAssumption
    <3>2. QED BY <2>2, <3>1, VoidingRows
  <2>3. \/ UNCHANGED winner
        \/ \E d \in DrawIds, cut \in Cuts, dies \in BOOLEAN :
             /\ Publish(d, cut)
             /\ winner' = IF cut \/ dies \/ winner[d] # <<>> THEN winner
                          ELSE [winner EXCEPT ![d] = Drawn(d)]
        \/ \E d \in DrawIds, cut \in Cuts : VoidsWinners(d, cut) \/ VoidsWinners(d, FALSE)
    BY <1>3 DEF PromotionDraws
  <2>4. QED BY <1>1, <2>1, <2>2, <2>3
<1>4. QED BY <1>1, <1>2, <1>3 DEF PromotionNext, promotionVars

---------------------------------------------------------------------------
(* The inductive invariant of the winners table.                           *)

LEMMA StandingIsFinite ==
  ASSUME NEW rows \in Seq(WinnerRow)
  PROVE  IsFiniteSet(StandingIn(rows)) /\ Cardinality(StandingIn(rows)) \in Nat
<1>1. Len(rows) \in Nat /\ DOMAIN rows = 1 .. Len(rows)  OBVIOUS
<1>2. IsFiniteSet(1 .. Len(rows))
  <2>1. 1 \in Int /\ Len(rows) \in Int  BY <1>1
  <2>2. QED BY <1>1, <2>1, FS_Interval
<1>3. StandingIn(rows) \in SUBSET (1 .. Len(rows))  BY <1>1 DEF StandingIn
<1>4. IsFiniteSet(StandingIn(rows))  BY <1>2, <1>3, FS_Subset
<1>5. QED BY <1>4, FS_CardinalityType

LEMMA CarriedRows ==
  ASSUME WinnersInv, NEW d \in DrawIds, NEW rows, Carried(d, rows)
  PROVE  RowsOf(draw[d], rows) /\ StandingIn(rows) \in SUBSET StandingIn(winner[d])
<1> DEFINE old == winner[d]
<1>1. RowsOf(draw[d], old) /\ old \in Seq(WinnerRow)  BY DEF WinnersInv
<1>2. /\ rows \in Seq(WinnerRow) /\ Len(rows) = Len(old) /\ Len(old) \in Nat
      /\ DOMAIN rows = 1 .. Len(old) /\ DOMAIN old = 1 .. Len(old)
      /\ \A k \in 1 .. Len(old) : Follows(rows[k], old[k])
  BY <1>1 DEF Carried, Ranks
<1> HIDE DEF old
<1>3. StandingIn(rows) \in SUBSET StandingIn(old)
  BY <1>2 DEF StandingIn, Follows
<1>4. Cardinality(StandingIn(rows)) <= TotalWinners
  <2>1. IsFiniteSet(StandingIn(old)) /\ Cardinality(StandingIn(old)) \in Nat
        /\ Cardinality(StandingIn(rows)) \in Nat
    BY <1>1, <1>2, StandingIsFinite
  <2>2. Cardinality(StandingIn(rows)) <= Cardinality(StandingIn(old))
    BY <1>3, <2>1, FS_Subset
  <2>3. Cardinality(StandingIn(old)) <= TotalWinners /\ TotalWinners \in Nat
    BY <1>1, DrawsAssumption DEF RowsOf
  <2>4. QED BY <2>1, <2>2, <2>3
<1>5. EntriesIn(rows) = EntriesIn(old)  BY SameEntries DEF old
<1>6. rows # <<>> => old # <<>>  BY <1>1, <1>2
<1>7. /\ \A k \in 1 .. Len(rows) : ShownRow(rows[k])
      /\ \A j, k \in 1 .. Len(rows) : rows[j].entry = rows[k].entry => j = k
  BY <1>1, <1>2 DEF RowsOf, Follows
<1>8. QED BY <1>1, <1>2, <1>3, <1>4, <1>5, <1>6, <1>7 DEF RowsOf, old

LEMMA PassedOnRows ==
  ASSUME TypeOK, WinnersInv, NEW d \in DrawIds, NEW k \in Ranks(d), NEW rows, PassedOn(d, k, rows)
  PROVE  RowsOf(draw[d], rows)
<1> DEFINE old == winner[d]
           n == Len(old)
<1>1. PICK mid \in Seq(WinnerRow), a \in Entries :
        /\ Carried(d, mid)
        /\ old[k].status \notin {"replaced", "collected"}
        /\ mid[k].status = "replaced"
        /\ FirstLeft(d, a)
        /\ rows = Append(mid, FreshWinner(a))
  BY DEF PassedOn
<1>2. /\ RowsOf(draw[d], old) /\ old \in Seq(WinnerRow) /\ n \in Nat /\ k \in 1 .. n
      /\ DOMAIN old = 1 .. n
  BY DEF WinnersInv, Ranks
<1>3. RowsOf(draw[d], mid) /\ StandingIn(mid) \in SUBSET StandingIn(old)  BY <1>1, CarriedRows
<1>4. Len(mid) = n /\ DOMAIN mid = 1 .. n  BY <1>1, <1>2 DEF Carried
<1>5. FreshWinner(a) \in WinnerRow /\ FreshWinner(a).entry = a /\ ShownRow(FreshWinner(a))
      /\ FreshWinner(a).status = "selected"
  BY <1>1, FreshRow
<1>6. a \in draw[d].output.alternates /\ a \notin EntriesIn(mid)
  BY <1>1, SameEntries DEF FirstLeft
<1>7. PICK fresh : fresh = FreshWinner(a)  OBVIOUS
<1> HIDE DEF old, n
<1>8. /\ rows \in Seq(WinnerRow) /\ Len(rows) = n + 1 /\ DOMAIN rows = 1 .. n + 1
      /\ \A j \in 1 .. n : rows[j] = mid[j]
      /\ rows[n + 1] = fresh
  <2>1. mid \in Seq(WinnerRow) /\ fresh \in WinnerRow /\ rows = Append(mid, fresh)
        /\ Len(mid) = n /\ n \in Nat
    BY <1>1, <1>2, <1>4, <1>5, <1>7
  <2>2. rows \in Seq(WinnerRow) /\ Len(rows) = n + 1  BY <2>1
  <2>3. DOMAIN rows = 1 .. n + 1  BY <2>2
  <2>4. \A j \in 1 .. n : rows[j] = mid[j]  BY <2>1
  <2>5. rows[n + 1] = fresh  BY <2>1
  <2>6. QED BY <2>2, <2>3, <2>4, <2>5
<1>9. \A j \in 1 .. n + 1 : j \in 1 .. n \/ j = n + 1  BY <1>2
<1>10. \A j \in 1 .. n + 1 : ShownRow(rows[j])
  BY <1>3, <1>4, <1>5, <1>7, <1>8, <1>9 DEF RowsOf
<1>11. \A i, j \in 1 .. n + 1 : rows[i].entry = rows[j].entry => i = j
  <2>1. \A j \in 1 .. n : rows[j].entry \in EntriesIn(mid)  BY <1>4, <1>8 DEF EntriesIn
  <2>2. rows[n + 1].entry = a  BY <1>5, <1>7, <1>8
  <2>3. \A i, j \in 1 .. n : rows[i].entry = rows[j].entry => i = j
    BY <1>3, <1>4, <1>8 DEF RowsOf
  <2>4. QED BY <1>6, <1>9, <2>1, <2>2, <2>3
<1>12. EntriesIn(rows) \subseteq EntriesIn(mid) \cup {a}
  BY <1>4, <1>5, <1>7, <1>8, <1>9 DEF EntriesIn
<1>13. Cardinality(StandingIn(rows)) <= TotalWinners
  <2> DEFINE S == StandingIn(old)
  <2>1. IsFiniteSet(S) /\ Cardinality(S) \in Nat /\ Cardinality(S) <= TotalWinners
    BY <1>2, StandingIsFinite DEF RowsOf
  <2>2. k \in S  BY <1>1, <1>2 DEF StandingIn
  <2>3. StandingIn(rows) \in SUBSET ((S \ {k}) \cup {n + 1})
    <3>1. \A j \in StandingIn(rows) : j \in StandingIn(mid) \/ j = n + 1
      BY <1>4, <1>8, <1>9 DEF StandingIn
    <3>2. k \notin StandingIn(mid)  BY <1>1 DEF StandingIn
    <3>3. QED BY <1>3, <3>1, <3>2
  <2> HIDE DEF S
  <2>4. IsFiniteSet(S \ {k}) /\ Cardinality(S \ {k}) = Cardinality(S) - 1
    BY <2>1, <2>2, FS_RemoveElement
  <2>5. n + 1 \notin S \ {k}
    BY <1>2 DEF S, StandingIn
  <2>6. /\ IsFiniteSet((S \ {k}) \cup {n + 1})
        /\ Cardinality((S \ {k}) \cup {n + 1}) = Cardinality(S)
    <3>1. Cardinality((S \ {k}) \cup {n + 1}) = Cardinality(S \ {k}) + 1
          /\ IsFiniteSet((S \ {k}) \cup {n + 1})
      BY <2>4, <2>5, FS_AddElement
    <3>2. QED BY <2>1, <2>4, <3>1
  <2>7. Cardinality(StandingIn(rows)) <= Cardinality(S)  BY <2>3, <2>6, FS_Subset
  <2>8. Cardinality(StandingIn(rows)) \in Nat  BY <1>8, StandingIsFinite
  <2>9. QED BY <2>1, <2>7, <2>8, DrawsAssumption
<1>14. mid # <<>>  BY <1>2, <1>4
<1>15. QED BY <1>3, <1>6, <1>8, <1>10, <1>11, <1>12, <1>13, <1>14 DEF RowsOf

LEMMA RowsAfterStep ==
  ASSUME TypeOK, ResultFollowsFromFreeze, WinnersInv, NEW d \in DrawIds, NEW rows, RowsStep(d, rows)
  PROVE  RowsOf(draw[d], rows)
<1>1. CASE Filled(d, rows)  BY <1>1, DrawnRows DEF Filled
<1>2. CASE TakenBack(d, rows) \/ \E k \in Ranks(d) : HandedOver(d, k, rows)
  BY <1>2, CarriedRows DEF TakenBack, HandedOver
<1>3. CASE \E k \in Ranks(d) : PassedOn(d, k, rows)  BY <1>3, PassedOnRows
<1>4. QED BY <1>1, <1>2, <1>3 DEF RowsStep

\* The draw a row belongs to keeps what the row depends on.
LEMMA RowsOutliveTheStep ==
  ASSUME NEW d \in DrawIds, NEW rows, RowsOf(draw[d], rows), RowStep(d)
  PROVE  RowsOf(draw'[d], rows)
<1>1. CASE rows = <<>>
  <2>1. EntriesIn(rows) = {}  BY <1>1 DEF EntriesIn
  <2>2. QED BY <1>1, <2>1 DEF RowsOf
<1>2. CASE rows # <<>>
  <2>1. /\ draw[d].status \in {"approved", "published", "voided"}
        /\ draw[d].output = SelectWinners(draw[d].cands, draw[d].seed)
        /\ EntriesIn(rows) \subseteq draw[d].output.winners \cup draw[d].output.alternates
    BY <1>2 DEF RowsOf
  <2>2. /\ draw'[d].status \in {"approved", "published", "voided"}
        /\ draw'[d].cands = draw[d].cands /\ draw'[d].seed = draw[d].seed
        /\ draw'[d].output = draw[d].output
    BY <2>1 DEF RowStep, Kept, EqualButLinks, SameEvidence, Created, Executed, Approved,
                Published, Voided
  <2>3. QED BY <2>1, <2>2 DEF RowsOf
<1>3. QED BY <1>1, <1>2

LEMMA WinnersInvInit == PromotionInit => WinnersInv
<1> SUFFICES ASSUME PromotionInit, NEW d \in DrawIds PROVE RowsOf(draw[d], <<>>)
  BY DEF PromotionInit, WinnersInv
<1>1. EntriesIn(<<>>) = {} /\ StandingIn(<<>>) = {}  BY DEF EntriesIn, StandingIn
<1>2. Cardinality({}) <= TotalWinners
  BY FS_EmptySet, DrawsAssumption
<1>3. <<>> \in Seq(WinnerRow) /\ Len(<<>>) = 0  OBVIOUS
<1>4. 1 .. 0 = {}  OBVIOUS
<1>5. QED BY <1>1, <1>2, <1>3, <1>4, Zenon DEF RowsOf

LEMMA WinnersInvStep ==
  TypeOK /\ ResultFollowsFromFreeze /\ WinnersInv /\ [PromotionNext]_promotionVars => WinnersInv'
<1> SUFFICES ASSUME TypeOK, ResultFollowsFromFreeze, WinnersInv, [PromotionNext]_promotionVars
             PROVE  WinnersInv'
  OBVIOUS
<1>1. \A d \in DrawIds : RowStep(d)  BY PromotionStepsAreSteps, EveryStepRows
<1>2. WinnersStep  BY EveryStepWinners
<1>3. winner \in [DrawIds -> Seq(WinnerRow)] /\ \A d \in DrawIds : RowsOf(draw[d], winner[d])
  BY DEF WinnersInv
<1>4. CASE UNCHANGED winner
  <2>1. \A d \in DrawIds : RowsOf(draw'[d], winner[d])  BY <1>1, <1>3, RowsOutliveTheStep
  <2>2. QED BY <1>3, <1>4, <2>1 DEF WinnersInv
<1>5. ASSUME NEW d \in DrawIds, NEW rows \in Seq(WinnerRow),
             winner' = [winner EXCEPT ![d] = rows], RowsStep(d, rows)
      PROVE  WinnersInv'
  <2>1. RowsOf(draw[d], rows)  BY <1>5, RowsAfterStep
  <2>2. \A c \in DrawIds : RowsOf(draw[c], winner'[c])  BY <1>3, <1>5, <2>1
  <2>3. ASSUME NEW c \in DrawIds PROVE RowsOf(draw'[c], winner'[c])
    <3>1. PICK rs : rs = winner'[c]  OBVIOUS
    <3>2. RowsOf(draw[c], rs)  BY <2>2, <3>1
    <3>3. RowsOf(draw'[c], rs)  BY <1>1, <3>2, RowsOutliveTheStep
    <3>4. QED BY <3>1, <3>3
  <2>4. winner' \in [DrawIds -> Seq(WinnerRow)]  BY <1>3, <1>5
  <2>5. QED BY <2>3, <2>4 DEF WinnersInv
<1>6. QED BY <1>2, <1>4, <1>5 DEF WinnersStep

\* Winner rows exist only for a draw that was approved, name entries of its result,
\* no entry twice, and stand for no more prizes than the draw has (materialise,
\* promoteAlternate).
THEOREM WinnersFollowTheDraw == PromotionSpec => []WinnersInv
<1>1. PromotionSpec => [](TypeOK /\ ResultFollowsFromFreeze)
  BY PromotionIsDraws, TypeCorrect, ResultIsDetermined, PTL
<1>2. QED BY <1>1, WinnersInvInit, WinnersInvStep, PTL DEF PromotionSpec

---------------------------------------------------------------------------
(* Alternates.                                                             *)

\* An entry that was frozen as a candidate stays active until it is disqualified.
CandsInv ==
  \A d \in DrawIds : draw[d].status # "absent" =>
    \A e \in draw[d].cands : entry[e] = "active" \/ lastDisq[e] # "never"

LEMMA CandsInvStep == TypeOK /\ CandsInv /\ [Next]_drawVars => CandsInv'
<1> SUFFICES ASSUME TypeOK, CandsInv, [Next]_drawVars, NEW d \in DrawIds,
                    draw'[d].status # "absent", NEW e \in draw'[d].cands
             PROVE  entry'[e] = "active" \/ lastDisq'[e] # "never"
  BY DEF CandsInv
<1>1. TypeOK'  BY DrawStepType, PoolStepType, StaffStepType DEF Next, drawVars, TypeOK
<1>2. e \in Entries  BY <1>1 DEF TypeOK, DrawRow
<1>3. EntryMove(e)  BY <1>2, EntryMoves
<1>4. RowStep(d)  BY EveryStepRows
<1>5. CASE Created(d)
  <2>1. entry' = entry  BY <1>5, DrawsOrEntries DEF Created
  <2>2. entry[e] = "active"  BY <1>5 DEF Created, InPool
  <2>3. QED BY <2>1, <2>2
<1>6. CASE draw[d].status # "absent" /\ draw'[d].cands = draw[d].cands
  <2>1. entry[e] = "active" \/ lastDisq[e] # "never"  BY <1>6 DEF CandsInv
  <2>2. QED BY <1>3, <2>1 DEF EntryMove
<1>7. QED BY <1>4, <1>5, <1>6 DEF RowStep, Kept, EqualButLinks, SameEvidence, Executed,
                                  Approved, Published, Voided

\* The stored order on the rows of one draw; AlternatesKeepTheirOrder is this of all.
InOrder(d) ==
  \A a, b \in draw[d].output.alternates :
    (/\ PlaceIn(d, a) < PlaceIn(d, b)
     /\ b \in EntriesIn(winner[d])
     /\ a \notin EntriesIn(winner[d])) => lastDisq[a] # "never"

\* What a step adds to the rows of a draw: nothing, its winners, or the alternate
\* whose turn it is.
LEMMA EntriesAfterStep ==
  ASSUME TypeOK, ResultFollowsFromFreeze, WinnersInv, NEW d \in DrawIds, NEW rows, RowsStep(d, rows)
  PROVE  \/ EntriesIn(rows) = EntriesIn(winner[d])
         \/ EntriesIn(rows) \subseteq draw[d].output.winners /\ draw[d].status \in Confirmed
         \/ \E a \in Entries : /\ FirstLeft(d, a) /\ UNCHANGED drawVars /\ Ranks(d) # {}
                               /\ EntriesIn(rows) = EntriesIn(winner[d]) \cup {a}
<1>1. CASE Filled(d, rows)  BY <1>1, DrawnRows DEF Filled
<1>2. CASE TakenBack(d, rows) \/ \E k \in Ranks(d) : HandedOver(d, k, rows)
  BY <1>2, SameEntries DEF TakenBack, HandedOver
<1>3. ASSUME NEW k \in Ranks(d), PassedOn(d, k, rows), UNCHANGED drawVars
      PROVE  \E a \in Entries : /\ FirstLeft(d, a) /\ UNCHANGED drawVars /\ Ranks(d) # {}
                                /\ EntriesIn(rows) = EntriesIn(winner[d]) \cup {a}
  <2>1. PICK mid \in Seq(WinnerRow), a \in Entries :
          Carried(d, mid) /\ FirstLeft(d, a) /\ rows = Append(mid, FreshWinner(a))
    BY <1>3 DEF PassedOn
  <2>2. EntriesIn(mid) = EntriesIn(winner[d])  BY <2>1, SameEntries
  <2>3. PICK fresh : fresh = FreshWinner(a)  OBVIOUS
  <2>4. fresh \in WinnerRow /\ fresh.entry = a  BY <2>3, FreshRow
  <2>5. /\ DOMAIN mid = 1 .. Len(mid) /\ DOMAIN rows = 1 .. Len(mid) + 1 /\ Len(mid) \in Nat
        /\ \A j \in 1 .. Len(mid) : rows[j] = mid[j]
        /\ rows[Len(mid) + 1] = fresh
    BY <2>1, <2>3, <2>4
  <2>6. EntriesIn(rows) = EntriesIn(mid) \cup {a}
    <3>1. \A x \in EntriesIn(rows) : x \in EntriesIn(mid) \cup {a}
      BY <2>4, <2>5 DEF EntriesIn
    <3>2. \A x \in EntriesIn(mid) : x \in EntriesIn(rows)
      <4>1. \A j \in 1 .. Len(mid) : j \in 1 .. Len(mid) + 1  BY <2>5
      <4>2. QED BY <2>5, <4>1 DEF EntriesIn
    <3>3. a \in EntriesIn(rows)
      <4>1. Len(mid) + 1 \in DOMAIN rows  BY <2>5
      <4>2. QED BY <2>4, <2>5, <4>1 DEF EntriesIn
    <3>4. QED BY <3>1, <3>2, <3>3
  <2>7. QED BY <1>3, <2>1, <2>2, <2>6
<1>4. QED BY <1>1, <1>2, <1>3 DEF RowsStep

LEMMA OrderStep ==
  TypeOK /\ ResultFollowsFromFreeze /\ WinnersInv /\ CandsInv /\ AlternatesKeepTheirOrder
    /\ [PromotionNext]_promotionVars => AlternatesKeepTheirOrder'
<1> SUFFICES ASSUME TypeOK, ResultFollowsFromFreeze, WinnersInv, CandsInv,
                    AlternatesKeepTheirOrder, [PromotionNext]_promotionVars,
                    NEW d \in DrawIds,
                    NEW a \in draw'[d].output.alternates, NEW b \in draw'[d].output.alternates,
                    PlaceIn(d, a)' < PlaceIn(d, b)',
                    b \in EntriesIn(winner'[d]), a \notin EntriesIn(winner'[d])
             PROVE  lastDisq'[a] # "never"
  BY DEF AlternatesKeepTheirOrder
<1>1. [Next]_drawVars /\ RowStep(d)  BY PromotionStepsAreSteps, EveryStepRows
<1>2. WinnersInv'  BY WinnersInvStep
<1>3. TypeOK'  BY <1>1, DrawStepType, PoolStepType, StaffStepType DEF Next, drawVars, TypeOK
<1>4. a \in Entries /\ b \in Entries  BY <1>3 DEF TypeOK, DrawRow, Output
<1>5. EntryMove(a)  BY <1>1, <1>4, EntryMoves
<1>6. lastDisq[a] # "never" => lastDisq'[a] # "never"  BY <1>5 DEF EntryMove
<1>7. winner'[d] # <<>>  BY DEF EntriesIn
<1>8. /\ draw[d].status # "absent" /\ draw'[d].output = draw[d].output
      /\ draw'[d].cands = draw[d].cands /\ draw'[d].seed = draw[d].seed
  <2>1. draw'[d].status \in {"approved", "published", "voided"}
    BY <1>2, <1>7 DEF WinnersInv, RowsOf
  <2>2. QED BY <1>1, <2>1 DEF RowStep, Kept, EqualButLinks, SameEvidence, Created, Executed,
                              Approved, Published, Voided
<1>9. /\ a \in draw[d].output.alternates /\ b \in draw[d].output.alternates
      /\ PlaceIn(d, a) < PlaceIn(d, b)
  BY <1>8 DEF PlaceIn
<1>10. (b \in EntriesIn(winner[d]) /\ a \notin EntriesIn(winner[d])) => lastDisq[a] # "never"
  BY <1>9 DEF AlternatesKeepTheirOrder
<1>11. CASE winner'[d] = winner[d]  BY <1>6, <1>10, <1>11
<1>12. ASSUME NEW rows \in Seq(WinnerRow), winner'[d] = rows, RowsStep(d, rows)
       PROVE  lastDisq'[a] # "never"
  <2>1. CASE EntriesIn(rows) = EntriesIn(winner[d])  BY <1>6, <1>10, <1>12, <2>1
  <2>2. CASE EntriesIn(rows) \subseteq draw[d].output.winners /\ draw[d].status \in Confirmed
    <3>1. draw[d].output = SelectWinners(draw[d].cands, draw[d].seed)
      BY <2>2 DEF ResultFollowsFromFreeze, Confirmed, Seen
    <3>2. b \in draw[d].output.winners  BY <1>12, <2>2
    <3>3. /\ Place(b, draw[d].cands, draw[d].seed) <= TotalWinners
          /\ Place(b, draw[d].cands, draw[d].seed) > TotalWinners
          /\ b \in Chances(draw[d].cands, draw[d].seed)
      BY <1>9, <3>1, <3>2 DEF SelectWinners
    <3>4. Place(b, draw[d].cands, draw[d].seed) \in Nat
      <4>1. draw[d].cands \in SUBSET Entries /\ draw[d].seed \in Seeds  BY DEF TypeOK, DrawRow
      <4>2. Cardinality(Chances(draw[d].cands, draw[d].seed)) \in Nat  BY <4>1, ChancesAreFinite
      <4>3. Place(b, draw[d].cands, draw[d].seed)
              \in 1 .. Cardinality(Chances(draw[d].cands, draw[d].seed))
        BY <3>3, <4>1, PlacesAreTaken
      <4>4. QED BY <4>2, <4>3
    <3>5. QED BY <3>3, <3>4, DrawsAssumption
  <2>3. ASSUME NEW c \in Entries, FirstLeft(d, c), UNCHANGED drawVars, Ranks(d) # {},
               EntriesIn(rows) = EntriesIn(winner[d]) \cup {c}
        PROVE  lastDisq'[a] # "never"
    <3>1. a \notin EntriesIn(winner[d])  BY <1>12, <2>3
    <3>2. CASE b \in EntriesIn(winner[d])  BY <1>6, <1>10, <3>1, <3>2
    <3>3. CASE b = c
      <4>1. entry[a] # "active"  BY <1>9, <2>3, <3>1, <3>3 DEF FirstLeft
      <4>2. PICK k \in Ranks(d) : TRUE  BY <2>3
      <4>3. a \in Chances(draw[d].cands, draw[d].seed)  BY <1>9, <4>2, RowsAreDrawn
      <4>4. a \in draw[d].cands  BY <4>3 DEF Chances
      <4>5. QED BY <1>6, <1>8, <4>1, <4>4 DEF CandsInv
    <3>4. QED BY <1>12, <2>3, <3>2, <3>3
  <2>4. QED BY <1>12, <2>1, <2>2, <2>3, EntriesAfterStep
<1>13. QED BY <1>11, <1>12, EveryStepWinners DEF WinnersStep, WinnersInv

\* Alternates come up in the stored order; one that is passed by has been
\* disqualified (promoteAlternate).
THEOREM AlternatesInOrder == PromotionSpec => []AlternatesKeepTheirOrder
<1>1. PromotionSpec => [](TypeOK /\ ResultFollowsFromFreeze)
  BY PromotionIsDraws, TypeCorrect, ResultIsDetermined, PTL
<1>2. PromotionInit => CandsInv /\ AlternatesKeepTheirOrder
  <2> SUFFICES ASSUME PromotionInit PROVE CandsInv /\ AlternatesKeepTheirOrder  OBVIOUS
  <2>1. \A d \in DrawIds : draw[d].status = "absent" /\ winner[d] = <<>>
    BY DEF PromotionInit, Init, AbsentRow
  <2>2. EntriesIn(<<>>) = {}  BY DEF EntriesIn
  <2>3. QED BY <2>1, <2>2 DEF CandsInv, AlternatesKeepTheirOrder
<1>3. TypeOK /\ CandsInv /\ [PromotionNext]_promotionVars => CandsInv'
  BY PromotionStepsAreSteps, CandsInvStep
<1>4. QED BY <1>1, <1>2, <1>3, OrderStep, WinnersFollowTheDraw, PTL DEF PromotionSpec

---------------------------------------------------------------------------
(* Publication.                                                            *)

LEMMA ListedStand ==
  ASSUME WinnersInv, NEW d \in DrawIds
  PROVE  /\ Listed(d) \in SUBSET StandingIn(winner[d])
         /\ \A k \in Listed(d) : winner[d][k].status \in Shown
         /\ IsFiniteSet(Listed(d)) /\ Cardinality(Listed(d)) \in Nat
         /\ Cardinality(Listed(d)) <= TotalWinners
<1>1. winner[d] \in Seq(WinnerRow) /\ RowsOf(draw[d], winner[d])  BY DEF WinnersInv
<1>2. \A k \in Listed(d) : k \in DOMAIN winner[d] /\ winner[d][k].status \in Shown
  BY <1>1 DEF Listed, Ranks, RowsOf, ShownRow
<1>3. Listed(d) \in SUBSET StandingIn(winner[d])  BY <1>2 DEF StandingIn, Shown
<1>4. IsFiniteSet(StandingIn(winner[d])) /\ Cardinality(StandingIn(winner[d])) \in Nat
  BY <1>1, StandingIsFinite
<1>5. IsFiniteSet(Listed(d)) /\ Cardinality(Listed(d)) <= Cardinality(StandingIn(winner[d]))
  BY <1>3, <1>4, FS_Subset
<1>6. Cardinality(Listed(d)) \in Nat  BY <1>5, FS_CardinalityType
<1>7. Cardinality(StandingIn(winner[d])) <= TotalWinners  BY <1>1 DEF RowsOf
<1>8. QED BY <1>2, <1>3, <1>4, <1>5, <1>6, <1>7, DrawsAssumption

LEMMA ListIsSound == OneLiveDraw /\ WinnersInv => PublicListIsSound
<1> SUFFICES ASSUME OneLiveDraw, WinnersInv PROVE PublicListIsSound  OBVIOUS
<1>1. \A d \in DrawIds : \A k \in Listed(d) :
        winner[d][k].status \in {"verified", "accepted", "collected", "disputed"}
  BY ListedStand DEF Shown
<1>2. ASSUME NEW p \in Periods
      PROVE  Cardinality(UNION {{<<d, k>> : k \in Listed(d)} :
                                  d \in {c \in DrawIds : draw[c].period = p}}) <= TotalWinners
  <2> DEFINE here == {c \in DrawIds : draw[c].period = p}
             rowsOn(d) == {<<d, k>> : k \in Listed(d)}
             list == UNION {rowsOn(d) : d \in here}
  <2>1. CASE \A d \in here : Listed(d) = {}
    <3>1. list = {}  BY <2>1
    <3> HIDE DEF list
    <3>2. Cardinality(list) <= TotalWinners  BY <3>1, FS_EmptySet, DrawsAssumption
    <3>3. QED BY <3>2 DEF list
  <2>2. ASSUME NEW d \in here, Listed(d) # {} PROVE Cardinality(list) <= TotalWinners
    <3>1. \A c \in here : Listed(c) # {} => c \in Live(p)
      BY DEF Listed, Live, LiveIn, LiveStatus
    <3>2. \A c \in here : Listed(c) # {} => c = d  BY <2>2, <3>1 DEF OneLiveDraw
    <3>3. list = rowsOn(d)  BY <3>2
    <3>4. /\ IsFiniteSet(Listed(d)) /\ Cardinality(Listed(d)) \in Nat
          /\ Cardinality(Listed(d)) <= TotalWinners
      BY ListedStand
    <3> DEFINE f == [k \in Listed(d) |-> <<d, k>>]
    <3>5. f \in Surjection(Listed(d), rowsOn(d))
      <4>1. f \in [Listed(d) -> rowsOn(d)]  OBVIOUS
      <4>2. \A t \in rowsOn(d) : \E k \in Listed(d) : f[k] = t  OBVIOUS
      <4> HIDE DEF f, rowsOn
      <4>3. QED BY <4>1, <4>2, Fun_IsSurj
    <3> HIDE DEF f, rowsOn, list
    <3>6. IsFiniteSet(rowsOn(d)) /\ Cardinality(rowsOn(d)) <= Cardinality(Listed(d))
      BY <3>4, <3>5, FS_Surjection
    <3>7. Cardinality(rowsOn(d)) \in Nat  BY <3>6, FS_CardinalityType
    <3>8. QED BY <3>3, <3>4, <3>6, <3>7, DrawsAssumption
  <2>3. QED BY <2>1, <2>2
<1>3. QED BY <1>1, <1>2 DEF PublicListIsSound

\* The public list shows only winners whose prize stands, and per period not more
\* than there are prizes (publish, transitionInTx, voidForDraw).
THEOREM PublicListStands == PromotionSpec => []PublicListIsSound
BY PromotionIsDraws, AtMostOneLiveDraw, WinnersFollowTheDraw, ListIsSound, PTL

---------------------------------------------------------------------------
(* Promotion implements PrizePromise.                                      *)

\* The three abstract sets of one draw, and the three abstract variables.
HoldersIn(rows) == {rows[k].entry : k \in {j \in 1 .. Len(rows) : rows[j].status \notin {"replaced", "collected"}}}
LosersIn(rows) == {rows[k].entry : k \in {j \in 1 .. Len(rows) : rows[j].status = "replaced"}}
GivenIn(rows) == {rows[k].entry : k \in {j \in 1 .. Len(rows) : rows[j].status = "collected"}}

Holders == [d \in DrawIds |-> HoldersIn(winner[d])]
Losers == [d \in DrawIds |-> LosersIn(winner[d])]
Given == [d \in DrawIds |-> GivenIn(winner[d])]

\* What a step on the rows of a draw does to the three sets.
LEMMA TakenBackSets ==
  ASSUME WinnersInv, NEW d \in DrawIds, NEW rows, TakenBack(d, rows)
  PROVE  \E ts \in SUBSET HoldersIn(winner[d]) :
           /\ HoldersIn(rows) = HoldersIn(winner[d]) \ ts
           /\ LosersIn(rows) = LosersIn(winner[d]) \cup ts
           /\ GivenIn(rows) = GivenIn(winner[d])
<1> DEFINE old == winner[d]
           n == Len(old)
           ts == LosersIn(rows) \ LosersIn(old)
<1>1. /\ Len(rows) = n
      /\ \A k \in 1 .. n : /\ rows[k].entry = old[k].entry
                           /\ old[k].status = "replaced" => rows[k].status = "replaced"
                           /\ old[k].status = "collected" <=> rows[k].status = "collected"
  BY DEF TakenBack, Carried, Follows, Ranks
<1>2. \A j, k \in 1 .. n : old[j].entry = old[k].entry => j = k
  BY DEF WinnersInv, RowsOf
<1> HIDE DEF old, n
<1>3. ts \in SUBSET HoldersIn(old)
  BY <1>1 DEF HoldersIn, LosersIn, n
<1>4. HoldersIn(rows) = HoldersIn(old) \ ts
  <2>1. ASSUME NEW k \in 1 .. n, rows[k].status \notin {"replaced", "collected"}
        PROVE  old[k].entry \in HoldersIn(old) /\ old[k].entry \notin ts
    <3>1. old[k].entry \in HoldersIn(old)  BY <1>1, <2>1 DEF HoldersIn, n
    <3>2. ASSUME old[k].entry \in LosersIn(rows) PROVE FALSE
      <4>1. PICK j \in 1 .. n : rows[j].status = "replaced" /\ rows[j].entry = old[k].entry
        BY <1>1, <3>2 DEF LosersIn
      <4>2. QED BY <1>1, <1>2, <2>1, <4>1
    <3>3. QED BY <3>1, <3>2
  <2>2. HoldersIn(rows) \subseteq HoldersIn(old) \ ts
    BY <1>1, <2>1 DEF HoldersIn
  <2>3. ASSUME NEW k \in 1 .. n, old[k].status \notin {"replaced", "collected"},
               old[k].entry \notin ts
        PROVE  old[k].entry \in HoldersIn(rows)
    <3>1. old[k].entry \notin LosersIn(old)  BY <1>2, <2>3 DEF LosersIn, n
    <3>2. rows[k].status # "replaced"  BY <1>1, <2>3, <3>1 DEF LosersIn
    <3>3. QED BY <1>1, <2>3, <3>2 DEF HoldersIn
  <2>4. HoldersIn(old) \ ts \subseteq HoldersIn(rows)
    BY <2>3 DEF HoldersIn, n
  <2>5. QED BY <2>2, <2>4
<1>5. LosersIn(old) \subseteq LosersIn(rows)  BY <1>1 DEF LosersIn, n
<1>6. GivenIn(rows) = GivenIn(old)
  <2>1. GivenIn(rows) \subseteq GivenIn(old)  BY <1>1 DEF GivenIn, n
  <2>2. GivenIn(old) \subseteq GivenIn(rows)  BY <1>1 DEF GivenIn, n
  <2>3. QED BY <2>1, <2>2
<1>7. QED BY <1>3, <1>4, <1>5, <1>6 DEF old

LEMMA HandedOverSets ==
  ASSUME WinnersInv, NEW d \in DrawIds, NEW k \in Ranks(d), NEW rows, HandedOver(d, k, rows)
  PROVE  \E t \in HoldersIn(winner[d]) :
           /\ HoldersIn(rows) = HoldersIn(winner[d]) \ {t}
           /\ LosersIn(rows) = LosersIn(winner[d])
           /\ GivenIn(rows) = GivenIn(winner[d]) \cup {t}
<1> DEFINE old == winner[d]
           n == Len(old)
           t == old[k].entry
<1>1. /\ Len(rows) = n /\ k \in 1 .. n
      /\ \A j \in 1 .. n : rows[j].entry = old[j].entry
      /\ \A j \in 1 .. n : j # k => rows[j].status = old[j].status
      /\ rows[k].status = "collected" /\ old[k].status \notin {"replaced", "collected"}
  BY DEF HandedOver, Carried, Follows, Ranks
<1>2. \A i, j \in 1 .. n : old[i].entry = old[j].entry => i = j
  BY DEF WinnersInv, RowsOf
<1> HIDE DEF old, n
<1>3. t \in HoldersIn(old)  BY <1>1 DEF HoldersIn, n
<1>4. HoldersIn(rows) = HoldersIn(old) \ {t}
  <2>1. HoldersIn(rows) \subseteq HoldersIn(old) \ {t}  BY <1>1, <1>2 DEF HoldersIn, n
  <2>2. HoldersIn(old) \ {t} \subseteq HoldersIn(rows)  BY <1>1 DEF HoldersIn, n
  <2>3. QED BY <2>1, <2>2
<1>5. LosersIn(rows) = LosersIn(old)
  <2>1. LosersIn(rows) \subseteq LosersIn(old)  BY <1>1 DEF LosersIn, n
  <2>2. LosersIn(old) \subseteq LosersIn(rows)  BY <1>1 DEF LosersIn, n
  <2>3. QED BY <2>1, <2>2
<1>6. GivenIn(rows) = GivenIn(old) \cup {t}
  <2>1. GivenIn(rows) \subseteq GivenIn(old) \cup {t}  BY <1>1 DEF GivenIn, n
  <2>2. GivenIn(old) \subseteq GivenIn(rows)  BY <1>1 DEF GivenIn, n
  <2>3. t \in GivenIn(rows)  BY <1>1 DEF GivenIn
  <2>4. QED BY <2>1, <2>2, <2>3
<1>7. QED BY <1>3, <1>4, <1>5, <1>6 DEF old

LEMMA PassedOnSets ==
  ASSUME WinnersInv, NEW d \in DrawIds, NEW k \in Ranks(d), NEW rows, PassedOn(d, k, rows)
  PROVE  \E t \in HoldersIn(winner[d]), a \in Entries \ EntriesIn(winner[d]) :
           /\ HoldersIn(rows) = (HoldersIn(winner[d]) \ {t}) \cup {a}
           /\ LosersIn(rows) = LosersIn(winner[d]) \cup {t}
           /\ GivenIn(rows) = GivenIn(winner[d])
<1> DEFINE old == winner[d]
           n == Len(old)
           t == old[k].entry
<1>1. PICK mid \in Seq(WinnerRow), a \in Entries :
        /\ Carried(d, mid)
        /\ old[k].status \notin {"replaced", "collected"}
        /\ mid[k].status = "replaced"
        /\ \A j \in Ranks(d) : j # k => mid[j].status = old[j].status
        /\ FirstLeft(d, a)
        /\ rows = Append(mid, FreshWinner(a))
  BY DEF PassedOn
<1>2. n \in Nat /\ k \in 1 .. n /\ Len(mid) = n
  BY <1>1 DEF WinnersInv, Carried, Ranks
<1>3. PICK fresh : fresh = FreshWinner(a)  OBVIOUS
<1>4. fresh \in WinnerRow /\ fresh.entry = a /\ fresh.status = "selected"  BY <1>3, FreshRow
<1>5. \A j \in 1 .. n : mid[j].entry = old[j].entry  BY <1>1 DEF Carried, Follows, Ranks
<1>6. \A j \in 1 .. n : j # k => mid[j].status = old[j].status  BY <1>1 DEF Ranks
<1>7. \A i, j \in 1 .. n : old[i].entry = old[j].entry => i = j
  BY DEF WinnersInv, RowsOf
<1>8. a \notin EntriesIn(old)  BY <1>1 DEF FirstLeft
<1> HIDE DEF old, n
<1>9. Len(rows) = n + 1 /\ rows[n + 1] = fresh /\ \A j \in 1 .. n : rows[j] = mid[j]
  BY <1>1, <1>2, <1>3, <1>4
<1>10. /\ \A j \in 1 .. n : j \in 1 .. n + 1
       /\ \A j \in 1 .. n + 1 : j \in 1 .. n \/ j = n + 1
       /\ n + 1 \in 1 .. n + 1
  BY <1>2
<1>11. t \in HoldersIn(old)  BY <1>1, <1>2 DEF HoldersIn, n
<1>12. \A j \in 1 .. n : /\ rows[j].entry = old[j].entry
                         /\ j # k => rows[j].status = old[j].status
  BY <1>5, <1>6, <1>9
<1>13. rows[k].status = "replaced"  BY <1>1, <1>2, <1>9
<1>14. HoldersIn(rows) = (HoldersIn(old) \ {t}) \cup {a}
  <2>1. HoldersIn(rows) \subseteq (HoldersIn(old) \ {t}) \cup {a}
    BY <1>4, <1>7, <1>2, <1>9, <1>10, <1>12, <1>13 DEF HoldersIn, n
  <2>2. HoldersIn(old) \ {t} \subseteq HoldersIn(rows)
    BY <1>9, <1>10, <1>12 DEF HoldersIn, n
  <2>3. a \in HoldersIn(rows)  BY <1>4, <1>9, <1>10 DEF HoldersIn
  <2>4. QED BY <2>1, <2>2, <2>3
<1>15. LosersIn(rows) = LosersIn(old) \cup {t}
  <2>1. LosersIn(rows) \subseteq LosersIn(old) \cup {t}
    BY <1>4, <1>9, <1>10, <1>12 DEF LosersIn, n
  <2>2. LosersIn(old) \subseteq LosersIn(rows)
    BY <1>1, <1>9, <1>10, <1>12 DEF LosersIn, n
  <2>3. t \in LosersIn(rows)  BY <1>2, <1>9, <1>10, <1>12, <1>13 DEF LosersIn
  <2>4. QED BY <2>1, <2>2, <2>3
<1>16. GivenIn(rows) = GivenIn(old)
  <2>1. GivenIn(rows) \subseteq GivenIn(old)
    BY <1>4, <1>9, <1>10, <1>12, <1>13 DEF GivenIn, n
  <2>2. GivenIn(old) \subseteq GivenIn(rows)
    BY <1>1, <1>9, <1>10, <1>12 DEF GivenIn, n
  <2>3. QED BY <2>1, <2>2
<1>17. QED BY <1>1, <1>8, <1>11, <1>14, <1>15, <1>16 DEF old

LEMMA FilledSets ==
  ASSUME TypeOK, ResultFollowsFromFreeze, NEW d \in DrawIds, NEW rows, Filled(d, rows)
  PROVE  \E ts \in SUBSET Entries :
           /\ Cardinality(ts) <= TotalWinners
           /\ HoldersIn(rows) = ts /\ LosersIn(rows) = {} /\ GivenIn(rows) = {}
<1> DEFINE W == draw[d].output.winners
           ts == HoldersIn(rows)
<1>1. /\ rows \in Seq(WinnerRow) /\ EntriesIn(rows) \subseteq W
      /\ \A k \in 1 .. Len(rows) : rows[k].status = "selected"
  BY DrawnRows DEF Filled
<1>2. LosersIn(rows) = {} /\ GivenIn(rows) = {}  BY <1>1 DEF LosersIn, GivenIn
<1>3. draw[d].cands \in SUBSET Entries /\ draw[d].seed \in Seeds /\ W \in SUBSET Entries
  BY DEF TypeOK, DrawRow, Output
<1>4. draw[d].output = SelectWinners(draw[d].cands, draw[d].seed)
  BY DEF Filled, ResultFollowsFromFreeze, Confirmed, Seen
<1>5. Cardinality(W) \in Nat /\ Cardinality(W) <= TotalWinners  BY <1>3, <1>4, WinnersArePlaced
<1>6. ts \in SUBSET W
  <2>1. \A k \in 1 .. Len(rows) : rows[k].entry \in EntriesIn(rows)  BY <1>1 DEF EntriesIn
  <2>2. QED BY <1>1, <2>1 DEF HoldersIn
<1>7. IsFiniteSet(W)  BY <1>3, PromotionAssumption, FS_Subset
<1> HIDE DEF W, ts
<1>8. IsFiniteSet(ts) /\ Cardinality(ts) <= Cardinality(W)  BY <1>6, <1>7, FS_Subset
<1>9. Cardinality(ts) \in Nat  BY <1>8, FS_CardinalityType
<1>10. ts \in SUBSET Entries /\ Cardinality(ts) <= TotalWinners
  BY <1>3, <1>5, <1>6, <1>8, <1>9, DrawsAssumption DEF W
<1>11. QED BY <1>2, <1>10 DEF ts

\* The entries of a draw are those that hold, lost or have been given a prize.
LEMMA EntriesAreInTheSets ==
  ASSUME WinnersInv, NEW d \in DrawIds
  PROVE  /\ HoldersIn(winner[d]) \cup LosersIn(winner[d]) \cup GivenIn(winner[d])
              = EntriesIn(winner[d])
         /\ EntriesIn(winner[d]) \subseteq Entries
<1>1. winner[d] \in Seq(WinnerRow) /\ DOMAIN winner[d] = 1 .. Len(winner[d])  BY DEF WinnersInv
<1>2. EntriesIn(winner[d]) \subseteq Entries
  <2>1. \A k \in DOMAIN winner[d] : winner[d][k].entry \in Entries  BY RowTypes, <1>1 DEF WinnerRow, Ranks
  <2>2. QED BY <2>1 DEF EntriesIn
<1>3. QED BY <1>1, <1>2 DEF EntriesIn, HoldersIn, LosersIn, GivenIn

\* The mapping, in the names above.
LEMMA PrizeVariables ==
  /\ Prize!prizeVars = <<Holders, Losers, Given>>
  /\ \A c \in DrawIds : Prize!Fresh(c) = Entries \ (Holders[c] \cup Losers[c] \cup Given[c])
BY DEF Prize!prizeVars, Prize!Fresh, Holders, Losers, Given, HoldersIn, LosersIn, GivenIn, Ranks

\* The promise counts as everybody does.
LEMMA PrizeCardinality == ASSUME NEW S PROVE Prize!Cardinality(S) = Cardinality(S)
BY DEF Prize!Cardinality, Cardinality

LEMMA PrizeStep ==
  ASSUME TypeOK, ResultFollowsFromFreeze, WinnersInv, NEW d \in DrawIds, NEW rows,
         RowsStep(d, rows), winner' = [winner EXCEPT ![d] = rows]
  PROVE  Prize!Next
<1>1. winner \in [DrawIds -> Seq(WinnerRow)]  BY DEF WinnersInv
<1>2. /\ Holders' = [Holders EXCEPT ![d] = HoldersIn(rows)]
      /\ Losers' = [Losers EXCEPT ![d] = LosersIn(rows)]
      /\ Given' = [Given EXCEPT ![d] = GivenIn(rows)]
  BY <1>1 DEF Holders, Losers, Given
<1>3. /\ Holders[d] = HoldersIn(winner[d]) /\ Losers[d] = LosersIn(winner[d])
      /\ Given[d] = GivenIn(winner[d])
  BY DEF Holders, Losers, Given
<1>4. HoldersIn(winner[d]) \subseteq Entries  BY EntriesAreInTheSets
<1>5. /\ LosersIn(rows) = LosersIn(winner[d]) => Losers' = Losers
      /\ GivenIn(rows) = GivenIn(winner[d]) => Given' = Given
  BY <1>2 DEF Losers, Given
<1>6. CASE Filled(d, rows)
  <2>1. PICK ts \in SUBSET Entries :
           /\ Cardinality(ts) <= TotalWinners
           /\ HoldersIn(rows) = ts /\ LosersIn(rows) = {} /\ GivenIn(rows) = {}
    BY <1>6, FilledSets
  <2>2. HoldersIn(winner[d]) = {} /\ LosersIn(winner[d]) = {} /\ GivenIn(winner[d]) = {}
    BY <1>6 DEF Filled, HoldersIn, LosersIn, GivenIn
  <2>3. /\ Holders[d] \cup Losers[d] \cup Given[d] = {}
        /\ Holders' = [Holders EXCEPT ![d] = ts]
        /\ UNCHANGED <<Losers, Given>>
    BY <1>2, <1>3, <1>5, <2>1, <2>2
  <2>4. Prize!Offer(d, ts)
    <3>1. Losers' = Losers /\ Given' = Given  BY <2>3
    <3>2. Holders[d] \cup Losers[d] \cup Given[d] = {}  BY <2>3
    <3>3. Holders' = [Holders EXCEPT ![d] = ts]  BY <2>3
    <3>4. Prize!Cardinality(ts) <= TotalWinners  BY <2>1, PrizeCardinality
    <3>5. QED BY <3>1, <3>2, <3>3, <3>4 DEF Prize!Offer, Holders, Losers, Given, HoldersIn, LosersIn, GivenIn, Ranks
  <2>5. QED BY <2>4 DEF Prize!Next
<1>7. CASE TakenBack(d, rows)
  <2>1. PICK ts \in SUBSET HoldersIn(winner[d]) :
           /\ HoldersIn(rows) = HoldersIn(winner[d]) \ ts
           /\ LosersIn(rows) = LosersIn(winner[d]) \cup ts
           /\ GivenIn(rows) = GivenIn(winner[d])
    BY <1>7, TakenBackSets
  <2>2. /\ ts \subseteq Holders[d] /\ ts \in SUBSET Entries
        /\ Holders' = [Holders EXCEPT ![d] = @ \ ts]
        /\ Losers' = [Losers EXCEPT ![d] = @ \cup ts]
        /\ UNCHANGED Given
    BY <1>2, <1>3, <1>4, <1>5, <2>1
  <2>3. Prize!TakeBack(d, ts)
    BY <2>2 DEF Prize!TakeBack, Holders, Losers, Given, HoldersIn, LosersIn, GivenIn, Ranks
  <2>4. QED BY <2>2, <2>3 DEF Prize!Next
<1>8. ASSUME NEW k \in Ranks(d), HandedOver(d, k, rows) PROVE Prize!Next
  <2>1. PICK t \in HoldersIn(winner[d]) :
           /\ HoldersIn(rows) = HoldersIn(winner[d]) \ {t}
           /\ LosersIn(rows) = LosersIn(winner[d])
           /\ GivenIn(rows) = GivenIn(winner[d]) \cup {t}
    BY <1>8, HandedOverSets
  <2>2. /\ t \in Holders[d] /\ t \in Entries
        /\ Holders' = [Holders EXCEPT ![d] = @ \ {t}]
        /\ Given' = [Given EXCEPT ![d] = @ \cup {t}]
        /\ UNCHANGED Losers
    BY <1>2, <1>3, <1>4, <1>5, <2>1
  <2>3. Prize!HandOver(d, t)
    BY <2>2 DEF Prize!HandOver, Holders, Losers, Given, HoldersIn, LosersIn, GivenIn, Ranks
  <2>4. QED BY <2>2, <2>3 DEF Prize!Next
<1>9. ASSUME NEW k \in Ranks(d), PassedOn(d, k, rows) PROVE Prize!Next
  <2>1. PICK t \in HoldersIn(winner[d]), a \in Entries \ EntriesIn(winner[d]) :
           /\ HoldersIn(rows) = (HoldersIn(winner[d]) \ {t}) \cup {a}
           /\ LosersIn(rows) = LosersIn(winner[d]) \cup {t}
           /\ GivenIn(rows) = GivenIn(winner[d])
    BY <1>9, PassedOnSets
  <2>2. {a} \subseteq Prize!Fresh(d)
    BY <1>3, <2>1, PrizeVariables, EntriesAreInTheSets
  <2>3. Cardinality({a}) <= 1  BY FS_Singleton
  <2>4. /\ t \in Holders[d] /\ t \in Entries
        /\ Holders' = [Holders EXCEPT ![d] = (@ \ {t}) \cup {a}]
        /\ Losers' = [Losers EXCEPT ![d] = @ \cup {t}]
        /\ UNCHANGED Given
    BY <1>2, <1>3, <1>4, <1>5, <2>1
  <2>5. Prize!PassOn(d, t, {a})
    <3>1. t \in Holders[d]  BY <2>4
    <3>2. Holders' = [Holders EXCEPT ![d] = (@ \ {t}) \cup {a}]  BY <2>4
    <3>3. Losers' = [Losers EXCEPT ![d] = @ \cup {t}]  BY <2>4
    <3>4. Given' = Given  BY <2>4
    <3>5. Prize!Cardinality({a}) <= 1  BY <2>3, PrizeCardinality
    <3>6. QED BY <2>2, <3>1, <3>2, <3>3, <3>4, <3>5
       DEF Prize!PassOn, Holders, Losers, Given, HoldersIn, LosersIn, GivenIn, Ranks
  <2>6. {a} \in SUBSET Entries  BY <2>1
  <2>7. QED BY <2>4, <2>5, <2>6 DEF Prize!Next
<1>10. QED BY <1>6, <1>7, <1>8, <1>9 DEF RowsStep

\* What was handed over stays handed over, and a prize that is not taken is passed
\* to at most one entry that was never offered any (PrizePromise).
THEOREM PrizesAreKept == PromotionSpec => PrizesKeepThePromise
<1>1. PromotionSpec => [](TypeOK /\ ResultFollowsFromFreeze)
  BY PromotionIsDraws, TypeCorrect, ResultIsDetermined, PTL
<1>2. PromotionInit => Prize!Init
  BY DEF PromotionInit, Prize!Init, Ranks
<1>3. TypeOK /\ ResultFollowsFromFreeze /\ WinnersInv /\ [PromotionNext]_promotionVars
        => [Prize!Next]_Prize!prizeVars
  <2> SUFFICES ASSUME TypeOK, ResultFollowsFromFreeze, WinnersInv, [PromotionNext]_promotionVars
               PROVE  Prize!Next \/ UNCHANGED Prize!prizeVars
    OBVIOUS
  <2>1. WinnersStep  BY EveryStepWinners
  <2>2. CASE UNCHANGED winner  BY <2>2 DEF Prize!prizeVars, Ranks
  <2>3. QED BY <2>1, <2>2, PrizeStep DEF WinnersStep
<1>4. QED BY <1>1, <1>2, <1>3, WinnersFollowTheDraw, PTL
          DEF PromotionSpec, PrizesKeepThePromise, Prize!Spec

=============================================================================
