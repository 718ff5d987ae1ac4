---------------------------- MODULE DrawsProofs ----------------------------
(* Proofs about Draws for every value of its constants.                    *)
EXTENDS DrawsImplementPromise, TLAPS

---------------------------------------------------------------------------
(* Lemmas about the operators.                                             *)

\* The result of a snapshot names entries of the snapshot, and no entry twice.
LEMMA SelectWinnersType ==
  ASSUME NEW cands \in SUBSET Entries, NEW seed \in Seeds
  PROVE  /\ SelectWinners(cands, seed) \in Output
         /\ SelectWinners(cands, seed).winners \subseteq cands
         /\ SelectWinners(cands, seed).alternates \subseteq cands
BY DEF SelectWinners, Output, Chances

\* Inserting a draw and linking the one before it keeps the table well formed.
LEMMA WithFrozenType ==
  ASSUME NEW table \in [DrawIds -> DrawRow], NEW n \in DrawIds, NEW p \in Periods,
         NEW u \in Staff, NEW seed \in Seeds, NEW prior,
         NEW m \in DrawIds \cup {NoDraw}
  PROVE  WithFrozen(table, n, p, u, seed, prior, m) \in [DrawIds -> DrawRow]
<1>1. FrozenRow(p, u, seed, prior, m) \in DrawRow
  BY DEF FrozenRow, DrawRow, DrawStatus, Eligible, InPool, NoOutput, Output
<1>2. \A d \in DrawIds : [table[d] EXCEPT !.supersededBy = n] \in DrawRow
  BY DEF DrawRow
<1>3. QED BY <1>1, <1>2 DEF WithFrozen

\* So does voiding a draw, whoever the second name is.
LEMMA VoidedTableType ==
  ASSUME draw \in [DrawIds -> DrawRow], NEW d \in DrawIds, NEW u \in Staff,
         NEW second \in Staff \cup {Nobody}
  PROVE  VoidedTable(d, u, second) \in [DrawIds -> DrawRow]
<1>1. draw[d] \in DrawRow  OBVIOUS
<1>2. [draw[d] EXCEPT !.status = "voided", !.voidedBy = u, !.voidSecond = second] \in DrawRow
  BY <1>1 DEF DrawRow, DrawStatus
<1>3. QED BY <1>2 DEF VoidedTable

\* And re-linking a draw to the one it replaces.
LEMMA SupersedingType ==
  ASSUME NEW table \in [DrawIds -> DrawRow], NEW d \in DrawIds, NEW n \in DrawIds
  PROVE  Superseding(table, d, n) \in [DrawIds -> DrawRow]
<1> DEFINE linked == [table EXCEPT ![n].supersedes = d]
<1>1. [table[n] EXCEPT !.supersedes = d] \in DrawRow
  <2>1. table[n] \in DrawRow  OBVIOUS
  <2>2. QED BY <2>1 DEF DrawRow
<1>2. linked \in [DrawIds -> DrawRow]  BY <1>1
<1>3. linked[d] \in DrawRow  BY <1>2
<1> HIDE DEF linked
<1>4. [linked[d] EXCEPT !.supersededBy = n] \in DrawRow  BY <1>3 DEF DrawRow
<1>5. [linked EXCEPT ![d].supersededBy = n] \in [DrawIds -> DrawRow]  BY <1>2, <1>4
<1>6. QED BY <1>5 DEF Superseding, linked

\* setPeriodStatus keeps the table of periods well formed.
LEMMA SetPeriodType ==
  ASSUME periodStatus \in [Periods -> PeriodStatus], NEW p \in Periods,
         NEW s \in PeriodStatus, NEW cut, SetPeriod(p, s, cut)
  PROVE  periodStatus' \in [Periods -> PeriodStatus]
BY DEF SetPeriod

---------------------------------------------------------------------------
(* Type correctness.                                                       *)

LEMMA InitType == Init => TypeOK
<1> SUFFICES ASSUME Init PROVE TypeOK OBVIOUS
<1>1. AbsentRow \in DrawRow
  BY DrawsAssumption DEF AbsentRow, DrawRow, DrawStatus, NoOutput, Output
<1>2. role \in [Staff -> Role]
  BY DrawsAssumption DEF Init, Role, DrawRole
<1>3. admitted \in [Staff -> SUBSET DrawRole]  BY DEF Init, Current
<1>4. QED BY <1>1, <1>2, <1>3 DEF Init, TypeOK, PeriodStatus, EntryStatus

\* A crash leaves only the roles held now to be let in with.
LEMMA RequestsType ==
  ASSUME admitted \in [Staff -> SUBSET DrawRole], NEW cut, Requests(cut)
  PROVE  admitted' \in [Staff -> SUBSET DrawRole]
BY DEF Requests, Current

LEMMA DrawStepType == TypeOK /\ DrawNext => TypeOK'
<1> SUFFICES ASSUME TypeOK, DrawNext PROVE TypeOK' OBVIOUS
<1> USE DEF TypeOK
<1>1. ASSUME NEW p \in Periods, NEW u \in Staff, NEW override \in BOOLEAN,
             NEW prior \in PriorSets, Freeze(p, u, override, prior)
      PROVE  TypeOK'
  <2>1. PICK n \in DrawIds, seed \in Seeds, m \in DrawIds \cup {NoDraw} :
          draw' = WithFrozen(draw, n, p, u, seed, prior, m)
    BY <1>1 DEF Freeze
  <2>2. draw' \in [DrawIds -> DrawRow]  BY <2>1, WithFrozenType
  <2>3. periodStatus' \in [Periods -> PeriodStatus]
    BY <1>1, SetPeriodType DEF Freeze, PeriodStatus
  <2>4. QED BY <1>1, <2>2, <2>3 DEF Freeze
<1>2. ASSUME NEW d \in DrawIds, NEW u \in Staff, Approve(d, u) PROVE TypeOK'
  <2>0. draw[d] \in DrawRow  OBVIOUS
  <2>1. [draw[d] EXCEPT !.status = "approved", !.approver = u] \in DrawRow
    BY <2>0 DEF DrawRow, DrawStatus
  <2>2. QED BY <1>2, <2>1 DEF Approve
<1>3. ASSUME NEW d \in DrawIds, NEW u \in Staff, NEW cut \in Cuts, Execute(d, u, cut)
      PROVE  TypeOK'
  <2>1. draw[d] \in DrawRow /\ draw[d].cands \in SUBSET Entries /\ draw[d].seed \in Seeds
    BY DEF DrawRow
  <2>2. SelectWinners(draw[d].cands, draw[d].seed) \in Output
    BY <2>1, SelectWinnersType
  <2>3. /\ [draw[d] EXCEPT !.status = "executing"] \in DrawRow
        /\ [draw[d] EXCEPT !.status = "executed", !.operator = u,
              !.output = SelectWinners(draw[d].cands, draw[d].seed)] \in DrawRow
    BY <2>1, <2>2 DEF DrawRow, DrawStatus
  <2>4. QED BY <1>3, <2>3, RequestsType DEF Execute
<1>4. ASSUME NEW d \in DrawIds, NEW u \in Staff, NEW cut \in Cuts, Reject(d, u, cut)
      PROVE  TypeOK'
  <2>0. draw[d] \in DrawRow  OBVIOUS
  <2>1. [draw[d] EXCEPT !.status = "voided", !.voidedBy = u] \in DrawRow
    BY <2>0 DEF DrawRow, DrawStatus
  <2>2. draw[d].period \in Periods  BY DEF DrawRow
  <2>3. periodStatus' \in [Periods -> PeriodStatus]
    BY <1>4, <2>2, SetPeriodType DEF Reject, PeriodStatus
  <2>4. QED BY <1>4, <2>1, <2>3, RequestsType DEF Reject
<1>5. ASSUME NEW d \in DrawIds, NEW cut \in Cuts, Publish(d, cut) PROVE TypeOK'
  <2>0. draw[d] \in DrawRow  OBVIOUS
  <2>1. [draw[d] EXCEPT !.status = "published"] \in DrawRow
    BY <2>0 DEF DrawRow, DrawStatus
  <2>2. draw[d].period \in Periods  BY DEF DrawRow
  <2>3. periodStatus' \in [Periods -> PeriodStatus]
    BY <1>5, <2>2, SetPeriodType DEF Publish, PeriodStatus
  <2>4. QED BY <1>5, <2>1, <2>3, RequestsType DEF Publish
<1>6. ASSUME NEW d \in DrawIds, NEW u \in Staff, NEW second \in Staff \cup {Nobody},
             NEW cut \in Cuts, VoidDraw(d, u, second, cut)
      PROVE  TypeOK'
  <2>1. draw' \in [DrawIds -> DrawRow]  BY <1>6, VoidedTableType DEF VoidDraw
  <2>2. draw[d].period \in Periods  BY DEF DrawRow
  <2>3. periodStatus' \in [Periods -> PeriodStatus]
    BY <1>6, <2>2, SetPeriodType DEF VoidDraw, PeriodStatus
  <2>4. QED BY <1>6, <2>1, <2>3, RequestsType DEF VoidDraw
<1>7. ASSUME NEW d \in DrawIds, NEW u \in Staff, NEW second \in Staff \cup {Nobody},
             NEW prior \in PriorSets, NEW cut \in Cuts, Rerun(d, u, second, prior, cut)
      PROVE  TypeOK'
  <2> DEFINE p == draw[d].period
             table == AfterVoid(d, u, second)
  <2>1. p \in Periods  BY DEF DrawRow
  <2>2. table \in [DrawIds -> DrawRow]  BY VoidedTableType DEF AfterVoid
  <2>3. PICK n \in DrawIds, seed \in Seeds, m \in DrawIds :
          draw' = IF cut THEN WithFrozen(table, n, p, u, seed, prior, m)
                  ELSE Superseding(WithFrozen(table, n, p, u, seed, prior, m), d, n)
    BY <1>7 DEF Rerun
  <2> DEFINE frozen == WithFrozen(table, n, p, u, seed, prior, m)
  <2> HIDE DEF table, p
  <2>4. frozen \in [DrawIds -> DrawRow]  BY <2>1, <2>2, WithFrozenType
  <2> HIDE DEF frozen
  <2>5. Superseding(frozen, d, n) \in [DrawIds -> DrawRow]
    BY <2>4, SupersedingType
  <2>6. draw' \in [DrawIds -> DrawRow]  BY <2>3, <2>4, <2>5 DEF frozen
  <2>7. periodStatus' \in [Periods -> PeriodStatus]
    BY <1>7, <2>1, SetPeriodType DEF Rerun, PeriodStatus, p
  <2>8. QED BY <1>7, <2>6, <2>7, RequestsType DEF Rerun
<1>8. ASSUME NEW d \in DrawIds, NEW u \in Staff, NEW second \in Staff \cup {Nobody},
             NEW prior \in PriorSets, NEW cut \in Cuts,
             RerunVoidOnly(d, u, second, prior, cut)
      PROVE  TypeOK'
  <2>1. draw' \in [DrawIds -> DrawRow]  BY <1>8, VoidedTableType DEF RerunVoidOnly
  <2>2. draw[d].period \in Periods  BY DEF DrawRow
  <2>3. periodStatus' \in [Periods -> PeriodStatus]
    BY <1>8, <2>2, SetPeriodType DEF RerunVoidOnly, PeriodStatus
  <2>4. QED BY <1>8, <2>1, <2>3, RequestsType DEF RerunVoidOnly
<1>9. QED BY <1>1, <1>2, <1>3, <1>4, <1>5, <1>6, <1>7, <1>8 DEF DrawNext

LEMMA PoolStepType == TypeOK /\ PoolNext => TypeOK'
<1> SUFFICES ASSUME TypeOK, PoolNext PROVE TypeOK' OBVIOUS
<1> USE DEF TypeOK
<1>1. ASSUME NEW p \in Periods, PeriodEnds(p) PROVE TypeOK'
  BY <1>1 DEF PeriodEnds
<1>2. ASSUME NEW p \in Editable, NEW reopened \in BOOLEAN,
             NEW s \in {periodStatus[p], "open"}, UpsertPeriod(p, s, reopened)
      PROVE  TypeOK'
  <2>1. p \in Periods /\ s \in PeriodStatus  BY DrawsAssumption DEF PeriodStatus
  <2>2. QED BY <1>2, <2>1 DEF UpsertPeriod
<1>3. ASSUME NEW e \in Entries, Submit(e) \/ Award(e) \/ Refuse(e) \/ Reprocess(e)
      PROVE  TypeOK'
  <2>1. \E st \in EntryStatus : entry' = [entry EXCEPT ![e] = st]
    BY <1>3 DEF Submit, Award, Refuse, Reprocess, EntryStatus
  <2>2. UNCHANGED <<draw, periodStatus, ended, lastDisq, active, role, admitted, drawsPaused>>
    BY <1>3 DEF Submit, Award, Refuse, Reprocess
  <2>3. QED BY <2>1, <2>2
<1>4. ASSUME NEW e \in Entries, NEW second \in BOOLEAN,
             Disqualify(e, second) \/ Reinstate(e, second)
      PROVE  TypeOK'
  BY <1>4 DEF Disqualify, Reinstate, EntryStatus
<1>5. ASSUME NEW q \in Participants, Leave(q) PROVE TypeOK'
  BY <1>5 DEF Leave
<1>6. QED BY <1>1, <1>2, <1>3, <1>4, <1>5, DrawsAssumption DEF PoolNext

LEMMA StaffStepType == TypeOK /\ StaffNext => TypeOK'
<1> SUFFICES ASSUME TypeOK, StaffNext PROVE TypeOK'  OBVIOUS
<1>1. ASSUME NEW u \in Staff, NEW r \in Role, SetRole(u, r) PROVE TypeOK'
  <2>1. {r} \cap DrawRole \subseteq DrawRole  OBVIOUS
  <2>2. admitted' \in [Staff -> SUBSET DrawRole]  BY <1>1, <2>1 DEF TypeOK, SetRole
  <2>3. role' \in [Staff -> Role]  BY <1>1 DEF TypeOK, SetRole
  <2>4. QED BY <1>1, <2>2, <2>3 DEF TypeOK, SetRole
<1>2. ASSUME NEW flag \in PauseFlags, PauseDraws(flag) PROVE TypeOK'
  BY <1>2, DrawsAssumption DEF TypeOK, PauseDraws
<1>3. QED BY <1>1, <1>2 DEF StaffNext

\* Every variable keeps its type (the rows the tables of src/draw.mjs may hold).
THEOREM TypeCorrect == Spec => []TypeOK
<1>1. TypeOK /\ [Next]_drawVars => TypeOK'
  <2>1. TypeOK /\ UNCHANGED drawVars => TypeOK'  BY DEF TypeOK, drawVars
  <2>2. QED BY <2>1, DrawStepType, PoolStepType, StaffStepType DEF Next
<1>2. QED BY <1>1, InitType, PTL DEF Spec

---------------------------------------------------------------------------
(* What one step may do to one row of the draws table.  Every property of  *)
(* the draws below follows from this case distinction.                     *)

SameEvidence(d) ==
  /\ draw'[d].period = draw[d].period
  /\ draw'[d].cands = draw[d].cands
  /\ draw'[d].excl = draw[d].excl
  /\ draw'[d].seed = draw[d].seed
  /\ draw'[d].frozenBy = draw[d].frozenBy

EqualButLinks(r, s) ==
  /\ r.status = s.status       /\ r.period = s.period
  /\ r.cands = s.cands         /\ r.excl = s.excl
  /\ r.seed = s.seed           /\ r.frozenBy = s.frozenBy
  /\ r.operator = s.operator   /\ r.approver = s.approver
  /\ r.output = s.output       /\ r.voidedBy = s.voidedBy
  /\ r.voidSecond = s.voidSecond

\* Untouched, except perhaps for its links.
Kept(d) == EqualButLinks(draw'[d], draw[d])

Created(d) ==
  /\ draw[d].status = "absent"
  /\ draw'[d].status = "frozen"
  /\ draw'[d].output = NoOutput
  /\ draw'[d].cands \cup draw'[d].excl = InPool(draw'[d].period)
  /\ \A c \in DrawIds \ {d} :
       draw'[c].period = draw'[d].period => draw'[c].status \notin LiveStatus

Executed(d) ==
  /\ SameEvidence(d)
  /\ draw[d].status \in {"frozen", "executing"}
  /\ \/ draw'[d].status = "executing" /\ draw'[d].output = draw[d].output
     \/ /\ draw'[d].status = "executed"
        /\ draw'[d].output = SelectWinners(draw[d].cands, draw[d].seed)

Approved(d) ==
  /\ SameEvidence(d)
  /\ draw[d].status = "executed"
  /\ draw'[d].status = "approved"
  /\ draw'[d].operator = draw[d].operator
  /\ draw'[d].output = draw[d].output
  /\ draw'[d].approver \in Staff
  /\ Independent(d, draw'[d].approver)

Published(d) ==
  /\ SameEvidence(d)
  /\ draw[d].status = "approved"
  /\ draw'[d].status = "published"
  /\ draw'[d].operator = draw[d].operator
  /\ draw'[d].approver = draw[d].approver
  /\ draw'[d].output = draw[d].output

ByTwo(d) ==
  \/ Independent(d, draw'[d].voidedBy) /\ LetIn(draw'[d].voidedBy, "draw_approver")
  \/ /\ draw'[d].voidSecond \in Staff \ {draw'[d].voidedBy}
     /\ role[draw'[d].voidSecond] = "draw_approver"

Voided(d) ==
  /\ SameEvidence(d)
  /\ draw[d].status # "absent"
  /\ draw'[d].status = "voided"
  /\ draw'[d].output = draw[d].output
  /\ draw[d].status \in Seen => ByTwo(d)

RowStep(d) ==
  Kept(d) \/ Created(d) \/ Executed(d) \/ Approved(d) \/ Published(d) \/ Voided(d)

\* Which rows one step may change: one row, or the two of a rerun.
OneRow(d) == RowStep(d) /\ \A c \in DrawIds \ {d} : Kept(c)

TwoRows(n, d) ==
  n # d /\ Created(n) /\ Voided(d) /\ \A c \in DrawIds \ {n, d} : Kept(c)

StepShape ==
  \/ UNCHANGED draw
  \/ \E d \in DrawIds : OneRow(d)
  \/ \E n, d \in DrawIds : TwoRows(n, d)

\* A freeze on a given table creates one row with the pool of that moment (freeze,
\* also as the second half of rerun)...
LEMMA WithFrozenNewRow ==
  ASSUME NEW table \in [DrawIds -> DrawRow], NEW p \in Periods, NEW u \in Staff,
         NEW seed \in Seeds, NEW prior, NEW n \in DrawIds, NEW m \in DrawIds \cup {NoDraw},
         NEW f, f = WithFrozen(table, n, p, u, seed, prior, m)
  PROVE  /\ f[n].status = "frozen" /\ f[n].period = p /\ f[n].output = NoOutput
         /\ f[n].supersedes = m /\ f[n].supersededBy = NoDraw
         /\ f[n].cands \cup f[n].excl = InPool(p)
<1>1. f[n] = FrozenRow(p, u, seed, prior, m)  BY DEF WithFrozen
<1>2. /\ f[n].status = "frozen" /\ f[n].period = p /\ f[n].output = NoOutput
      /\ f[n].supersedes = m /\ f[n].supersededBy = NoDraw
      /\ f[n].cands = Eligible(p, prior) /\ f[n].excl = InPool(p) \ Eligible(p, prior)
  BY <1>1 DEF FrozenRow
<1>3. f[n].cands \cup f[n].excl = InPool(p)  BY <1>2 DEF Eligible
<1>4. QED BY <1>2, <1>3

\* ... and leaves the others as they are in the table, but for one link.
LEMMA WithFrozenOtherRows ==
  ASSUME NEW table \in [DrawIds -> DrawRow], NEW p \in Periods, NEW u \in Staff,
         NEW seed \in Seeds, NEW prior, NEW n \in DrawIds, NEW m \in DrawIds \cup {NoDraw},
         NEW f, f = WithFrozen(table, n, p, u, seed, prior, m)
  PROVE  \A d \in DrawIds \ {n} :
           /\ EqualButLinks(f[d], table[d])
           /\ f[d].supersedes = table[d].supersedes
           /\ f[d].supersededBy = IF d = m THEN n ELSE table[d].supersededBy
<1> SUFFICES ASSUME NEW d \in DrawIds \ {n}
             PROVE  /\ EqualButLinks(f[d], table[d])
                    /\ f[d].supersedes = table[d].supersedes
                    /\ f[d].supersededBy = IF d = m THEN n ELSE table[d].supersededBy
  OBVIOUS
<1>1. table[d] \in DrawRow  OBVIOUS
<1>2. f[d] = IF d = m THEN [table[d] EXCEPT !.supersededBy = n] ELSE table[d]
  BY DEF WithFrozen
<1>3. QED BY <1>1, <1>2 DEF EqualButLinks, DrawRow

\* An action that touches one row leaves the others untouched.
LEMMA KeptWhenEqual ==
  ASSUME NEW d \in DrawIds, draw'[d] = draw[d]
  PROVE  Kept(d)
BY DEF Kept, EqualButLinks

\* r is the row s after voidDraw.
DiscardedRow(r, s, u, second) ==
  /\ r.status = "voided" /\ r.voidedBy = u /\ r.voidSecond = second
  /\ r.period = s.period /\ r.cands = s.cands /\ r.excl = s.excl
  /\ r.seed = s.seed /\ r.frozenBy = s.frozenBy
  /\ r.operator = s.operator /\ r.approver = s.approver /\ r.output = s.output
  /\ r.supersedes = s.supersedes /\ r.supersededBy = s.supersededBy

\* voidDraw on the table changes the named row alone.
LEMMA VoidedRows ==
  ASSUME draw \in [DrawIds -> DrawRow], NEW d \in DrawIds, NEW u \in Staff,
         NEW second \in Staff \cup {Nobody}, NEW f, f = VoidedTable(d, u, second)
  PROVE  DiscardedRow(f[d], draw[d], u, second) /\ \A c \in DrawIds \ {d} : f[c] = draw[c]
<1>1. draw[d] \in DrawRow  OBVIOUS
<1>2. f[d] = [draw[d] EXCEPT !.status = "voided", !.voidedBy = u, !.voidSecond = second]
  BY DEF VoidedTable
<1>3. \A c \in DrawIds \ {d} : f[c] = draw[c]
  BY DEF VoidedTable
<1>4. DiscardedRow(f[d], draw[d], u, second)
  BY <1>1, <1>2 DEF DiscardedRow, DrawRow
<1>5. QED BY <1>3, <1>4

\* voidDraw as a step, whoever calls it: the row is voided, the others are kept.
LEMMA VoidedRowSteps ==
  ASSUME draw \in [DrawIds -> DrawRow], NEW d \in DrawIds, NEW u \in Staff,
         NEW second \in Staff \cup {Nobody},
         draw[d].status # "absent", SecondApproved(d, u, second),
         draw' = VoidedTable(d, u, second)
  PROVE  OneRow(d)
<1>1. DiscardedRow(draw'[d], draw[d], u, second) /\ \A b \in DrawIds \ {d} : draw'[b] = draw[b]
  BY VoidedRows
<1>2. ASSUME NEW c \in DrawIds \ {d} PROVE Kept(c)  BY <1>1, KeptWhenEqual
<1>3. Voided(d)
  <2>1. SameEvidence(d) /\ draw'[d].status = "voided" /\ draw'[d].output = draw[d].output
    BY <1>1 DEF SameEvidence, DiscardedRow
  <2>2. draw'[d].voidedBy = u /\ draw'[d].voidSecond = second  BY <1>1 DEF DiscardedRow
  <2>3. draw[d].status \in Seen => ByTwo(d)
    BY <2>2 DEF SecondApproved, Seen, ByTwo
  <2>4. QED BY <2>1, <2>3 DEF Voided
<1>4. QED BY <1>2, <1>3 DEF OneRow, RowStep

LEMMA NewestIsThere ==
  ASSUME NEW table \in [DrawIds -> DrawRow], NEW n \in DrawIds, NEW p \in Periods,
         NEW m \in DrawIds \cup {NoDraw}, NextId(table, n), Newest(table, p, m)
  PROVE  table[n].status = "absent" /\ n # m
BY DEF NextId, Newest, NoDraw, DrawIds

LEMMA FreezeRows ==
  ASSUME TypeOK, NEW p \in Periods, NEW u \in Staff, NEW override \in BOOLEAN,
         NEW prior \in PriorSets, Freeze(p, u, override, prior)
  PROVE  \E d \in DrawIds : OneRow(d)
<1>1. PICK n \in DrawIds, seed \in Seeds, m \in DrawIds \cup {NoDraw} :
        /\ NextId(draw, n)
        /\ Newest(draw, p, m)
        /\ draw' = WithFrozen(draw, n, p, u, seed, prior, m)
  BY DEF Freeze
<1>2. draw \in [DrawIds -> DrawRow]  BY DEF TypeOK
<1>3. draw[n].status = "absent" /\ n # m  BY <1>1, <1>2, NewestIsThere
<1>4. LiveIn(draw, p) = {}  BY DEF Freeze, BarrierOpen
<1>5. /\ draw'[n].status = "frozen" /\ draw'[n].period = p /\ draw'[n].output = NoOutput
      /\ draw'[n].cands \cup draw'[n].excl = InPool(p)
  BY <1>1, <1>2, WithFrozenNewRow
<1>6. \A d \in DrawIds \ {n} : EqualButLinks(draw'[d], draw[d])
  BY <1>1, <1>2, WithFrozenOtherRows
<1>7. \A d \in DrawIds \ {n} : draw'[d].period = p => draw'[d].status \notin LiveStatus
  BY <1>4, <1>6 DEF EqualButLinks, LiveIn
<1>8. Created(n)  BY <1>3, <1>5, <1>7 DEF Created
<1>9. ASSUME NEW d \in DrawIds \ {n} PROVE Kept(d)
  BY <1>6 DEF Kept
<1>10. QED BY <1>8, <1>9 DEF OneRow, RowStep

LEMMA RerunRows ==
  ASSUME TypeOK, NEW d \in DrawIds, NEW u \in Staff, NEW second \in Staff \cup {Nobody},
         NEW prior \in PriorSets, NEW cut \in Cuts, Rerun(d, u, second, prior, cut)
  PROVE  \E n \in DrawIds : TwoRows(n, d)
<1> DEFINE p == draw[d].period
           table == AfterVoid(d, u, second)
<1>1. PICK n \in DrawIds, seed \in Seeds, m \in DrawIds :
        /\ NextId(table, n)
        /\ Newest(table, p, m)
        /\ draw' = IF cut THEN WithFrozen(table, n, p, u, seed, prior, m)
                   ELSE Superseding(WithFrozen(table, n, p, u, seed, prior, m), d, n)
  BY DEF Rerun
<1> DEFINE frozen == WithFrozen(table, n, p, u, seed, prior, m)
<1>2. /\ LiveIn(table, p) = {}
      /\ draw[d].status # "absent" /\ SecondApproved(d, u, second)
  BY DEF Rerun, BarrierOpen
<1>3. p \in Periods /\ draw \in [DrawIds -> DrawRow]  BY DEF TypeOK, DrawRow
<1>4. table \in [DrawIds -> DrawRow]  BY <1>3, VoidedTableType DEF AfterVoid
<1>5. /\ \A c \in DrawIds \ {d} : table[c] = draw[c]
      /\ IF draw[d].status = "voided" THEN table[d] = draw[d]
         ELSE DiscardedRow(table[d], draw[d], u, second)
      /\ table[d].status = "voided"
  <2>1. CASE draw[d].status = "voided"  BY <2>1 DEF AfterVoid
  <2>2. CASE draw[d].status # "voided"
    <3>1. table = VoidedTable(d, u, second)  BY <2>2 DEF AfterVoid
    <3>2. /\ DiscardedRow(table[d], draw[d], u, second)
          /\ \A c \in DrawIds \ {d} : table[c] = draw[c]
      BY <1>3, <3>1, VoidedRows
    <3>3. QED BY <2>2, <3>2 DEF DiscardedRow
  <2>3. QED BY <2>1, <2>2
<1> HIDE DEF p, table
<1>6. table[n].status = "absent" /\ n # m  BY <1>1, <1>3, <1>4, NewestIsThere
<1>7. /\ frozen[n].status = "frozen" /\ frozen[n].period = p /\ frozen[n].output = NoOutput
      /\ frozen[n].cands \cup frozen[n].excl = InPool(p)
      /\ \A c \in DrawIds \ {n} :
           /\ EqualButLinks(frozen[c], table[c])
           /\ frozen[c].period = p => frozen[c].status \notin LiveStatus
  <2>1. /\ frozen[n].status = "frozen" /\ frozen[n].period = p /\ frozen[n].output = NoOutput
        /\ frozen[n].cands \cup frozen[n].excl = InPool(p)
    BY <1>3, <1>4, WithFrozenNewRow
  <2>2. \A c \in DrawIds \ {n} : EqualButLinks(frozen[c], table[c])
    BY <1>3, <1>4, WithFrozenOtherRows
  <2>3. \A c \in DrawIds \ {n} : frozen[c].period = p => frozen[c].status \notin LiveStatus
    BY <1>2, <2>2 DEF EqualButLinks, LiveIn
  <2>4. QED BY <2>1, <2>2, <2>3
<1>8. frozen \in [DrawIds -> DrawRow]  BY <1>3, <1>4, WithFrozenType
<1>9. \A c \in DrawIds : EqualButLinks(draw'[c], frozen[c])
  <2> HIDE DEF frozen
  <2>1. \A c \in DrawIds : frozen[c] \in DrawRow  BY <1>8
  <2>2. CASE cut
    <3>1. draw' = frozen  BY <1>1, <2>2 DEF frozen
    <3>2. QED BY <3>1 DEF EqualButLinks
  <2>3. CASE ~cut
    <3>1. draw' = Superseding(frozen, d, n)  BY <1>1, <2>3 DEF frozen
    <3>2. n # d  BY <1>5, <1>6
    <3>3. /\ draw'[n] = [frozen[n] EXCEPT !.supersedes = d]
          /\ draw'[d] = [frozen[d] EXCEPT !.supersededBy = n]
          /\ \A c \in DrawIds \ {n, d} : draw'[c] = frozen[c]
      BY <1>8, <3>1, <3>2 DEF Superseding
    <3>4. QED BY <2>1, <3>3 DEF EqualButLinks, DrawRow
  <2>4. QED BY <2>2, <2>3
<1> HIDE DEF frozen
<1>10. \A c \in DrawIds \ {n} : EqualButLinks(draw'[c], table[c])
  BY <1>7, <1>9 DEF EqualButLinks
<1>11. Created(n)
  <2>1. /\ draw'[n].status = "frozen" /\ draw'[n].period = p /\ draw'[n].output = NoOutput
        /\ draw'[n].cands \cup draw'[n].excl = InPool(p)
    BY <1>7, <1>9 DEF EqualButLinks
  <2>2. \A c \in DrawIds \ {n} : draw'[c].period = p => draw'[c].status \notin LiveStatus
    BY <1>7, <1>9 DEF EqualButLinks
  <2>3. draw[n].status = "absent"  BY <1>5, <1>6
  <2>4. QED BY <2>1, <2>2, <2>3 DEF Created
<1>12. ASSUME NEW c \in DrawIds \ {n, d} PROVE Kept(c)
  BY <1>5, <1>10 DEF Kept
<1>13. Voided(d)
  <2>1. n # d  BY <1>5, <1>6
  <2>2. EqualButLinks(draw'[d], table[d])  BY <1>10, <2>1
  <2>3. draw[d] \in DrawRow  BY <1>3
  <2>4. /\ table[d].status = "voided" /\ table[d].output = draw[d].output
        /\ table[d].period = draw[d].period /\ table[d].cands = draw[d].cands
        /\ table[d].excl = draw[d].excl /\ table[d].seed = draw[d].seed
        /\ table[d].frozenBy = draw[d].frozenBy
        /\ draw[d].status \in Seen => table[d].voidedBy = u /\ table[d].voidSecond = second
    BY <1>5 DEF Seen, DiscardedRow
  <2>5. SameEvidence(d) /\ draw'[d].status = "voided" /\ draw'[d].output = draw[d].output
    BY <2>2, <2>4 DEF SameEvidence, EqualButLinks
  <2>6. draw[d].status \in Seen => draw'[d].voidedBy = u /\ draw'[d].voidSecond = second
    BY <2>2, <2>4 DEF EqualButLinks
  <2>7. draw[d].status \in Seen => ByTwo(d)
    BY <1>2, <2>6 DEF SecondApproved, Seen, ByTwo
  <2>8. QED BY <1>2, <2>5, <2>7 DEF Voided
<1>14. n # d  BY <1>5, <1>6
<1>15. QED BY <1>11, <1>12, <1>13, <1>14 DEF TwoRows

LEMMA ExecuteRows ==
  ASSUME TypeOK, NEW d \in DrawIds, NEW u \in Staff, NEW cut \in Cuts, Execute(d, u, cut)
  PROVE  OneRow(d)
<1>1. draw \in [DrawIds -> DrawRow] /\ draw[d] \in DrawRow  BY DEF TypeOK
<1>2. ASSUME NEW c \in DrawIds \ {d} PROVE Kept(c)
  <2>1. draw'[c] = draw[c]  BY <1>1 DEF Execute
  <2>2. QED BY <2>1, KeptWhenEqual
<1>3. Executed(d)
  <2>1. CASE cut
    <3>1. draw'[d] = [draw[d] EXCEPT !.status = "executing"]  BY <1>1, <2>1 DEF Execute
    <3>2. QED BY <1>1, <3>1 DEF Executed, SameEvidence, Execute, DrawRow
  <2>2. CASE ~cut
    <3>1. draw'[d] = [draw[d] EXCEPT !.status = "executed", !.operator = u,
                        !.output = SelectWinners(draw[d].cands, draw[d].seed)]
      BY <1>1, <2>2 DEF Execute
    <3>2. QED BY <1>1, <3>1 DEF Executed, SameEvidence, Execute, DrawRow
  <2>3. QED BY <2>1, <2>2
<1>4. QED BY <1>2, <1>3 DEF OneRow, RowStep

LEMMA ApproveRows ==
  ASSUME TypeOK, NEW d \in DrawIds, NEW u \in Staff, Approve(d, u)
  PROVE  OneRow(d)
<1>1. draw \in [DrawIds -> DrawRow] /\ draw[d] \in DrawRow  BY DEF TypeOK
<1>2. ASSUME NEW c \in DrawIds \ {d} PROVE Kept(c)
  <2>1. draw'[c] = draw[c]  BY <1>1 DEF Approve
  <2>2. QED BY <2>1, KeptWhenEqual
<1>3. Approved(d)
  <2>1. draw'[d] = [draw[d] EXCEPT !.status = "approved", !.approver = u]
    BY <1>1 DEF Approve
  <2>2. QED BY <1>1, <2>1 DEF Approved, SameEvidence, Approve, Independent, DrawRow
<1>4. QED BY <1>2, <1>3 DEF OneRow, RowStep

LEMMA PublishRows ==
  ASSUME TypeOK, NEW d \in DrawIds, NEW cut \in Cuts, Publish(d, cut)
  PROVE  OneRow(d)
<1>1. draw \in [DrawIds -> DrawRow] /\ draw[d] \in DrawRow  BY DEF TypeOK
<1>2. ASSUME NEW c \in DrawIds \ {d} PROVE Kept(c)
  <2>1. draw'[c] = draw[c]  BY <1>1 DEF Publish
  <2>2. QED BY <2>1, KeptWhenEqual
<1>3. Published(d)
  <2>1. draw'[d] = [draw[d] EXCEPT !.status = "published"]  BY <1>1 DEF Publish
  <2>2. QED BY <1>1, <2>1 DEF Published, SameEvidence, Publish, DrawRow
<1>4. QED BY <1>2, <1>3 DEF OneRow, RowStep

LEMMA RejectRows ==
  ASSUME TypeOK, NEW d \in DrawIds, NEW u \in Staff, NEW cut \in Cuts, Reject(d, u, cut)
  PROVE  OneRow(d)
<1>1. draw \in [DrawIds -> DrawRow] /\ draw[d] \in DrawRow  BY DEF TypeOK
<1>2. ASSUME NEW c \in DrawIds \ {d} PROVE Kept(c)
  <2>1. draw'[c] = draw[c]  BY <1>1 DEF Reject
  <2>2. QED BY <2>1, KeptWhenEqual
<1>3. Voided(d)
  <2>1. draw'[d] = [draw[d] EXCEPT !.status = "voided", !.voidedBy = u]
    BY <1>1 DEF Reject
  <2>2. /\ SameEvidence(d) /\ draw'[d].status = "voided"
        /\ draw'[d].output = draw[d].output /\ draw'[d].voidedBy = u
    BY <1>1, <2>1 DEF SameEvidence, DrawRow
  <2>3. ByTwo(d)  BY <2>2 DEF ByTwo, Reject
  <2>4. QED BY <2>2, <2>3 DEF Voided, Reject
<1>4. QED BY <1>2, <1>3 DEF OneRow, RowStep

\* Every step of the system has one of these shapes.
LEMMA EveryStepShape == TypeOK /\ [Next]_drawVars => StepShape
<1> SUFFICES ASSUME TypeOK, [Next]_drawVars PROVE StepShape OBVIOUS
<1>1. CASE UNCHANGED draw  BY <1>1 DEF StepShape
<1>2. CASE DrawNext
  <2>1. draw \in [DrawIds -> DrawRow]  BY DEF TypeOK
  <2>2. ASSUME NEW d \in DrawIds, NEW u \in Staff, NEW second \in Staff \cup {Nobody},
               NEW cut \in Cuts, VoidDraw(d, u, second, cut)
        PROVE  OneRow(d)
    BY <2>1, <2>2, VoidedRowSteps DEF VoidDraw
  <2>3. ASSUME NEW d \in DrawIds, NEW u \in Staff, NEW second \in Staff \cup {Nobody},
               NEW prior \in PriorSets, NEW cut \in Cuts,
               RerunVoidOnly(d, u, second, prior, cut)
        PROVE  OneRow(d)
    <3>1. draw[d].status # "absent"  BY <2>3 DEF RerunVoidOnly, LiveStatus
    <3>2. QED BY <2>1, <2>3, <3>1, VoidedRowSteps DEF RerunVoidOnly
  <2>4. (\E d \in DrawIds : OneRow(d)) \/ (\E n, d \in DrawIds : TwoRows(n, d))
    BY <1>2, <2>2, <2>3, FreezeRows, RerunRows, ExecuteRows, ApproveRows,
       PublishRows, RejectRows DEF DrawNext
  <2>5. QED BY <2>4 DEF StepShape
<1>3. CASE PoolNext
  <2>1. UNCHANGED draw
    BY <1>3 DEF PoolNext, PeriodEnds, UpsertPeriod, Submit, Award, Refuse, Reprocess,
                Disqualify, Reinstate, Leave
  <2>2. QED BY <1>1, <2>1
<1>4. CASE StaffNext
  <2>1. UNCHANGED draw  BY <1>4 DEF StaffNext, SetRole, PauseDraws
  <2>2. QED BY <1>1, <2>1
<1>5. CASE UNCHANGED drawVars  BY <1>1, <1>5 DEF drawVars
<1>6. QED BY <1>2, <1>3, <1>4, <1>5 DEF Next

\* So each row makes one of the six moves.
LEMMA EveryStepRows == TypeOK /\ [Next]_drawVars => \A c \in DrawIds : RowStep(c)
<1> SUFFICES ASSUME TypeOK, [Next]_drawVars, NEW c \in DrawIds PROVE RowStep(c) OBVIOUS
<1>1. CASE UNCHANGED draw
  <2>1. Kept(c)  BY <1>1, KeptWhenEqual
  <2>2. QED BY <2>1 DEF RowStep
<1>2. ASSUME NEW d \in DrawIds, OneRow(d) PROVE RowStep(c)
  BY <1>2 DEF OneRow, RowStep
<1>3. ASSUME NEW n \in DrawIds, NEW d \in DrawIds, TwoRows(n, d) PROVE RowStep(c)
  BY <1>3 DEF TwoRows, RowStep
<1>4. QED BY <1>1, <1>2, <1>3, EveryStepShape DEF StepShape

---------------------------------------------------------------------------
(* Safety of the draws.                                                    *)

\* No period ever has two draws in force (DRAW_EXISTS in barrier()): only a
\* freeze adds one, and it finds or makes the others of the period void.
THEOREM AtMostOneLiveDraw == Spec => []OneLiveDraw
<1>1. Init => OneLiveDraw
  BY DEF Init, OneLiveDraw, Live, LiveIn, LiveStatus, AbsentRow
<1>2. TypeOK /\ OneLiveDraw /\ [Next]_drawVars => OneLiveDraw'
  <2> SUFFICES ASSUME TypeOK, OneLiveDraw, [Next]_drawVars,
                      NEW p \in Periods, NEW c \in DrawIds, NEW d \in DrawIds,
                      draw'[c].status \in LiveStatus, draw'[c].period = p,
                      draw'[d].status \in LiveStatus, draw'[d].period = p
               PROVE  c = d
    BY DEF OneLiveDraw, Live, LiveIn
  <2>1. \A b \in DrawIds : RowStep(b)  BY EveryStepRows
  <2>2. ASSUME NEW b \in DrawIds, draw'[b].status \in LiveStatus, ~Created(b)
        PROVE  draw[b].status \in LiveStatus /\ draw[b].period = draw'[b].period
    BY <2>1, <2>2 DEF RowStep, Kept, EqualButLinks, SameEvidence, Executed, Approved,
                      Published, Voided, LiveStatus
  <2>3. CASE Created(c)  BY <2>3 DEF Created
  <2>4. CASE Created(d)  BY <2>4 DEF Created
  <2>5. CASE ~Created(c) /\ ~Created(d)
    BY <2>2, <2>5 DEF OneLiveDraw, Live, LiveIn
  <2>6. QED BY <2>3, <2>4, <2>5
<1>3. QED BY <1>1, <1>2, TypeCorrect, PTL DEF Spec

\* Whoever approved a confirmed result neither froze its pool nor executed it
\* (approve()), however roles and operator_id change afterwards.
THEOREM DutiesAreSeparated == Spec => []SeparationOfDuties
<1>1. Init => SeparationOfDuties
  BY DEF Init, SeparationOfDuties, AbsentRow
<1>2. TypeOK /\ SeparationOfDuties /\ [Next]_drawVars => SeparationOfDuties'
  <2> SUFFICES ASSUME TypeOK, SeparationOfDuties, [Next]_drawVars, NEW d \in DrawIds,
                      draw'[d].status \in {"approved", "published"}
               PROVE  /\ draw'[d].approver \in Staff
                      /\ draw'[d].approver # draw'[d].operator
                      /\ draw'[d].approver # draw'[d].frozenBy
    BY DEF SeparationOfDuties, Independent
  <2>1. RowStep(d)  BY EveryStepRows
  <2>2. CASE Kept(d)
    BY <2>2 DEF Kept, EqualButLinks, SeparationOfDuties, Independent
  <2>3. CASE Approved(d)
    BY <2>3 DEF Approved, SameEvidence, Independent
  <2>4. CASE Published(d)
    BY <2>4 DEF Published, SameEvidence, SeparationOfDuties, Independent
  <2>5. CASE Created(d) \/ Executed(d) \/ Voided(d)
    BY <2>5 DEF Created, Executed, Voided
  <2>6. QED BY <2>1, <2>2, <2>3, <2>4, <2>5 DEF RowStep
<1>3. QED BY <1>1, <1>2, TypeCorrect, PTL DEF Spec

\* A stored result is the function of the frozen snapshot and seed that execute()
\* computes, and nothing is stored before it runs.
THEOREM ResultIsDetermined == Spec => []ResultFollowsFromFreeze
<1>1. Init => ResultFollowsFromFreeze
  BY DEF Init, ResultFollowsFromFreeze, AbsentRow, Seen
<1>2. TypeOK /\ ResultFollowsFromFreeze /\ [Next]_drawVars => ResultFollowsFromFreeze'
  <2> SUFFICES ASSUME TypeOK, ResultFollowsFromFreeze, [Next]_drawVars, NEW d \in DrawIds
               PROVE  /\ draw'[d].status \in Seen =>
                           draw'[d].output = SelectWinners(draw'[d].cands, draw'[d].seed)
                      /\ draw'[d].status \in {"absent", "frozen", "executing"} =>
                           draw'[d].output = NoOutput
    BY DEF ResultFollowsFromFreeze
  <2>1. RowStep(d)  BY EveryStepRows
  <2>2. /\ draw[d].status \in Seen => draw[d].output = SelectWinners(draw[d].cands, draw[d].seed)
        /\ draw[d].status \in {"absent", "frozen", "executing"} => draw[d].output = NoOutput
    BY DEF ResultFollowsFromFreeze
  <2>3. QED BY <2>1, <2>2 DEF RowStep, Kept, EqualButLinks, SameEvidence, Created, Executed,
                               Approved, Published, Voided, Seen
<1>3. QED BY <1>1, <1>2, TypeCorrect, PTL DEF Spec

\* Neither the snapshot, the seed nor a result that exists is ever edited
\* (no handler of src/draw.mjs updates those columns twice).
THEOREM EvidenceIsImmutable == Spec => FrozenEvidenceIsImmutable
<1>1. TypeOK /\ ResultFollowsFromFreeze /\ [Next]_drawVars =>
        [\A d \in DrawIds : draw[d].status # "absent" =>
            /\ draw'[d].status # "absent"
            /\ draw'[d].period = draw[d].period
            /\ draw'[d].cands = draw[d].cands
            /\ draw'[d].excl = draw[d].excl
            /\ draw'[d].seed = draw[d].seed
            /\ draw'[d].frozenBy = draw[d].frozenBy
            /\ draw[d].output # NoOutput => draw'[d].output = draw[d].output]_drawVars
  <2> SUFFICES ASSUME TypeOK, ResultFollowsFromFreeze, [Next]_drawVars, NEW d \in DrawIds,
                      draw[d].status # "absent"
               PROVE  /\ draw'[d].status # "absent"
                      /\ SameEvidence(d)
                      /\ draw[d].output # NoOutput => draw'[d].output = draw[d].output
    BY DEF SameEvidence
  <2>1. RowStep(d)  BY EveryStepRows
  <2>2. draw[d].status \in {"frozen", "executing"} => draw[d].output = NoOutput
    BY DEF ResultFollowsFromFreeze
  <2>3. CASE Kept(d)  BY <2>3 DEF Kept, EqualButLinks, SameEvidence
  <2>4. CASE Created(d)  BY <2>4 DEF Created
  <2>5. CASE Executed(d)  BY <2>2, <2>5 DEF Executed
  <2>6. CASE Approved(d) \/ Published(d) \/ Voided(d)
    BY <2>6 DEF Approved, Published, Voided
  <2>7. QED BY <2>1, <2>3, <2>4, <2>5, <2>6 DEF RowStep
<1>2. QED BY <1>1, TypeCorrect, ResultIsDetermined, PTL DEF Spec, FrozenEvidenceIsImmutable

\* A seen result is discarded by an account outside the draw that was let in as an
\* approver, whatever became of its role while the body was awaited, or with a second
\* one that is an approver now (reject(), assertSecondApprover()).
THEOREM DiscardTakesTwo == Spec => SeenResultIsDiscardedByTwo
<1>1. TypeOK /\ [Next]_drawVars =>
        [\A d \in DrawIds : draw[d].status \in Seen /\ draw'[d].status \notin Seen =>
            /\ draw'[d].status = "voided"
            /\ \/ Independent(d, draw'[d].voidedBy) /\ LetIn(draw'[d].voidedBy, "draw_approver")
               \/ /\ draw'[d].voidSecond \in Staff \ {draw'[d].voidedBy}
                  /\ role[draw'[d].voidSecond] = "draw_approver"]_drawVars
  <2> SUFFICES ASSUME TypeOK, [Next]_drawVars, NEW d \in DrawIds,
                      draw[d].status \in Seen, draw'[d].status \notin Seen
               PROVE  draw'[d].status = "voided" /\ ByTwo(d)
    BY DEF ByTwo
  <2>1. RowStep(d)  BY EveryStepRows
  <2>2. QED BY <2>1 DEF RowStep, Kept, EqualButLinks, Created, Executed, Approved, Published,
                        Voided, Seen
<1>2. QED BY <1>1, TypeCorrect, PTL DEF Spec, SeenResultIsDiscardedByTwo

---------------------------------------------------------------------------
(* Safety of the pool.                                                     *)

\* What a row that is in force was before the step.
LEMMA LiveRowBefore ==
  ASSUME TypeOK, [Next]_drawVars, NEW d \in DrawIds, draw'[d].status \in LiveStatus
  PROVE  \/ Created(d)
         \/ /\ draw[d].status \in LiveStatus /\ draw'[d].period = draw[d].period
            /\ draw'[d].cands = draw[d].cands /\ draw'[d].excl = draw[d].excl
<1>1. RowStep(d)  BY EveryStepRows
<1>2. QED BY <1>1 DEF RowStep, Kept, EqualButLinks, SameEvidence, Executed, Approved,
                      Published, Voided, LiveStatus

\* The draw service never writes an entry.
LEMMA DrawStepKeepsEntries == DrawNext => UNCHANGED <<entry, lastDisq>>
<1> SUFFICES ASSUME DrawNext PROVE UNCHANGED <<entry, lastDisq>> OBVIOUS
<1>1. ASSUME NEW p \in Periods, NEW u \in Staff, NEW override \in BOOLEAN,
             NEW prior \in PriorSets, Freeze(p, u, override, prior)
      PROVE  UNCHANGED <<entry, lastDisq>>
  BY <1>1 DEF Freeze
<1>2. ASSUME NEW d \in DrawIds, NEW u \in Staff, NEW cut \in Cuts,
             Execute(d, u, cut) \/ Reject(d, u, cut)
      PROVE  UNCHANGED <<entry, lastDisq>>
  BY <1>2 DEF Execute, Reject
<1>3. ASSUME NEW d \in DrawIds, NEW u \in Staff PROVE Approve(d, u) => UNCHANGED <<entry, lastDisq>>
  BY DEF Approve
<1>4. ASSUME NEW d \in DrawIds, NEW cut \in Cuts
      PROVE  Publish(d, cut) => UNCHANGED <<entry, lastDisq>>
  BY DEF Publish
<1>5. ASSUME NEW d \in DrawIds, NEW u \in Staff, NEW second \in Staff \cup {Nobody},
             NEW cut \in Cuts
      PROVE  VoidDraw(d, u, second, cut) => UNCHANGED <<entry, lastDisq>>
  BY DEF VoidDraw
<1>6. ASSUME NEW d \in DrawIds, NEW u \in Staff, NEW second \in Staff \cup {Nobody},
             NEW prior \in PriorSets, NEW cut \in Cuts
      PROVE  /\ Rerun(d, u, second, prior, cut) => UNCHANGED <<entry, lastDisq>>
             /\ RerunVoidOnly(d, u, second, prior, cut) => UNCHANGED <<entry, lastDisq>>
  BY DEF Rerun, RerunVoidOnly
<1>7. QED BY <1>1, <1>2, <1>3, <1>4, <1>5, <1>6 DEF DrawNext

\* A step of the draw service leaves the entries alone, and any other step leaves
\* the draws alone.
LEMMA DrawsOrEntries ==
  ASSUME [Next]_drawVars
  PROVE  (UNCHANGED <<entry, lastDisq>>) \/ (UNCHANGED draw)
<1>1. CASE DrawNext  BY <1>1, DrawStepKeepsEntries
<1>2. CASE PoolNext
  BY <1>2 DEF PoolNext, PeriodEnds, UpsertPeriod, Submit, Award, Refuse, Reprocess,
              Disqualify, Reinstate, Leave
<1>3. CASE StaffNext  BY <1>3 DEF StaffNext, SetRole, PauseDraws
<1>4. QED BY <1>1, <1>2, <1>3 DEF Next, drawVars

\* How a step may change one entry: an award needs a period without a draw, a
\* disqualification of an entry of a live draw needs a second name.
EntryMove(e) ==
  \/ entry'[e] = entry[e] /\ lastDisq'[e] = lastDisq[e]
  \/ /\ entry[e] # "active" /\ entry[e] # "excluded"
     /\ lastDisq'[e] = lastDisq[e]
     /\ entry'[e] # "excluded"
     /\ entry'[e] = "active" => Live(PeriodOf[e]) = {}
  \/ /\ entry[e] = "active" /\ entry'[e] = "excluded"
     /\ lastDisq'[e] \in {"single", "dual"}
     /\ InLiveDraw(e) => lastDisq'[e] = "dual"
  \/ /\ entry[e] = "excluded" /\ entry'[e] = "active"
     /\ lastDisq'[e] = lastDisq[e]

LEMMA EntryMoves ==
  ASSUME TypeOK, [Next]_drawVars, NEW e \in Entries
  PROVE  EntryMove(e)
<1> USE DEF TypeOK
<1>1. CASE UNCHANGED <<entry, lastDisq>>  BY <1>1 DEF EntryMove
<1>2. ASSUME NEW f \in Entries, Submit(f) PROVE EntryMove(e)
  BY <1>2 DEF Submit, EntryMove
<1>3. ASSUME NEW f \in Entries, Award(f) PROVE EntryMove(e)
  BY <1>3 DEF Award, EntryMove
<1>4. ASSUME NEW f \in Entries, Refuse(f) \/ Reprocess(f) PROVE EntryMove(e)
  BY <1>4 DEF Refuse, Reprocess, EntryMove
<1>5. ASSUME NEW f \in Entries, NEW second \in BOOLEAN, Disqualify(f, second)
      PROVE  EntryMove(e)
  BY <1>5 DEF Disqualify, EntryMove
<1>6. ASSUME NEW f \in Entries, NEW second \in BOOLEAN, Reinstate(f, second)
      PROVE  EntryMove(e)
  BY <1>6 DEF Reinstate, EntryMove
<1>7. CASE DrawNext
  <2>1. UNCHANGED <<entry, lastDisq>>  BY <1>7, DrawStepKeepsEntries
  <2>2. QED BY <1>1, <2>1
<1>8. CASE PoolNext
  BY <1>1, <1>2, <1>3, <1>4, <1>5, <1>6, <1>8, DrawsAssumption DEF PoolNext, PeriodEnds, UpsertPeriod, Leave
<1>9. CASE StaffNext  BY <1>1, <1>9 DEF StaffNext, SetRole, PauseDraws
<1>10. QED BY <1>1, <1>7, <1>8, <1>9 DEF Next, drawVars

\* An excluded entry was disqualified: the strengthening the next theorem needs,
\* because reinstateEntry() may bring an entry back while a draw is live.
ExcludedWasDisqualified ==
  \A e \in Entries : entry[e] = "excluded" => lastDisq[e] # "never"

THEOREM NothingIsAwardedPastTheFreeze ==
  Spec => [](ExcludedWasDisqualified /\ AwardedEntriesAreInTheSnapshot)
<1>1. Init => ExcludedWasDisqualified /\ AwardedEntriesAreInTheSnapshot
  BY DEF Init, ExcludedWasDisqualified, AwardedEntriesAreInTheSnapshot
<1>2. TypeOK /\ ExcludedWasDisqualified /\ [Next]_drawVars => ExcludedWasDisqualified'
  <2> SUFFICES ASSUME TypeOK, ExcludedWasDisqualified, [Next]_drawVars, NEW e \in Entries
               PROVE  entry'[e] = "excluded" => lastDisq'[e] # "never"
    BY DEF ExcludedWasDisqualified
  <2>1. EntryMove(e)  BY EntryMoves
  <2>2. QED BY <2>1 DEF EntryMove, ExcludedWasDisqualified
<1>3. TypeOK /\ ExcludedWasDisqualified /\ AwardedEntriesAreInTheSnapshot /\ [Next]_drawVars
        => AwardedEntriesAreInTheSnapshot'
  <2> SUFFICES ASSUME TypeOK, ExcludedWasDisqualified, AwardedEntriesAreInTheSnapshot,
                      [Next]_drawVars, NEW d \in DrawIds, NEW e \in Entries,
                      draw'[d].status \in LiveStatus, PeriodOf[e] = draw'[d].period,
                      entry'[e] = "active", lastDisq'[e] = "never"
               PROVE  e \in draw'[d].cands \cup draw'[d].excl
    BY DEF AwardedEntriesAreInTheSnapshot
  <2>1. EntryMove(e)  BY EntryMoves
  <2>2. entry[e] # "excluded"  BY <2>1 DEF EntryMove, ExcludedWasDisqualified
  <2>3. CASE Created(d)
    <3>1. UNCHANGED <<entry, lastDisq>>
      BY <2>3, DrawsOrEntries DEF Created
    <3>2. e \in InPool(draw'[d].period)  BY <3>1 DEF InPool
    <3>3. QED BY <2>3, <3>2 DEF Created
  <2>4. CASE /\ draw[d].status \in LiveStatus /\ draw'[d].period = draw[d].period
             /\ draw'[d].cands = draw[d].cands /\ draw'[d].excl = draw[d].excl
    <3>1. d \in Live(PeriodOf[e])  BY <2>4 DEF Live, LiveIn
    <3>2. entry[e] = "active" /\ lastDisq[e] = "never"
      BY <2>1, <2>2, <3>1 DEF EntryMove
    <3>3. QED BY <2>4, <3>2 DEF AwardedEntriesAreInTheSnapshot
  <2>5. QED BY <2>3, <2>4, LiveRowBefore
<1>4. QED BY <1>1, <1>2, <1>3, TypeCorrect, PTL DEF Spec

\* A frozen pool loses an entry only under two names (disqualifyEntry()).
THEOREM PoolIsLeftUnderTwoNames == Spec => []FrozenPoolIsLeftUnderTwoNames
<1>1. Init => FrozenPoolIsLeftUnderTwoNames
  BY DEF Init, FrozenPoolIsLeftUnderTwoNames, AbsentRow, LiveStatus
<1>2. TypeOK /\ FrozenPoolIsLeftUnderTwoNames /\ [Next]_drawVars
        => FrozenPoolIsLeftUnderTwoNames'
  <2> SUFFICES ASSUME TypeOK, FrozenPoolIsLeftUnderTwoNames, [Next]_drawVars,
                      NEW d \in DrawIds, draw'[d].status \in LiveStatus,
                      NEW e \in draw'[d].cands \cup draw'[d].excl, entry'[e] = "excluded"
               PROVE  lastDisq'[e] = "dual"
    BY DEF FrozenPoolIsLeftUnderTwoNames
  <2>1. TypeOK'  BY DrawStepType, PoolStepType, StaffStepType DEF Next, drawVars, TypeOK
  <2>2. e \in Entries  BY <2>1 DEF TypeOK, DrawRow
  <2>3. EntryMove(e)  BY <2>2, EntryMoves
  <2>4. CASE Created(d)
    <3>1. entry' = entry  BY <2>4, DrawsOrEntries DEF Created
    <3>2. entry[e] = "active"  BY <2>4 DEF Created, InPool
    <3>3. QED BY <3>1, <3>2
  <2>5. CASE /\ draw[d].status \in LiveStatus /\ draw'[d].period = draw[d].period
             /\ draw'[d].cands = draw[d].cands /\ draw'[d].excl = draw[d].excl
    <3>1. InLiveDraw(e)  BY <2>5 DEF InLiveDraw
    <3>2. entry[e] = "excluded" => lastDisq[e] = "dual"
      BY <2>5 DEF FrozenPoolIsLeftUnderTwoNames
    <3>3. QED BY <2>3, <3>1, <3>2 DEF EntryMove
  <2>6. QED BY <2>4, <2>5, LiveRowBefore
<1>3. QED BY <1>1, <1>2, TypeCorrect, PTL DEF Spec

---------------------------------------------------------------------------
(* Draws implements DrawPromise.                                           *)

LEMMA StagesAreStages ==
  ASSUME NEW st \in DrawStatus
  PROVE  /\ StageOf(st) = "none" <=> st = "absent"
         /\ StageOf(st) = "sealed" <=> st \in {"frozen", "executing"}
         /\ StageOf(st) = "drawn" <=> st = "executed"
         /\ StageOf(st) = "endorsed" <=> st = "approved"
         /\ StageOf(st) = "announced" <=> st = "published"
         /\ StageOf(st) = "discarded" <=> st = "voided"
BY DEF StageOf, DrawStatus

LEMMA PromiseInit == Init => Promise!Init
<1> SUFFICES ASSUME Init PROVE Promise!Init OBVIOUS
<1>1. TypeOK  BY InitType
<1>2. [d \in DrawIds |-> SealOf(draw[d])] \in [DrawIds -> SealContents]
  BY <1>1 DEF TypeOK, DrawRow, SealOf, SealContents
<1>3. \A d \in DrawIds : draw[d].status = "absent" /\ draw[d].output = NoOutput
  BY DEF Init, AbsentRow
<1>4. [d \in DrawIds |-> StageOf(draw[d].status)] = [d \in DrawIds |-> "none"]
  BY <1>3 DEF StageOf
<1>5. [d \in DrawIds |-> draw[d].output] = [d \in DrawIds |-> NoOutput]
  BY <1>3
<1>6. QED BY <1>2, <1>4, <1>5 DEF Promise!Init

\* The three abstract variables, and what a kept row means for them.
Stages == [d \in DrawIds |-> StageOf(draw[d].status)]
Seals == [d \in DrawIds |-> SealOf(draw[d])]
Results == [d \in DrawIds |-> draw[d].output]

LEMMA KeptMapped ==
  ASSUME NEW d \in DrawIds, Kept(d)
  PROVE  Stages'[d] = Stages[d] /\ Seals'[d] = Seals[d] /\ Results'[d] = Results[d]
BY DEF Kept, EqualButLinks, Stages, Seals, Results, SealOf

\* A freeze, alone or with the void of what it replaces, is one abstract seal.
LEMMA SealMapped ==
  ASSUME TypeOK, TypeOK', ResultFollowsFromFreeze,
         NEW n \in DrawIds, Created(n), NEW replaced \in SUBSET DrawIds,
         \A c \in replaced : Voided(c) /\ c # n,
         \A c \in DrawIds \ ({n} \cup replaced) : Kept(c)
  PROVE  Promise!Seal(n, replaced)
<1>1. Stages[n] = "none" /\ Stages'[n] = "sealed"
  BY DEF Created, Stages, StageOf
<1>2. \A c \in replaced : /\ Stages'[c] = "discarded" /\ Seals'[c] = Seals[c]
                          /\ Results'[c] = Results[c]
  BY DEF Voided, SameEvidence, Stages, Seals, Results, SealOf, StageOf
<1>3. \A c \in DrawIds \ ({n} \cup replaced) :
        Stages'[c] = Stages[c] /\ Seals'[c] = Seals[c] /\ Results'[c] = Results[c]
  BY KeptMapped
<1>4. Results'[n] = Results[n]
  BY DEF Created, ResultFollowsFromFreeze, Results
<1>5. Results' = Results  BY <1>2, <1>3, <1>4 DEF Results
<1>6. Stages' = [c \in DrawIds |-> IF c = n THEN "sealed"
                                   ELSE IF c \in replaced THEN "discarded" ELSE Stages[c]]
  BY <1>1, <1>2, <1>3 DEF Stages
<1>7. Seals' \in [DrawIds -> SealContents]
  BY DEF TypeOK, DrawRow, SealOf, SealContents, Seals
<1>8. \A c \in DrawIds \ {n} : Seals'[c] = Seals[c]  BY <1>2, <1>3
<1>9. ASSUME NEW c \in DrawIds, Stages[c] \notin {"none", "discarded"},
             SealPeriod(Seals[c]) = SealPeriod(Seals'[n])
      PROVE  c \in replaced
  <2>1. c # n  BY <1>1, <1>9
  <2>2. SUFFICES ASSUME c \notin replaced PROVE FALSE  OBVIOUS
  <2>3. Kept(c)  BY <2>1, <2>2
  <2>4. draw[c].period = draw'[n].period
    BY <1>9 DEF Seals, SealOf, SealPeriod
  <2>5. draw'[c].period = draw'[n].period /\ draw'[c].status = draw[c].status
    BY <2>3, <2>4 DEF Kept, EqualButLinks
  <2>6. draw[c].status \notin LiveStatus  BY <2>1, <2>5 DEF Created
  <2>7. draw[c].status \in {"absent", "voided"}
    BY <2>6 DEF TypeOK, DrawRow, DrawStatus, LiveStatus
  <2>8. Stages[c] \in {"none", "discarded"}  BY <2>7 DEF Stages, StageOf
  <2>9. QED BY <1>9, <2>8
<1>10. Promise!InForce(SealPeriod(Seals'[n])) \subseteq replaced
  BY <1>9 DEF Promise!InForce, Stages, Seals
<1>11. QED BY <1>1, <1>5, <1>6, <1>7, <1>8, <1>10
          DEF Promise!Seal, Stages, Seals, Results

\* A step that changes one row is a stutter or one abstract operation on it.
LEMMA OneRowMapped ==
  ASSUME TypeOK, TypeOK', ResultFollowsFromFreeze, NEW d \in DrawIds, OneRow(d)
  PROVE  Promise!Next \/ UNCHANGED Promise!promiseVars
<1>1. \A c \in DrawIds \ {d} :
        Stages'[c] = Stages[c] /\ Seals'[c] = Seals[c] /\ Results'[c] = Results[c]
  BY KeptMapped DEF OneRow
<1>2. draw[d].status \in DrawStatus /\ draw'[d].status \in DrawStatus
  BY DEF TypeOK, DrawRow
<1>3. CASE Created(d)
  <2>1. Promise!Seal(d, {})  BY <1>3, SealMapped DEF OneRow
  <2>2. QED BY <2>1 DEF Promise!Next
<1>4. ASSUME SameEvidence(d) PROVE Seals' = Seals
  <2>1. Seals'[d] = Seals[d]  BY <1>4 DEF SameEvidence, Seals, SealOf
  <2>2. QED BY <1>1, <2>1 DEF Seals
<1>5. ASSUME draw'[d].output = draw[d].output PROVE Results' = Results
  BY <1>1, <1>5 DEF Results
<1>6. ASSUME NEW x, Stages'[d] = x PROVE Stages' = [Stages EXCEPT ![d] = x]
  BY <1>1, <1>6 DEF Stages
<1>7. CASE Kept(d)
  <2>1. SameEvidence(d)  BY <1>7 DEF Kept, EqualButLinks, SameEvidence
  <2>2. Stages' = Stages  BY <1>1, <1>7, KeptMapped DEF Stages
  <2>3. Results' = Results  BY <1>5, <1>7 DEF Kept, EqualButLinks
  <2>4. QED BY <1>4, <2>1, <2>2, <2>3 DEF Promise!promiseVars, Stages, Seals, Results
<1>8. CASE Executed(d) /\ draw'[d].status = "executing"
  <2>1. Stages'[d] = Stages[d]  BY <1>8 DEF Executed, Stages, StageOf
  <2>2. Stages' = Stages  BY <1>1, <2>1 DEF Stages
  <2>3. Results' = Results  BY <1>5, <1>8 DEF Executed
  <2>4. Seals' = Seals  BY <1>4, <1>8 DEF Executed
  <2>5. QED BY <2>2, <2>3, <2>4 DEF Promise!promiseVars, Stages, Seals, Results
<1>9. CASE Executed(d) /\ draw'[d].status = "executed"
  <2>1. Stages[d] = "sealed" /\ Stages'[d] = "drawn"
    BY <1>9 DEF Executed, Stages, StageOf
  <2>2. Stages' = [Stages EXCEPT ![d] = "drawn"]  BY <1>6, <2>1
  <2>3. Results'[d] = SealOutcome(Seals[d])
    BY <1>9 DEF Executed, Results, Seals, SealOf, SealOutcome
  <2>4. Results' = [Results EXCEPT ![d] = SealOutcome(Seals[d])]
    BY <1>1, <2>3 DEF Results
  <2>5. Seals' = Seals  BY <1>4, <1>9 DEF Executed
  <2>6. Promise!Draw(d)
    BY <2>1, <2>2, <2>4, <2>5 DEF Promise!Draw, Stages, Seals, Results
  <2>7. QED BY <2>6 DEF Promise!Next
<1>10. CASE Approved(d)
  <2>1. Stages[d] = "drawn" /\ Stages'[d] = "endorsed"
    BY <1>10 DEF Approved, Stages, StageOf
  <2>2. Stages' = [Stages EXCEPT ![d] = "endorsed"]  BY <1>6, <2>1
  <2>3. Seals' = Seals /\ Results' = Results  BY <1>4, <1>5, <1>10 DEF Approved
  <2>4. Promise!Endorse(d)
    BY <2>1, <2>2, <2>3 DEF Promise!Endorse, Stages, Seals, Results
  <2>5. QED BY <2>4 DEF Promise!Next
<1>11. CASE Published(d)
  <2>1. Stages[d] = "endorsed" /\ Stages'[d] = "announced"
    BY <1>11 DEF Published, Stages, StageOf
  <2>2. Stages' = [Stages EXCEPT ![d] = "announced"]  BY <1>6, <2>1
  <2>3. Seals' = Seals /\ Results' = Results  BY <1>4, <1>5, <1>11 DEF Published
  <2>4. Promise!Announce(d)
    BY <2>1, <2>2, <2>3 DEF Promise!Announce, Stages, Seals, Results
  <2>5. QED BY <2>4 DEF Promise!Next
<1>12. CASE Voided(d)
  <2>1. Stages[d] # "none" /\ Stages'[d] = "discarded"
    <3>1. Stages[d] = StageOf(draw[d].status) /\ Stages'[d] = StageOf(draw'[d].status)
      BY DEF Stages
    <3>2. QED BY <1>2, <1>12, <3>1, StagesAreStages DEF Voided
  <2>2. Stages' = [Stages EXCEPT ![d] = "discarded"]  BY <1>6, <2>1
  <2>3. Seals' = Seals /\ Results' = Results  BY <1>4, <1>5, <1>12 DEF Voided
  <2>4. Promise!Discard(d)
    BY <2>1, <2>2, <2>3 DEF Promise!Discard, Stages, Seals, Results
  <2>5. QED BY <2>4 DEF Promise!Next
<1>13. QED BY <1>3, <1>7, <1>8, <1>9, <1>10, <1>11, <1>12 DEF OneRow, RowStep, Executed

\* The whole service keeps the promise of DrawPromise: sealed before drawn, the one
\* result the seal determines, and one draw in force per period.
THEOREM DrawsKeepThePromise == Spec => ImplementsPromise
<1>1. TypeOK /\ TypeOK' /\ ResultFollowsFromFreeze /\ [Next]_drawVars
        => [Promise!Next]_Promise!promiseVars
  <2> SUFFICES ASSUME TypeOK, TypeOK', ResultFollowsFromFreeze, [Next]_drawVars
               PROVE  Promise!Next \/ UNCHANGED Promise!promiseVars
    OBVIOUS
  <2>1. StepShape  BY EveryStepShape
  <2>2. CASE UNCHANGED draw
    BY <2>2 DEF Promise!promiseVars, StageOf, SealOf
  <2>3. CASE \E d \in DrawIds : OneRow(d)  BY <2>3, OneRowMapped
  <2>4. ASSUME NEW n \in DrawIds, NEW d \in DrawIds, TwoRows(n, d)
        PROVE  Promise!Next
    <3>1. Promise!Seal(n, {d})  BY <2>4, SealMapped DEF TwoRows
    <3>2. draw[d].status \in DrawStatus /\ draw[d].status # "absent"
      BY <2>4 DEF TypeOK, DrawRow, TwoRows, Voided
    <3>3. Stages[d] # "none"  BY <3>2, StagesAreStages DEF Stages
    <3>4. {d} \in SUBSET {c \in DrawIds : Stages[c] # "none"}  BY <3>3
    <3>5. QED BY <3>1, <3>4 DEF Promise!Next, Stages
  <2>5. QED BY <2>1, <2>2, <2>3, <2>4 DEF StepShape
<1>2. QED BY <1>1, PromiseInit, TypeCorrect, ResultIsDetermined, PTL
          DEF Spec, ImplementsPromise, Promise!Spec

=============================================================================
