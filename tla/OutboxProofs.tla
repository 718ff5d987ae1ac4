---------------------------- MODULE OutboxProofs ----------------------------
(* Proofs about the outbox for any number of messages, worker loops and      *)
(* requests.                                                                  *)
EXTENDS Outbox, FiniteSetTheorems, TLAPS

\* ---- the inductive invariant
Row ==
  [status : {"none", "sending", "sent"} \cup Queued \cup Proven \cup Failed,
   attempts : Nat, lease : {"none", "live", "expired"}, wait : {"no", "backoff", "held"},
   pid : Nat, left : BOOLEAN, addr : {"phone", "deleted"}]

Loop ==
  {Idle}
  \cup [at : {"picked", "leased", "sending"}, msg : Messages, attempts : Nat,
        addr : {"phone", "deleted"}]
  \cup [at : {"accepted"}, msg : Messages, attempts : Nat, addr : {"phone", "deleted"}, pid : Nat]

OutboxTypes ==
  /\ row \in [Messages -> Row] /\ worker \in [Workers -> Loop]
  /\ asks \in [Messages -> Nat] /\ accepts \in [Messages -> Nat]

\* The loops that may still have the provider take a message, and its row while it
\* is queued: every one of them is a request that was not answered yet.
Mid == {"leased", "sending"}
Holding(m) == {w \in Workers : worker[w].at \in Mid /\ worker[w].msg = m}
Waiting(m) == IF row[m].status \in Queued THEN 1 ELSE 0
NoneUnasked ==
  ~Drops => \A m \in Messages : accepts[m] + Cardinality(Holding(m)) + Waiting(m) <= asks[m]

\* A row comes from a request; one the provider knows, or reported on, has left.
RowsWereAsked == \A m \in Messages : row[m].status # "none" => asks[m] > 0
KnownHasLeft == \A m \in Messages : row[m].pid # 0 \/ row[m].status \in Proven => row[m].left

OutboxInv == OutboxTypes /\ NoneUnasked /\ RowsWereAsked /\ KnownHasLeft

\* ---- what the updates of a row do
RowIsFit(r) == r \in Row /\ (r.pid # 0 \/ r.status \in Proven => r.left)

LEMMA UpdatesKeepRows ==
  ASSUME NEW r \in Row, RowIsFit(r), NEW hold \in BOOLEAN, NEW pid \in Nat, NEW attempts \in Nat,
         NEW permanent \in BOOLEAN
  PROVE  /\ RowIsFit(BlockedRow(r, hold)) /\ RowIsFit(SentRow(r, pid))
         /\ RowIsFit(FailedRow(r, attempts, permanent)) /\ RowIsFit(UnknownRow(r))
         /\ RowIsFit(RetriedRow(r))
         /\ SentRow(r, pid).status = "sent" /\ UnknownRow(r).status = "unknown_outcome"
         /\ BlockedRow(r, hold).status # "none" /\ FailedRow(r, attempts, permanent).status # "none"
         /\ RetriedRow(r).status = "pending"
<1>1. RowIsFit(BlockedRow(r, hold)) /\ BlockedRow(r, hold).status # "none"
  BY DEF RowIsFit, Row, Queued, Proven, Failed, BlockedRow
<1>2. RowIsFit(SentRow(r, pid)) /\ SentRow(r, pid).status = "sent"
  BY DEF RowIsFit, Row, Queued, Proven, Failed, SentRow
<1>3. RowIsFit(FailedRow(r, attempts, permanent)) /\ FailedRow(r, attempts, permanent).status # "none"
  BY DEF RowIsFit, Row, Queued, Proven, Failed, FailedRow
<1>4. RowIsFit(UnknownRow(r)) /\ UnknownRow(r).status = "unknown_outcome"
  BY DEF RowIsFit, Row, Queued, Proven, Failed, UnknownRow
<1>5. RowIsFit(RetriedRow(r)) /\ RetriedRow(r).status = "pending"
  BY DEF RowIsFit, Row, Queued, Proven, Failed, RetriedRow
<1>6. QED BY <1>1, <1>2, <1>3, <1>4, <1>5

LEMMA ErasureKeepsRows ==
  ASSUME NEW r \in Row, RowIsFit(r)
  PROVE  RowIsFit(ErasedRow(r)) /\ ErasedRow(r).status \in {"none", r.status}
BY DEF RowIsFit, Row, Queued, Proven, Failed, ErasedRow, NoRow

LEMMA ReportsKeepRows ==
  ASSUME NEW r \in Row, RowIsFit(r), r.left, NEW report \in {"sent", "delivered", "read", "failed"}
  PROVE  /\ RowIsFit(CalledBack(r, report))
         /\ CalledBack(r, report).status \in Queued => r.status \in Queued
         /\ CalledBack(r, report).status = "none" => r.status = "none"
         /\ r.status \in Proven => CalledBack(r, report).status \in Proven
         /\ r.status = "read" => CalledBack(r, report).status = "read"
<1>1. CASE report = "sent"
  BY <1>1 DEF RowIsFit, Row, Queued, Proven, Failed, CalledBack
<1>2. CASE report = "delivered"
  BY <1>2 DEF RowIsFit, Row, Queued, Proven, Failed, CalledBack
<1>3. CASE report = "read"
  BY <1>3 DEF RowIsFit, Row, Queued, Proven, Failed, CalledBack
<1>4. CASE report = "failed"
  BY <1>4 DEF RowIsFit, Row, Queued, Proven, Failed, CalledBack
<1>5. QED BY <1>1, <1>2, <1>3, <1>4

\* ---- counting
LEMMA HoldingIsFinite ==
  ASSUME NEW m PROVE /\ IsFiniteSet(Holding(m)) /\ Cardinality(Holding(m)) \in Nat
                     /\ IsFiniteSet(Holding(m)') /\ Cardinality(Holding(m)') \in Nat
<1>1. Holding(m) \in SUBSET Workers /\ Holding(m)' \in SUBSET Workers  BY DEF Holding
<1>2. IsFiniteSet(Workers)  BY OutboxAssumption
<1>3. QED BY <1>1, <1>2, FS_Subset, FS_CardinalityType

\* Rows alone change, and none of them is queued anew.
LEMMA RowsAlone ==
  ASSUME OutboxInv, UNCHANGED <<worker, asks, accepts>>, row' \in [Messages -> Row],
         \A m \in Messages : /\ RowIsFit(row'[m])
                             /\ row'[m].status \in Queued => row[m].status \in Queued
                             /\ row'[m].status # "none" => row[m].status # "none"
  PROVE  OutboxInv'
<1>1. OutboxTypes'  BY DEF OutboxInv, OutboxTypes
<1>2. RowsWereAsked' /\ KnownHasLeft'
  BY DEF OutboxInv, RowsWereAsked, KnownHasLeft, RowIsFit
<1>3. ASSUME ~Drops, NEW m \in Messages
      PROVE  (accepts[m] + Cardinality(Holding(m)) + Waiting(m) <= asks[m])'
  <2>1. Holding(m)' = Holding(m)  BY DEF Holding
  <2>2. Waiting(m)' \in Nat /\ Waiting(m) \in Nat /\ Waiting(m)' <= Waiting(m)  BY DEF Waiting
  <2>3. accepts[m] \in Nat /\ asks[m] \in Nat  BY DEF OutboxInv, OutboxTypes
  <2>4. accepts[m] + Cardinality(Holding(m)) + Waiting(m) <= asks[m]  BY <1>3 DEF OutboxInv, NoneUnasked
  <2>5. QED BY <2>1, <2>2, <2>3, <2>4, HoldingIsFinite
<1>4. QED BY <1>1, <1>2, <1>3 DEF OutboxInv, NoneUnasked

\* A loop alone moves, and takes nothing into its hands.
LEMMA LoopAlone ==
  ASSUME OutboxInv, NEW w \in Workers, NEW x \in Loop, worker' = [worker EXCEPT ![w] = x],
         UNCHANGED <<row, asks, accepts>>,
         x.at \in Mid => worker[w].at \in Mid /\ worker[w].msg = x.msg
  PROVE  OutboxInv'
<1>1. OutboxTypes'  BY DEF OutboxInv, OutboxTypes
<1>2. RowsWereAsked' /\ KnownHasLeft'  BY DEF OutboxInv, RowsWereAsked, KnownHasLeft
<1>3. ASSUME ~Drops, NEW m \in Messages
      PROVE  (accepts[m] + Cardinality(Holding(m)) + Waiting(m) <= asks[m])'
  <2>1. Holding(m)' \in SUBSET Holding(m)  BY DEF Holding, OutboxInv, OutboxTypes
  <2>2. Cardinality(Holding(m)') <= Cardinality(Holding(m))
    BY <2>1, HoldingIsFinite, FS_Subset
  <2>3. Waiting(m)' = Waiting(m) /\ Waiting(m) \in Nat  BY DEF Waiting
  <2>4. accepts[m] \in Nat /\ asks[m] \in Nat  BY DEF OutboxInv, OutboxTypes
  <2>5. accepts[m] + Cardinality(Holding(m)) + Waiting(m) <= asks[m]  BY <1>3 DEF OutboxInv, NoneUnasked
  <2>6. QED BY <2>2, <2>3, <2>4, <2>5, HoldingIsFinite
<1>4. QED BY <1>1, <1>2, <1>3 DEF OutboxInv, NoneUnasked

\* A result is written: it may queue the row only for the request its loop gives back.
LEMMA Settles ==
  ASSUME OutboxInv, NEW w \in Workers, worker[w].at \in {"leased", "sending", "accepted"},
         NEW outcome \in Row, RowIsFit(outcome), outcome.status # "none",
         outcome.status \in Queued => worker[w].at \in Mid \/ Drops,
         Settle(w, outcome), UNCHANGED <<asks, accepts>>
  PROVE  OutboxInv'
<1> DEFINE k == worker[w].msg
<1>1. k \in Messages /\ worker[w] # Idle  BY DEF OutboxInv, OutboxTypes, Loop, Idle
<1>2. worker' = [worker EXCEPT ![w] = Idle]  BY DEF Settle
<1>3. row' = IF row[k].status = "none" THEN row ELSE [row EXCEPT ![k] = outcome]  BY DEF Settle
<1>4. OutboxTypes'  BY <1>1, <1>2, <1>3 DEF OutboxInv, OutboxTypes, Loop
<1>5. RowsWereAsked' /\ KnownHasLeft'
  BY <1>1, <1>3 DEF OutboxInv, OutboxTypes, RowsWereAsked, KnownHasLeft, RowIsFit
<1>6. ASSUME ~Drops, NEW m \in Messages
      PROVE  (accepts[m] + Cardinality(Holding(m)) + Waiting(m) <= asks[m])'
  <2>1. Holding(m)' = Holding(m) \ {w}
    BY <1>2 DEF Holding, Mid, Idle, OutboxInv, OutboxTypes
  <2>2. Cardinality(Holding(m)') =
          IF w \in Holding(m) THEN Cardinality(Holding(m)) - 1 ELSE Cardinality(Holding(m))
    BY <2>1, HoldingIsFinite, FS_RemoveElement
  <2>3. Waiting(m) \in {0, 1} /\ Waiting(m)' \in {0, 1}  BY DEF Waiting
  <2>4. accepts[m] \in Nat /\ asks[m] \in Nat  BY DEF OutboxInv, OutboxTypes
  <2>5. accepts[m] + Cardinality(Holding(m)) + Waiting(m) <= asks[m]  BY <1>6 DEF OutboxInv, NoneUnasked
  <2>6. w \in Holding(m) \/ Waiting(m)' <= Waiting(m)
    <3>1. CASE m # k
      BY <3>1, <1>1, <1>3, <2>3 DEF Waiting, OutboxInv, OutboxTypes
    <3>2. CASE m = k /\ worker[w].at \in Mid  BY <3>2 DEF Holding
    <3>3. CASE m = k /\ outcome.status \notin Queued
      BY <3>3, <1>1, <1>3, <2>3 DEF Waiting, OutboxInv, OutboxTypes
    <3>4. QED BY <1>6, <3>1, <3>2, <3>3
  <2>7. CASE w \in Holding(m)  BY <2>7, <2>2, <2>3, <2>4, <2>5, HoldingIsFinite
  <2>8. CASE w \notin Holding(m)  BY <2>8, <2>2, <2>3, <2>4, <2>5, <2>6, HoldingIsFinite
  <2>9. QED BY <2>7, <2>8
<1>7. QED BY <1>4, <1>5, <1>6 DEF OutboxInv, NoneUnasked

\* ---- the steps
LEMMA OutboxStarts == Init => OutboxInv
<1> SUFFICES ASSUME Init PROVE OutboxInv  OBVIOUS
<1>1. OutboxTypes  BY DEF Init, OutboxTypes, Row, Loop, NoRow
<1>2. RowsWereAsked /\ KnownHasLeft  BY DEF Init, RowsWereAsked, KnownHasLeft, NoRow, Proven
<1>3. ASSUME NEW m \in Messages PROVE accepts[m] + Cardinality(Holding(m)) + Waiting(m) <= asks[m]
  <2>1. Holding(m) = {}  BY DEF Init, Holding, Mid, Idle
  <2>2. Cardinality(Holding(m)) = 0  BY <2>1, FS_EmptySet
  <2>3. accepts[m] = 0 /\ asks[m] = 0 /\ Waiting(m) = 0  BY DEF Init, Waiting, NoRow, Queued
  <2>4. QED BY <2>2, <2>3
<1>4. QED BY <1>1, <1>2, <1>3 DEF OutboxInv, NoneUnasked

\* What is known of a row, and of what a busy loop holds.
LEMMA RowsFit == ASSUME OutboxInv, NEW m \in Messages PROVE row[m] \in Row /\ RowIsFit(row[m])
BY DEF OutboxInv, OutboxTypes, KnownHasLeft, RowIsFit

LEMMA LoopsFit ==
  ASSUME OutboxInv, NEW w \in Workers, worker[w].at # "idle"
  PROVE  /\ worker[w].msg \in Messages /\ worker[w].attempts \in Nat
         /\ worker[w].at = "accepted" => worker[w].pid \in Nat
<1>1. worker[w] \in Loop /\ worker[w] # Idle  BY DEF OutboxInv, OutboxTypes, Idle
<1>2. QED BY <1>1 DEF Loop

LEMMA EnqueueKeeps ==
  ASSUME OutboxInv, NEW k \in Messages, NEW hold \in BOOLEAN, Enqueue(k, hold) PROVE OutboxInv'
<1> DEFINE new == [NoRow EXCEPT !.status = "pending", !.wait = IF hold THEN "held" ELSE "no"]
<1>1. new \in Row /\ RowIsFit(new) /\ new.status = "pending"
  BY DEF Row, RowIsFit, NoRow, Queued, Proven, Failed
<1>2. row' = [row EXCEPT ![k] = new]  BY DEF Enqueue
<1> HIDE DEF new
<1>3. asks[k] = 0 /\ asks' = [asks EXCEPT ![k] = 1] /\ UNCHANGED <<worker, accepts>>
  BY DEF Enqueue
<1>4. OutboxTypes'  BY <1>1, <1>2, <1>3 DEF OutboxInv, OutboxTypes
<1>5. RowsWereAsked' /\ KnownHasLeft'
  BY <1>1, <1>2, <1>3 DEF OutboxInv, OutboxTypes, RowsWereAsked, KnownHasLeft, RowIsFit
<1>6. ASSUME ~Drops, NEW m \in Messages
      PROVE  (accepts[m] + Cardinality(Holding(m)) + Waiting(m) <= asks[m])'
  <2>1. Holding(m)' = Holding(m)  BY <1>3 DEF Holding
  <2>2. Waiting(m) \in {0, 1} /\ Waiting(m)' \in {0, 1}  BY DEF Waiting
  <2>3. accepts[m] \in Nat /\ asks[m] \in Nat  BY DEF OutboxInv, OutboxTypes
  <2>4. accepts[m] + Cardinality(Holding(m)) + Waiting(m) <= asks[m]  BY <1>6 DEF OutboxInv, NoneUnasked
  <2>5. CASE m = k
    <3>1. asks[m]' = 1 /\ accepts[m]' = accepts[m] /\ asks[m] = 0
      BY <1>3, <2>5 DEF OutboxInv, OutboxTypes
    <3>2. QED BY <3>1, <2>1, <2>2, <2>3, <2>4, HoldingIsFinite
  <2>6. CASE m # k
    <3>1. asks[m]' = asks[m] /\ accepts[m]' = accepts[m] /\ Waiting(m)' = Waiting(m)
      BY <1>2, <1>3, <2>6 DEF OutboxInv, OutboxTypes, Waiting
    <3>2. QED BY <3>1, <2>1, <2>2, <2>3, <2>4, HoldingIsFinite
  <2>7. QED BY <2>5, <2>6
<1>7. QED BY <1>4, <1>5, <1>6 DEF OutboxInv, NoneUnasked

LEMMA RetryKeeps == ASSUME OutboxInv, NEW k \in Messages, Retry(k) PROVE OutboxInv'
<1> DEFINE new == RetriedRow(row[k])
<1>1. new \in Row /\ RowIsFit(new) /\ new.status = "pending"
  BY RowsFit, UpdatesKeepRows DEF RowIsFit
<1>2. row' = [row EXCEPT ![k] = new] /\ row[k].status # "none"
  BY DEF Retry, Failed
<1> HIDE DEF new
<1>3. asks' = [asks EXCEPT ![k] = @ + 1] /\ UNCHANGED <<worker, accepts>>  BY DEF Retry
<1>4. OutboxTypes'  BY <1>1, <1>2, <1>3 DEF OutboxInv, OutboxTypes
<1>5. RowsWereAsked' /\ KnownHasLeft'
  BY <1>1, <1>2, <1>3 DEF OutboxInv, OutboxTypes, RowsWereAsked, KnownHasLeft, RowIsFit
<1>6. ASSUME ~Drops, NEW m \in Messages
      PROVE  (accepts[m] + Cardinality(Holding(m)) + Waiting(m) <= asks[m])'
  <2>1. Holding(m)' = Holding(m)  BY <1>3 DEF Holding
  <2>2. Waiting(m) \in {0, 1} /\ Waiting(m)' \in {0, 1}  BY DEF Waiting
  <2>3. accepts[m] \in Nat /\ asks[m] \in Nat  BY DEF OutboxInv, OutboxTypes
  <2>4. accepts[m] + Cardinality(Holding(m)) + Waiting(m) <= asks[m]  BY <1>6 DEF OutboxInv, NoneUnasked
  <2>5. CASE m = k
    <3>1. asks[m]' = asks[m] + 1 /\ accepts[m]' = accepts[m]
      BY <1>3, <2>5 DEF OutboxInv, OutboxTypes
    <3>2. QED BY <3>1, <2>1, <2>2, <2>3, <2>4, HoldingIsFinite
  <2>6. CASE m # k
    <3>1. asks[m]' = asks[m] /\ accepts[m]' = accepts[m] /\ Waiting(m)' = Waiting(m)
      BY <1>2, <1>3, <2>6 DEF OutboxInv, OutboxTypes, Waiting
    <3>2. QED BY <3>1, <2>1, <2>2, <2>3, <2>4, HoldingIsFinite
  <2>7. QED BY <2>5, <2>6
<1>7. QED BY <1>4, <1>5, <1>6 DEF OutboxInv, NoneUnasked

\* The lease turns what waits into what a loop holds.
LEMMA LeaseKeeps == ASSUME OutboxInv, NEW w \in Workers, Lease(w) PROVE OutboxInv'
<1> DEFINE k == worker[w].msg
           new == [row[k] EXCEPT !.status = "sending", !.lease = "live", !.attempts = OneMore(@)]
           loop == [worker[w] EXCEPT !.at = "leased"]
<1>1. worker[w].at = "picked" /\ k \in Messages  BY LoopsFit DEF Lease
<1>2. CASE Selectable(row[k])
  <2>1. row' = [row EXCEPT ![k] = new] /\ worker' = [worker EXCEPT ![w] = loop]
        /\ UNCHANGED <<asks, accepts>>
    BY <1>2 DEF Lease
  <2>2. new \in Row /\ RowIsFit(new) /\ new.status = "sending"
    <3>1. row[k] \in Row /\ RowIsFit(row[k])  BY <1>1, RowsFit
    <3>2. OneMore(row[k].attempts) \in Nat  BY <3>1, OutboxAssumption DEF Row, OneMore
    <3>3. QED BY <3>1, <3>2, <1>2 DEF Row, RowIsFit, Selectable, Queued, Proven
  <2>3. loop \in Loop /\ loop.at = "leased" /\ loop.msg = k
    <3>1. worker[w] \in Loop  BY DEF OutboxInv, OutboxTypes
    <3>2. worker[w] \in [at : {"picked", "leased", "sending"}, msg : Messages, attempts : Nat,
                         addr : {"phone", "deleted"}]
      BY <3>1, <1>1 DEF Loop, Idle
    <3>3. QED BY <3>2 DEF Loop
  <2> HIDE DEF new, loop
  <2>4. OutboxTypes'  BY <2>1, <2>2, <2>3 DEF OutboxInv, OutboxTypes
  <2>5. RowsWereAsked' /\ KnownHasLeft'
    BY <1>1, <1>2, <2>1, <2>2 DEF OutboxInv, OutboxTypes, RowsWereAsked, KnownHasLeft, RowIsFit,
       Selectable, Queued
  <2>6. ASSUME ~Drops, NEW m \in Messages
        PROVE  (accepts[m] + Cardinality(Holding(m)) + Waiting(m) <= asks[m])'
    <3>1. accepts[m] \in Nat /\ asks[m] \in Nat /\ accepts[m]' = accepts[m] /\ asks[m]' = asks[m]
      BY <2>1 DEF OutboxInv, OutboxTypes
    <3>2. accepts[m] + Cardinality(Holding(m)) + Waiting(m) <= asks[m]
      BY <2>6 DEF OutboxInv, NoneUnasked
    <3>3. CASE m = k
      <4>1. Holding(m)' = Holding(m) \cup {w} /\ w \notin Holding(m)
        BY <1>1, <2>1, <2>3, <3>3 DEF Holding, Mid, OutboxInv, OutboxTypes
      <4>2. Cardinality(Holding(m)') = Cardinality(Holding(m)) + 1
        BY <4>1, HoldingIsFinite, FS_AddElement
      <4>3. Waiting(m) = 1 /\ Waiting(m)' = 0
        BY <1>1, <1>2, <2>1, <2>2, <3>3 DEF Waiting, Selectable, Queued, OutboxInv, OutboxTypes
      <4>4. QED BY <3>1, <3>2, <4>2, <4>3, HoldingIsFinite
    <3>4. CASE m # k
      <4>1. Holding(m)' = Holding(m)
        BY <1>1, <2>1, <2>3, <3>4 DEF Holding, Mid, OutboxInv, OutboxTypes
      <4>2. Waiting(m)' = Waiting(m)  BY <1>1, <2>1, <3>4 DEF Waiting, OutboxInv, OutboxTypes
      <4>3. QED BY <3>1, <3>2, <4>1, <4>2
    <3>5. QED BY <3>3, <3>4
  <2>7. QED BY <2>4, <2>5, <2>6 DEF OutboxInv, NoneUnasked
<1>3. CASE ~Selectable(row[k])
  <2>1. worker' = [worker EXCEPT ![w] = Idle] /\ UNCHANGED <<row, asks, accepts>>
    BY <1>3 DEF Lease
  <2>2. Idle \in Loop /\ Idle.at \notin Mid  BY DEF Idle, Loop, Mid
  <2>3. QED BY <2>1, <2>2, LoopAlone
<1>4. QED BY <1>2, <1>3

\* The provider turns what a loop holds into what it took.
LEMMA AcceptKeeps == ASSUME OutboxInv, NEW w \in Workers, ProviderAccepts(w) PROVE OutboxInv'
<1> DEFINE k == worker[w].msg
           loop == [at |-> "accepted", msg |-> k, attempts |-> worker[w].attempts,
                    addr |-> worker[w].addr, pid |-> accepts[k] + 1]
<1>1. worker[w].at = "sending" /\ worker[w].addr = "phone" /\ k \in Messages
      /\ worker[w].attempts \in Nat
  BY LoopsFit DEF ProviderAccepts
<1>2. worker' = [worker EXCEPT ![w] = loop] /\ accepts' = [accepts EXCEPT ![k] = @ + 1]
      /\ UNCHANGED <<row, asks>>
  BY DEF ProviderAccepts
<1>3. accepts[k] \in Nat  BY <1>1 DEF OutboxInv, OutboxTypes
<1>4. loop \in Loop /\ loop.at = "accepted"  BY <1>1, <1>3 DEF Loop
<1> HIDE DEF loop
<1>5. OutboxTypes'
  <2>1. accepts[k] + 1 \in Nat  BY <1>3
  <2>2. QED BY <1>1, <1>2, <1>4, <2>1 DEF OutboxInv, OutboxTypes
<1>6. RowsWereAsked' /\ KnownHasLeft'  BY <1>2 DEF OutboxInv, RowsWereAsked, KnownHasLeft
<1>7. ASSUME ~Drops, NEW m \in Messages
      PROVE  (accepts[m] + Cardinality(Holding(m)) + Waiting(m) <= asks[m])'
  <2>1. accepts[m] \in Nat /\ asks[m] \in Nat /\ asks[m]' = asks[m] /\ Waiting(m)' = Waiting(m)
        /\ Waiting(m) \in {0, 1}
    BY <1>2 DEF OutboxInv, OutboxTypes, Waiting
  <2>2. accepts[m] + Cardinality(Holding(m)) + Waiting(m) <= asks[m]
    BY <1>7 DEF OutboxInv, NoneUnasked
  <2>3. CASE m = k
    <3>1. Holding(m)' = Holding(m) \ {w} /\ w \in Holding(m)
      BY <1>1, <1>2, <1>4, <2>3 DEF Holding, Mid, OutboxInv, OutboxTypes
    <3>2. Cardinality(Holding(m)') = Cardinality(Holding(m)) - 1
      BY <3>1, HoldingIsFinite, FS_RemoveElement
    <3>3. accepts[m]' = accepts[m] + 1  BY <1>2, <2>3 DEF OutboxInv, OutboxTypes
    <3>4. QED BY <2>1, <2>2, <3>2, <3>3, HoldingIsFinite
  <2>4. CASE m # k
    <3>1. Holding(m)' = Holding(m)
      BY <1>1, <1>2, <1>4, <2>4 DEF Holding, Mid, OutboxInv, OutboxTypes
    <3>2. accepts[m]' = accepts[m]  BY <1>2, <2>4 DEF OutboxInv, OutboxTypes
    <3>3. QED BY <2>1, <2>2, <3>1, <3>2
  <2>5. QED BY <2>3, <2>4
<1>8. QED BY <1>5, <1>6, <1>7 DEF OutboxInv, NoneUnasked

\* A loop that picks a row, passes it on to the provider, or dies.
LEMMA LoopKeeps ==
  ASSUME OutboxInv, NEW w \in Workers, Pick(w) \/ Dispatch(w) \/ Crash(w) PROVE OutboxInv'
<1>1. CASE Pick(w)
  <2>1. PICK m \in Messages, i \in DOMAIN queue :
          worker' = [worker EXCEPT ![w] = [at |-> "picked", msg |-> m,
                      attempts |-> row[m].attempts, addr |-> row[m].addr]]
    BY <1>1 DEF Pick
  <2> DEFINE x == [at |-> "picked", msg |-> m, attempts |-> row[m].attempts, addr |-> row[m].addr]
  <2>2. row[m] \in Row  BY RowsFit
  <2>3. x \in Loop /\ x.at \notin Mid  BY <2>2 DEF Loop, Row, Mid
  <2>4. UNCHANGED <<row, asks, accepts>>  BY <1>1 DEF Pick
  <2> HIDE DEF x
  <2>5. worker' = [worker EXCEPT ![w] = x]  BY <2>1 DEF x
  <2>6. QED BY <2>3, <2>4, <2>5, LoopAlone
<1>2. CASE Dispatch(w)
  <2> DEFINE x == [worker[w] EXCEPT !.at = "sending"]
  <2>1. worker[w].at = "leased" /\ worker' = [worker EXCEPT ![w] = x]
        /\ UNCHANGED <<row, asks, accepts>>
    BY <1>2 DEF Dispatch
  <2>2. worker[w] \in [at : {"picked", "leased", "sending"}, msg : Messages, attempts : Nat,
                       addr : {"phone", "deleted"}]
    BY <2>1 DEF OutboxInv, OutboxTypes, Loop, Idle
  <2>3. x \in Loop /\ x.msg = worker[w].msg  BY <2>2 DEF Loop
  <2> HIDE DEF x
  <2>4. worker[w].at \in Mid  BY <2>1 DEF Mid
  <2>5. QED BY <2>1, <2>3, <2>4, LoopAlone
<1>3. CASE Crash(w)
  <2>1. worker' = [worker EXCEPT ![w] = Idle] /\ UNCHANGED <<row, asks, accepts>>
    BY <1>3 DEF Crash
  <2>2. Idle \in Loop /\ Idle.at \notin Mid  BY DEF Idle, Loop, Mid
  <2>3. QED BY <2>1, <2>2, LoopAlone
<1>4. QED BY <1>1, <1>2, <1>3

\* A loop that writes its result. An answer that is surely no acceptance may queue the
\* row again; so does a connection that breaks after the provider took the message.
LEMMA ResultKeeps ==
  ASSUME OutboxInv, NEW w \in Workers,
         Block(w) \/ SendSucceeds(w) \/ SendFails(w) \/ SendTimesOut(w)
  PROVE  OutboxInv'
<1> DEFINE k == worker[w].msg
<1>1. CASE Block(w)
  <2>1. worker[w].at = "leased" /\ UNCHANGED <<asks, accepts>>  BY <1>1 DEF Block
  <2>2. PICK hold \in BOOLEAN : Settle(w, BlockedRow(row[k], hold))  BY <1>1 DEF Block
  <2>3. row[k] \in Row /\ RowIsFit(row[k])  BY <2>1, LoopsFit, RowsFit
  <2>4. RowIsFit(BlockedRow(row[k], hold)) /\ BlockedRow(row[k], hold).status # "none"
    BY <2>3, UpdatesKeepRows
  <2>5. QED BY <2>1, <2>2, <2>4, Settles DEF RowIsFit, Mid
<1>2. CASE SendSucceeds(w)
  <2>1. worker[w].at = "accepted" /\ UNCHANGED <<asks, accepts>>  BY <1>2 DEF SendSucceeds
  <2>2. PICK pid \in {worker[w].pid, 0} : Settle(w, SentRow(row[k], pid))
    BY <1>2 DEF SendSucceeds
  <2>3. row[k] \in Row /\ RowIsFit(row[k]) /\ pid \in Nat  BY <2>1, LoopsFit, RowsFit
  <2>4. RowIsFit(SentRow(row[k], pid)) /\ SentRow(row[k], pid).status = "sent"
    BY <2>3, UpdatesKeepRows
  <2>5. QED BY <2>1, <2>2, <2>4, Settles DEF RowIsFit, Queued
<1>3. CASE SendFails(w)
  <2>1. /\ worker[w].at = "sending" \/ (Drops /\ worker[w].at = "accepted")
        /\ UNCHANGED <<asks, accepts>>
    BY <1>3 DEF SendFails
  <2>2. PICK permanent \in BOOLEAN : Settle(w, FailedRow(row[k], worker[w].attempts, permanent))
    BY <1>3 DEF SendFails
  <2>3. row[k] \in Row /\ RowIsFit(row[k]) /\ worker[w].attempts \in Nat
    BY <2>1, LoopsFit, RowsFit
  <2>4. /\ RowIsFit(FailedRow(row[k], worker[w].attempts, permanent))
        /\ FailedRow(row[k], worker[w].attempts, permanent).status # "none"
    BY <2>3, UpdatesKeepRows
  <2>5. QED BY <2>1, <2>2, <2>4, Settles DEF RowIsFit, Mid
<1>4. CASE SendTimesOut(w)
  <2>1. worker[w].at \in {"sending", "accepted"} /\ UNCHANGED <<asks, accepts>>
        /\ Settle(w, UnknownRow(row[k]))
    BY <1>4 DEF SendTimesOut
  <2>2. row[k] \in Row /\ RowIsFit(row[k])  BY <2>1, LoopsFit, RowsFit
  <2>3. RowIsFit(UnknownRow(row[k])) /\ UnknownRow(row[k]).status = "unknown_outcome"
    BY <2>2, UpdatesKeepRows
  <2>4. QED BY <2>1, <2>3, Settles DEF RowIsFit, Queued
<1>5. QED BY <1>1, <1>2, <1>3, <1>4

\* Time, housekeeping, a report of the provider and the erasure.
LEMMA RowsKeep ==
  ASSUME OutboxInv,
         \/ ReleaseHold \/ ReclaimStalled \/ AnonymiseParticipant
         \/ \E m \in Messages :
              \/ WaitEnds(m) \/ LeaseEnds(m)
              \/ \E pid \in 1..accepts[m], report \in {"sent", "delivered", "read", "failed"} :
                   MarkDelivery(m, pid, report)
  PROVE  OutboxInv'
<1> DEFINE Kept(m) == /\ RowIsFit(row'[m])
                      /\ row'[m].status \in Queued => row[m].status \in Queued
                      /\ row'[m].status # "none" => row[m].status # "none"
<1>1. CASE ReleaseHold
  <2>1. UNCHANGED <<worker, asks, accepts>>  BY <1>1 DEF ReleaseHold
  <2>2. ASSUME NEW m \in Messages PROVE Kept(m)
    BY <1>1, RowsFit DEF ReleaseHold, RowIsFit, Row
  <2>3. row' \in [Messages -> Row]  BY <1>1, <2>2 DEF ReleaseHold, RowIsFit
  <2>4. QED BY <2>1, <2>2, <2>3, RowsAlone
<1>2. CASE ReclaimStalled
  <2>1. UNCHANGED <<worker, asks, accepts>>  BY <1>2 DEF ReclaimStalled
  <2>2. ASSUME NEW m \in Messages PROVE Kept(m)
    BY <1>2, RowsFit DEF ReclaimStalled, Stalled, RowIsFit, Row, Queued, Proven, Failed
  <2>3. row' \in [Messages -> Row]  BY <1>2, <2>2 DEF ReclaimStalled, RowIsFit
  <2>4. QED BY <2>1, <2>2, <2>3, RowsAlone
<1>3. CASE AnonymiseParticipant
  <2>1. UNCHANGED <<worker, asks, accepts>> /\ row' = [m \in Messages |-> ErasedRow(row[m])]
    BY <1>3 DEF AnonymiseParticipant
  <2>2. ASSUME NEW m \in Messages PROVE Kept(m)
    <3>1. RowIsFit(ErasedRow(row[m])) /\ ErasedRow(row[m]).status \in {"none", row[m].status}
      BY RowsFit, ErasureKeepsRows
    <3>2. QED BY <2>1, <3>1 DEF Queued
  <2>3. row' \in [Messages -> Row]  BY <2>1, <2>2 DEF RowIsFit
  <2>4. QED BY <2>1, <2>2, <2>3, RowsAlone
<1>4. ASSUME NEW k \in Messages, WaitEnds(k) \/ LeaseEnds(k) PROVE OutboxInv'
  <2>1. UNCHANGED <<worker, asks, accepts>>  BY <1>4 DEF WaitEnds, LeaseEnds
  <2>2. row[k] \in Row  BY RowsFit
  <2>3. PICK new \in Row : /\ row' = [row EXCEPT ![k] = new]
                           /\ new.status = row[k].status /\ new.pid = row[k].pid
                           /\ new.left = row[k].left
    <3>1. CASE WaitEnds(k)
      <4>1. [row[k] EXCEPT !.wait = "no"] \in Row  BY <2>2 DEF Row
      <4>2. QED BY <3>1, <4>1, <2>2 DEF WaitEnds, Row
    <3>2. CASE LeaseEnds(k)
      <4>1. [row[k] EXCEPT !.lease = "expired"] \in Row  BY <2>2 DEF Row
      <4>2. QED BY <3>2, <4>1, <2>2 DEF LeaseEnds, Row
    <3>3. QED BY <1>4, <3>1, <3>2
  <2>4. row' \in [Messages -> Row]  BY <2>3 DEF OutboxInv, OutboxTypes
  <2>5. ASSUME NEW m \in Messages PROVE Kept(m)
    BY <2>3, <2>4, RowsFit DEF RowIsFit, OutboxInv, OutboxTypes
  <2>6. QED BY <2>1, <2>4, <2>5, RowsAlone
<1>5. ASSUME NEW k \in Messages, NEW pid \in 1..accepts[k],
             NEW report \in {"sent", "delivered", "read", "failed"}, MarkDelivery(k, pid, report)
      PROVE  OutboxInv'
  <2>1. UNCHANGED <<worker, asks, accepts>> /\ row' = [row EXCEPT ![k] = CalledBack(row[k], report)]
    BY <1>5 DEF MarkDelivery
  <2>2. row[k] \in Row /\ RowIsFit(row[k]) /\ row[k].left
    BY <1>5, RowsFit DEF MarkDelivery, RowIsFit, OutboxInv, OutboxTypes
  <2>3. /\ RowIsFit(CalledBack(row[k], report))
        /\ CalledBack(row[k], report).status \in Queued => row[k].status \in Queued
        /\ CalledBack(row[k], report).status = "none" => row[k].status = "none"
    BY <2>2, ReportsKeepRows
  <2>4. row' \in [Messages -> Row]  BY <2>1, <2>3 DEF OutboxInv, OutboxTypes, RowIsFit
  <2>5. row[k].status # "none"  BY <1>5 DEF MarkDelivery
  <2>6. ASSUME NEW m \in Messages PROVE Kept(m)
    BY <2>1, <2>3, <2>5, RowsFit DEF OutboxInv, OutboxTypes
  <2>7. QED BY <2>1, <2>4, <2>6, RowsAlone
<1>6. QED BY <1>1, <1>2, <1>3, <1>4, <1>5

LEMMA OutboxSteps == OutboxInv /\ [Next]_vars => OutboxInv'
<1> SUFFICES ASSUME OutboxInv, [Next]_vars PROVE OutboxInv'  OBVIOUS
<1>1. ASSUME NEW w \in Workers, Work(w) \/ Crash(w) PROVE OutboxInv'
  BY <1>1, LoopKeeps, ResultKeeps, LeaseKeeps, AcceptKeeps DEF Work
<1>2. ASSUME NEW m \in Messages, NEW hold \in BOOLEAN, Enqueue(m, hold) PROVE OutboxInv'
  BY <1>2, EnqueueKeeps
<1>3. ASSUME NEW m \in Messages, Retry(m) PROVE OutboxInv'  BY <1>3, RetryKeeps
<1>4. CASE UNCHANGED <<row, worker, asks, accepts>>
  <2>1. \A m \in Messages : Holding(m)' = Holding(m) /\ Waiting(m)' = Waiting(m)
    BY <1>4 DEF Holding, Waiting
  <2>2. QED BY <1>4, <2>1 DEF OutboxInv, OutboxTypes, NoneUnasked, RowsWereAsked, KnownHasLeft
<1>5. QED
  BY <1>1, <1>2, <1>3, <1>4, RowsKeep DEF Next, vars, ChangeGate, WithdrawParticipant

LEMMA OutboxKeepsInv == Spec => []OutboxInv
BY OutboxStarts, OutboxSteps, PTL DEF Spec

\* ---- what follows
\* Whatever crashes, late or lost answers, expired leases, other loops, callbacks, an
\* erasure and an operator do, the provider takes a message at most once per request,
\* for any number of loops and requests (outbox.mjs:85-129, 162-173). It is so as long as
\* no connection breaks after the provider took the message: the transport reports such
\* a break as a failure that is worth repeating (cloud-api.mjs:74-98).
THEOREM AcceptedOnce == ~Drops => (Spec => []AcceptedOncePerRequest)
<1> SUFFICES ASSUME ~Drops PROVE Spec => []AcceptedOncePerRequest  OBVIOUS
<1>1. OutboxInv => AcceptedOncePerRequest
  <2> SUFFICES ASSUME OutboxInv, NEW m \in Messages PROVE accepts[m] <= asks[m]
    BY DEF AcceptedOncePerRequest
  <2>1. accepts[m] + Cardinality(Holding(m)) + Waiting(m) <= asks[m]  BY DEF OutboxInv, NoneUnasked
  <2>2. accepts[m] \in Nat /\ asks[m] \in Nat /\ Waiting(m) \in {0, 1}
    BY DEF OutboxInv, OutboxTypes, Waiting
  <2>3. QED BY <2>1, <2>2, HoldingIsFinite
<1>2. QED BY <1>1, OutboxKeepsInv, PTL

\* While no worker awaits an answer for its message, a proven row stands under every
\* step: callbacks keep what is proven, an operator can only retry what failed, a key
\* that was enqueued is not enqueued again, and an erasure keeps what has left
\* (outbox.mjs:56-84, 139-173; services.mjs:465-487).  A worker that does await one, after
\* a retry or past its lease, still writes its outcome over the row by id (outbox.mjs:109,
\* 115): that is outside of the theorem.
THEOREM ProvenRowsStand == Spec => DeliveryStands
<1> DEFINE Stands(m) == row[m].status \in Proven /\ ~InFlight(m) =>
                          /\ row'[m].status \in Proven
                          /\ row[m].status = "read" => row'[m].status = "read"
<1>1. OutboxInv /\ [Next]_vars => [\A m \in Messages : Stands(m)]_vars
  <2> SUFFICES ASSUME OutboxInv, Next, NEW m \in Messages, row[m].status \in Proven, ~InFlight(m)
               PROVE  /\ row'[m].status \in Proven
                      /\ row[m].status = "read" => row'[m].status = "read"
    OBVIOUS
  <2>1. row[m].status \in {"delivered", "read"} /\ row[m] \in Row /\ RowIsFit(row[m])
        /\ row[m].left /\ asks[m] # 0 /\ row \in [Messages -> Row]
    BY RowsFit DEF Proven, RowIsFit, OutboxInv, OutboxTypes, RowsWereAsked
  <2>2. ASSUME row'[m] = row[m] \/ row'[m].status = row[m].status PROVE Stands(m)  BY <2>2
  <2>3. ASSUME NEW w \in Workers, Work(w) \/ Crash(w) PROVE row'[m] = row[m]
    <3>1. worker[w].at \in {"leased", "sending", "accepted"} => worker[w].msg # m
      BY DEF InFlight, At
    <3>2. ASSUME NEW outcome, Settle(w, outcome), worker[w].msg # m PROVE row'[m] = row[m]
      BY <2>1, <3>2 DEF Settle
    <3>3. CASE Lease(w)
      <4>1. Selectable(row[m]) = FALSE  BY <2>1 DEF Selectable, Queued
      <4>2. QED BY <2>1, <3>3, <4>1 DEF Lease
    <3>4. CASE Block(w)  BY <3>1, <3>2, <3>4 DEF Block
    <3>5. CASE SendSucceeds(w)  BY <3>1, <3>2, <3>5 DEF SendSucceeds
    <3>6. CASE SendFails(w)  BY <3>1, <3>2, <3>6 DEF SendFails
    <3>7. CASE SendTimesOut(w)  BY <3>1, <3>2, <3>7 DEF SendTimesOut
    <3>8. CASE Pick(w) \/ Dispatch(w) \/ ProviderAccepts(w) \/ Crash(w)
      BY <3>8 DEF Pick, Dispatch, ProviderAccepts, Crash
    <3>9. QED BY <2>3, <3>3, <3>4, <3>5, <3>6, <3>7, <3>8 DEF Work
  <2>4. ASSUME NEW k \in Messages, NEW hold \in BOOLEAN, Enqueue(k, hold) PROVE row'[m] = row[m]
    BY <2>1, <2>4 DEF Enqueue
  <2>5. ASSUME NEW k \in Messages, WaitEnds(k) \/ LeaseEnds(k) PROVE row'[m].status = row[m].status
    BY <2>1, <2>5 DEF WaitEnds, LeaseEnds, Row
  <2>6. ASSUME NEW k \in Messages, Retry(k) PROVE row'[m] = row[m]
    BY <2>1, <2>6 DEF Retry, Failed
  <2>7. ASSUME NEW k \in Messages, NEW pid \in 1..accepts[k],
               NEW report \in {"sent", "delivered", "read", "failed"}, MarkDelivery(k, pid, report)
        PROVE  Stands(m)
    <3>1. row' = [row EXCEPT ![k] = CalledBack(row[k], report)]  BY <2>7 DEF MarkDelivery
    <3>2. /\ row[m].status \in Proven => CalledBack(row[m], report).status \in Proven
          /\ row[m].status = "read" => CalledBack(row[m], report).status = "read"
      BY <2>1, ReportsKeepRows
    <3>3. QED BY <2>1, <3>1, <3>2
  <2>8. ASSUME ReleaseHold \/ ReclaimStalled PROVE row'[m] = row[m]
    BY <2>1, <2>8 DEF ReleaseHold, ReclaimStalled, Stalled
  <2>9. ASSUME AnonymiseParticipant PROVE row'[m].status = row[m].status
    BY <2>1, <2>9 DEF AnonymiseParticipant, ErasedRow, Row
  <2>10. ASSUME (\E g \in {"open", "paused", "window", "barred"} : ChangeGate(g))
                \/ WithdrawParticipant
         PROVE  row'[m] = row[m]
    BY <2>10 DEF ChangeGate, WithdrawParticipant
  <2>11. QED
    BY <2>1, <2>2, <2>3, <2>4, <2>5, <2>6, <2>7, <2>8, <2>9, <2>10 DEF Next
<1>2. QED BY <1>1, OutboxKeepsInv, PTL DEF Spec, DeliveryStands

\* Where a row stands that did not come to an end: it is leased to a loop, or its lease
\* ended and the housekeeping will find it, or it is queued and in the order of the rows.
Ordered(m) == \E i \in DOMAIN queue : queue[i] = m
Moves(m) ==
  \/ row[m].status = "sending" /\ row[m].lease # "none"
  \/ row[m].status \in Queued /\ Ordered(m)
NothingStranded == \A m \in Messages : Unsettled(m) => Moves(m)

\* It is inductive as a fact about each row and one about the order.
RowMoves(r) == r.status = "sending" /\ r.addr = "phone" => r.lease # "none"
AllOrdered == queue \in Seq(Messages) /\ \A m \in Messages : asks[m] > 0 => Ordered(m)
RowsMove == \A m \in Messages : RowMoves(row[m])

LEMMA OrderStep == OutboxInv /\ AllOrdered /\ [Next]_vars => AllOrdered'
<1> SUFFICES ASSUME OutboxInv, AllOrdered, [Next]_vars PROVE AllOrdered'  OBVIOUS
<1>1. ASSUME NEW k \in Messages, NEW hold \in BOOLEAN, Enqueue(k, hold) PROVE AllOrdered'
  <2>1. queue' = Append(queue, k) /\ asks' = [asks EXCEPT ![k] = 1]  BY <1>1 DEF Enqueue
  <2>2. queue \in Seq(Messages) /\ asks \in [Messages -> Nat]
    BY DEF AllOrdered, OutboxInv, OutboxTypes
  <2>3. /\ queue' \in Seq(Messages) /\ DOMAIN queue \subseteq DOMAIN queue'
        /\ \A i \in DOMAIN queue : queue'[i] = queue[i]
        /\ Len(queue) + 1 \in DOMAIN queue' /\ queue'[Len(queue) + 1] = k
    BY <2>1, <2>2
  <2>4. ASSUME NEW m \in Messages, asks'[m] > 0 PROVE Ordered(m)'
    <3>1. CASE m = k  BY <2>3, <3>1 DEF Ordered
    <3>2. CASE m # k
      <4>1. asks[m] > 0  BY <2>1, <2>2, <2>4, <3>2
      <4>2. PICK i \in DOMAIN queue : queue[i] = m  BY <4>1 DEF AllOrdered, Ordered
      <4>3. QED BY <2>3, <4>2 DEF Ordered
    <3>3. QED BY <3>1, <3>2
  <2>5. QED BY <2>3, <2>4 DEF AllOrdered
<1>2. ASSUME NEW k \in Messages, Retry(k) PROVE AllOrdered'
  <2>1. asks' = [asks EXCEPT ![k] = @ + 1] /\ UNCHANGED queue  BY <1>2 DEF Retry
  <2>2. asks[k] > 0  BY <1>2 DEF Retry, Failed, OutboxInv, RowsWereAsked
  <2>3. \A m \in Messages : asks'[m] > 0 => asks[m] > 0
    BY <2>1, <2>2 DEF OutboxInv, OutboxTypes
  <2>4. QED BY <2>1, <2>3 DEF AllOrdered, Ordered
<1>3. CASE UNCHANGED <<queue, asks>>  BY <1>3 DEF AllOrdered, Ordered
<1>4. ASSUME NEW w \in Workers, Work(w) \/ Crash(w) PROVE UNCHANGED <<queue, asks>>
  BY <1>4 DEF Work, Crash, Pick, Lease, Block, Dispatch, ProviderAccepts, SendSucceeds,
     SendFails, SendTimesOut
<1>5. ASSUME \/ ReleaseHold \/ ReclaimStalled \/ WithdrawParticipant \/ AnonymiseParticipant
             \/ \E g \in {"open", "paused", "window", "barred"} : ChangeGate(g)
             \/ \E m \in Messages :
                  \/ WaitEnds(m) \/ LeaseEnds(m)
                  \/ \E pid \in 1..accepts[m], report \in {"sent", "delivered", "read", "failed"} :
                       MarkDelivery(m, pid, report)
      PROVE  UNCHANGED <<queue, asks>>
  BY <1>5 DEF ReleaseHold, ReclaimStalled, WithdrawParticipant, AnonymiseParticipant,
     ChangeGate, WaitEnds, LeaseEnds, MarkDelivery
<1>6. QED BY <1>1, <1>2, <1>3, <1>4, <1>5 DEF Next, vars

\* Every result ends the row or queues it; only the lease sets a row to sending.
LEMMA LoopsMoveRows ==
  ASSUME OutboxInv, RowsMove, NEW w \in Workers, Work(w) \/ Crash(w)
  PROVE  RowsMove'
<1>0. row \in [Messages -> Row]  BY DEF OutboxInv, OutboxTypes
<1> SUFFICES ASSUME NEW m \in Messages PROVE RowMoves(row'[m])  BY DEF RowsMove
<1>1. ASSUME row'[m] = row[m] PROVE RowMoves(row'[m])  BY <1>1 DEF RowsMove
<1>2. ASSUME NEW outcome, Settle(w, outcome), worker[w].msg = m => RowMoves(outcome)
      PROVE  RowMoves(row'[m])
  <2>1. row'[m] = row[m] \/ (worker[w].msg = m /\ row'[m] = outcome)  BY <1>0, <1>2 DEF Settle
  <2>2. QED BY <1>1, <1>2, <2>1
<1>3. worker[w].msg = m => row[worker[w].msg] \in Row  BY <1>0
<1>4. CASE Lease(w)
  <2> DEFINE new == [row[m] EXCEPT !.status = "sending", !.lease = "live", !.attempts = OneMore(@)]
  <2>1. row[m] \in Row  BY <1>0
  <2>2. RowMoves(new)  BY <2>1 DEF RowMoves, Row
  <2>3. row'[m] = row[m] \/ row'[m] = new  BY <1>0, <1>4 DEF Lease
  <2>4. QED BY <1>1, <2>2, <2>3
<1>5. CASE Block(w)
  <2>1. PICK hold \in BOOLEAN : Settle(w, BlockedRow(row[worker[w].msg], hold))
    BY <1>5 DEF Block
  <2>2. worker[w].msg = m => RowMoves(BlockedRow(row[worker[w].msg], hold))
    BY <1>3 DEF RowMoves, BlockedRow, Row
  <2>3. QED BY <1>2, <2>1, <2>2
<1>6. CASE SendSucceeds(w)
  <2>1. PICK pid \in {worker[w].pid, 0} : Settle(w, SentRow(row[worker[w].msg], pid))
    BY <1>6 DEF SendSucceeds
  <2>2. worker[w].msg = m => RowMoves(SentRow(row[worker[w].msg], pid))
    BY <1>3 DEF RowMoves, SentRow, Row
  <2>3. QED BY <1>2, <2>1, <2>2
<1>7. CASE SendFails(w)
  <2>1. PICK permanent \in BOOLEAN :
          Settle(w, FailedRow(row[worker[w].msg], worker[w].attempts, permanent))
    BY <1>7 DEF SendFails
  <2>2. worker[w].msg = m => RowMoves(FailedRow(row[worker[w].msg], worker[w].attempts, permanent))
    BY <1>3 DEF RowMoves, FailedRow, Row
  <2>3. QED BY <1>2, <2>1, <2>2
<1>8. CASE SendTimesOut(w)
  <2>1. Settle(w, UnknownRow(row[worker[w].msg]))  BY <1>8 DEF SendTimesOut
  <2>2. worker[w].msg = m => RowMoves(UnknownRow(row[worker[w].msg]))
    BY <1>3 DEF RowMoves, UnknownRow, Row
  <2>3. QED BY <1>2, <2>1, <2>2
<1>9. CASE Pick(w) \/ Dispatch(w) \/ ProviderAccepts(w) \/ Crash(w)
  BY <1>1, <1>9 DEF Pick, Dispatch, ProviderAccepts, Crash
<1>10. QED BY <1>4, <1>5, <1>6, <1>7, <1>8, <1>9 DEF Work

LEMMA OthersMoveRows ==
  ASSUME OutboxInv, RowsMove,
         \/ ReleaseHold \/ ReclaimStalled \/ AnonymiseParticipant
         \/ \E m \in Messages :
              \/ \E hold \in BOOLEAN : Enqueue(m, hold)
              \/ WaitEnds(m) \/ LeaseEnds(m) \/ Retry(m)
              \/ \E pid \in 1..accepts[m], report \in {"sent", "delivered", "read", "failed"} :
                   MarkDelivery(m, pid, report)
  PROVE  RowsMove'
<1> SUFFICES ASSUME NEW m \in Messages PROVE RowMoves(row'[m])  BY DEF RowsMove
<1>0. row \in [Messages -> Row] /\ row[m] \in Row /\ RowMoves(row[m])
  BY DEF OutboxInv, OutboxTypes, RowsMove
<1>1. CASE ReleaseHold
  <2>1. row'[m] \in {row[m], [row[m] EXCEPT !.wait = "no"]}  BY <1>1 DEF ReleaseHold
  <2>2. QED BY <1>0, <2>1 DEF RowMoves, Row
<1>2. CASE ReclaimStalled
  <2>1. row'[m] \in {row[m], [row[m] EXCEPT !.status = "unknown_outcome", !.lease = "none"]}
    BY <1>2 DEF ReclaimStalled
  <2>2. QED BY <1>0, <2>1 DEF RowMoves, Row
<1>3. CASE AnonymiseParticipant
  <2>1. row'[m] = ErasedRow(row[m])  BY <1>3 DEF AnonymiseParticipant
  <2>2. QED BY <1>0, <2>1 DEF RowMoves, Row, ErasedRow, NoRow
<1>4. ASSUME NEW k \in Messages, NEW hold \in BOOLEAN, Enqueue(k, hold) PROVE RowMoves(row'[m])
  <2>1. row'[m] = row[m] \/ row'[m].status = "pending"  BY <1>0, <1>4 DEF Enqueue, NoRow
  <2>2. QED BY <1>0, <2>1 DEF RowMoves
<1>5. ASSUME NEW k \in Messages, WaitEnds(k) \/ LeaseEnds(k) PROVE RowMoves(row'[m])
  <2>1. row'[m] \in {row[m], [row[m] EXCEPT !.wait = "no"], [row[m] EXCEPT !.lease = "expired"]}
    BY <1>0, <1>5 DEF WaitEnds, LeaseEnds
  <2>2. QED BY <1>0, <2>1 DEF RowMoves, Row
<1>6. ASSUME NEW k \in Messages, Retry(k) PROVE RowMoves(row'[m])
  <2>1. row'[m] \in {row[m], RetriedRow(row[m])}  BY <1>0, <1>6 DEF Retry
  <2>2. QED BY <1>0, <2>1 DEF RowMoves, Row, RetriedRow
<1>7. ASSUME NEW k \in Messages, NEW pid \in 1..accepts[k],
             NEW report \in {"sent", "delivered", "read", "failed"}, MarkDelivery(k, pid, report)
      PROVE  RowMoves(row'[m])
  <2>1. row'[m] \in {row[m], CalledBack(row[m], report)}  BY <1>0, <1>7 DEF MarkDelivery
  <2>2. RowMoves(CalledBack(row[m], report))  BY <1>0 DEF RowMoves, Row, CalledBack, Proven
  <2>3. QED BY <1>0, <2>1, <2>2
<1>8. QED BY <1>1, <1>2, <1>3, <1>4, <1>5, <1>6, <1>7

LEMMA MoveStep == OutboxInv /\ RowsMove /\ [Next]_vars => RowsMove'
<1> SUFFICES ASSUME OutboxInv, RowsMove, [Next]_vars PROVE RowsMove'  OBVIOUS
<1>1. ASSUME NEW w \in Workers, Work(w) \/ Crash(w) PROVE RowsMove'  BY <1>1, LoopsMoveRows
<1>2. CASE UNCHANGED row  BY <1>2 DEF RowsMove
<1>3. ASSUME WithdrawParticipant \/ \E g \in {"open", "paused", "window", "barred"} : ChangeGate(g)
      PROVE  UNCHANGED row
  BY <1>3 DEF WithdrawParticipant, ChangeGate
<1>4. QED BY <1>1, <1>2, <1>3, OthersMoveRows DEF Next, vars

\* No row is left behind: one that is neither accepted nor refused nor shown to an
\* operator is queued and found by the selector, or it is being sent under a lease, which
\* runs out into the sight of the housekeeping. No crash, late answer, second loop,
\* callback or Retry takes a row out of both; an erasure that meets a message in flight
\* does, to the rows it renames (outbox.mjs:52-54, 85-129).
THEOREM RowsAreNeverStranded == Spec => []NothingStranded
<1>1. Init => AllOrdered /\ RowsMove
  <2> SUFFICES ASSUME Init PROVE AllOrdered /\ RowsMove  OBVIOUS
  <2>1. AllOrdered  BY DEF Init, AllOrdered
  <2>2. RowsMove  BY DEF Init, RowsMove, RowMoves, NoRow
  <2>3. QED BY <2>1, <2>2
<1>2. OutboxInv /\ AllOrdered /\ RowsMove => NothingStranded
  <2> SUFFICES ASSUME OutboxInv, AllOrdered, RowsMove, NEW m \in Messages, Unsettled(m)
               PROVE  Moves(m)
    BY DEF NothingStranded
  <2>1. CASE row[m].status = "sending"
    BY <2>1 DEF Unsettled, RowsMove, RowMoves, Moves
  <2>2. CASE row[m].status \in Queued
    BY <2>2 DEF Queued, OutboxInv, RowsWereAsked, AllOrdered, Moves
  <2>3. QED BY <2>1, <2>2 DEF Unsettled
<1>3. QED BY <1>1, <1>2, OutboxKeepsInv, OrderStep, MoveStep, PTL DEF Spec

\* What a row tells the console of the provider is true: a row that is sent, delivered or
\* read, has a time of sending or an id, stands for a message that the provider took.
SaysItLeft(r) == r.left \/ r.pid # 0 \/ r.status \in {"sent"} \cup Proven
LeftWasAccepted == \A m \in Messages : SaysItLeft(row[m]) => accepts[m] > 0

\* It is inductive with: a loop that has the answer has it of a message that was taken.
AnswersAreTrue ==
  \A w \in Workers : worker[w].at = "accepted" => accepts[worker[w].msg] > 0
TruthInv == LeftWasAccepted /\ AnswersAreTrue

\* Acceptances are never taken back.
Accepted == accepts' \in [Messages -> Nat] /\ \A m \in Messages : accepts'[m] >= accepts[m]

LEMMA StaysAccepted ==
  ASSUME OutboxInv, Accepted, NEW m \in Messages, accepts[m] > 0 PROVE accepts'[m] > 0
<1>1. accepts[m] \in Nat /\ accepts'[m] \in Nat /\ accepts'[m] >= accepts[m]
  BY DEF OutboxInv, OutboxTypes, Accepted
<1>2. QED BY <1>1

LEMMA SameAccepts == OutboxInv /\ UNCHANGED accepts => Accepted
BY DEF OutboxInv, OutboxTypes, Accepted

\* A row is written that says no more than it did, or of a message that was taken.
LEMMA TrueRows ==
  ASSUME OutboxInv, TruthInv, Accepted,
         \A m \in Messages :
           SaysItLeft(row'[m]) => SaysItLeft(row[m]) \/ accepts'[m] > 0
  PROVE  LeftWasAccepted'
BY StaysAccepted DEF TruthInv, LeftWasAccepted

LEMMA TrueLoops ==
  ASSUME OutboxInv, TruthInv, Accepted, NEW w \in Workers, NEW loop,
         worker' = [worker EXCEPT ![w] = loop],
         loop.at = "accepted" => accepts'[loop.msg] > 0
  PROVE  AnswersAreTrue'
<1> SUFFICES ASSUME NEW v \in Workers, worker'[v].at = "accepted"
             PROVE  accepts'[worker'[v].msg] > 0
  BY DEF AnswersAreTrue
<1>1. worker \in [Workers -> Loop]  BY DEF OutboxInv, OutboxTypes
<1>2. CASE v = w  BY <1>1, <1>2
<1>3. CASE v # w
  <2>1. worker'[v] = worker[v]  BY <1>1, <1>3
  <2>2. worker[v].at # "idle" /\ accepts[worker[v].msg] > 0
    BY <2>1 DEF TruthInv, AnswersAreTrue
  <2>3. worker[v].msg \in Messages  BY <2>2, LoopsFit
  <2>4. QED BY <2>1, <2>2, <2>3, StaysAccepted
<1>4. QED BY <1>2, <1>3

LEMMA LoopsAreTrue ==
  ASSUME OutboxInv, TruthInv, NEW w \in Workers, Work(w) \/ Crash(w) PROVE TruthInv'
<1>0. row \in [Messages -> Row] /\ accepts \in [Messages -> Nat]
  BY DEF OutboxInv, OutboxTypes
<1>1. ASSUME UNCHANGED <<row, accepts>>, NEW loop, worker' = [worker EXCEPT ![w] = loop],
             loop.at # "accepted"
      PROVE  TruthInv'
  <2>1. Accepted  BY <1>1, SameAccepts
  <2>2. QED BY <1>1, <2>1, TrueRows, TrueLoops DEF TruthInv
<1>2. ASSUME UNCHANGED accepts, NEW outcome, Settle(w, outcome), worker[w].at # "idle",
             worker[w].msg \in Messages =>
               (SaysItLeft(outcome) => SaysItLeft(row[worker[w].msg]) \/ worker[w].at = "accepted")
      PROVE  TruthInv'
  <2>1. Accepted  BY <1>2, SameAccepts
  <2>2. AnswersAreTrue'
    <3>1. worker' = [worker EXCEPT ![w] = Idle] /\ Idle.at # "accepted"
      BY <1>2 DEF Settle, Idle
    <3>2. QED BY <2>1, <3>1, TrueLoops
  <2>3. ASSUME NEW m \in Messages, SaysItLeft(row'[m])
        PROVE  SaysItLeft(row[m]) \/ accepts'[m] > 0
    <3>1. row'[m] = row[m] \/ (worker[w].msg = m /\ row'[m] = outcome)
      BY <1>0, <1>2 DEF Settle
    <3>2. CASE row'[m] = row[m]  BY <2>3, <3>2
    <3>3. CASE worker[w].msg = m /\ row'[m] = outcome
      BY <1>2, <2>3, <3>3 DEF TruthInv, AnswersAreTrue
    <3>4. QED BY <3>1, <3>2, <3>3
  <2>4. QED BY <2>1, <2>2, <2>3, TrueRows DEF TruthInv
<1>3. PICK k : k = worker[w].msg  OBVIOUS
<1>4. k \in Messages => row[k] \in Row  BY <1>0
<1>5. CASE Pick(w)
  <2>1. PICK m \in Messages : worker' = [worker EXCEPT ![w] =
          [at |-> "picked", msg |-> m, attempts |-> row[m].attempts, addr |-> row[m].addr]]
    BY <1>5 DEF Pick
  <2> DEFINE loop == [at |-> "picked", msg |-> m, attempts |-> row[m].attempts,
                      addr |-> row[m].addr]
  <2>2. loop.at # "accepted" /\ UNCHANGED <<row, accepts>>  BY <1>5 DEF Pick
  <2>3. worker' = [worker EXCEPT ![w] = loop]  BY <2>1
  <2> HIDE DEF loop
  <2>4. QED BY <1>1, <2>2, <2>3
<1>6. CASE Dispatch(w)
  <2> DEFINE loop == [worker[w] EXCEPT !.at = "sending"]
  <2>1. worker[w].at = "leased" /\ worker' = [worker EXCEPT ![w] = loop]
        /\ UNCHANGED <<row, accepts>>
    BY <1>6 DEF Dispatch
  <2>2. worker[w] \in [at : {"picked", "leased", "sending"}, msg : Messages, attempts : Nat,
                       addr : {"phone", "deleted"}]
    BY <2>1 DEF OutboxInv, OutboxTypes, Loop, Idle
  <2>3. loop.at = "sending"  BY <2>2
  <2> HIDE DEF loop
  <2>4. QED BY <1>1, <2>1, <2>3
<1>7. CASE Crash(w)
  <2>1. Idle.at # "accepted"  BY DEF Idle
  <2>2. QED BY <1>1, <1>7, <2>1 DEF Crash
<1>8. CASE Lease(w)
  <2> DEFINE loop == [worker[w] EXCEPT !.at = "leased"]
             new == [row[k] EXCEPT !.status = "sending", !.lease = "live", !.attempts = OneMore(@)]
  <2>1. worker[w].at = "picked"  BY <1>8 DEF Lease
  <2>2. k \in Messages  BY <1>3, <2>1, LoopsFit
  <2>3. worker[w] \in [at : {"picked", "leased", "sending"}, msg : Messages, attempts : Nat,
                       addr : {"phone", "deleted"}]
    BY <2>1 DEF OutboxInv, OutboxTypes, Loop, Idle
  <2>4. loop.at = "leased"  BY <2>3
  <2>5. SaysItLeft(new) => SaysItLeft(row[k])  BY <1>4, <2>2 DEF SaysItLeft, Row, Proven
  <2>6. \/ row' = [row EXCEPT ![k] = new] /\ worker' = [worker EXCEPT ![w] = loop]
        \/ UNCHANGED row /\ worker' = [worker EXCEPT ![w] = Idle]
    BY <1>3, <1>8 DEF Lease
  <2>7. Idle.at # "accepted" /\ UNCHANGED accepts  BY <1>8 DEF Lease, Idle
  <2> HIDE DEF loop, new
  <2>8. Accepted  BY <2>7, SameAccepts
  <2>9. AnswersAreTrue'  BY <2>4, <2>6, <2>7, <2>8, TrueLoops
  <2>10. \A m \in Messages : SaysItLeft(row'[m]) => SaysItLeft(row[m])
    BY <1>0, <2>5, <2>6
  <2>11. QED BY <2>8, <2>9, <2>10, TrueRows DEF TruthInv
<1>9. CASE ProviderAccepts(w)
  <2>1. worker[w].at = "sending" /\ UNCHANGED row  BY <1>9 DEF ProviderAccepts
  <2>2. k \in Messages  BY <1>3, <2>1, LoopsFit
  <2>3. accepts' = [accepts EXCEPT ![k] = @ + 1]  BY <1>3, <1>9 DEF ProviderAccepts
  <2>4. Accepted /\ accepts'[k] > 0  BY <1>0, <2>2, <2>3 DEF Accepted
  <2> DEFINE loop == [at |-> "accepted", msg |-> k, attempts |-> worker[w].attempts,
                      addr |-> worker[w].addr, pid |-> accepts[k] + 1]
  <2>5. worker' = [worker EXCEPT ![w] = loop] /\ loop.msg = k
    BY <1>3, <1>9 DEF ProviderAccepts
  <2> HIDE DEF loop
  <2>6. AnswersAreTrue'  BY <2>4, <2>5, TrueLoops
  <2>7. LeftWasAccepted'  BY <2>1, <2>4, TrueRows
  <2>8. QED BY <2>6, <2>7 DEF TruthInv
<1>10. CASE Block(w)
  <2>1. PICK hold \in BOOLEAN : Settle(w, BlockedRow(row[k], hold))  BY <1>3, <1>10 DEF Block
  <2>2. k \in Messages => (SaysItLeft(BlockedRow(row[k], hold)) => SaysItLeft(row[k]))
    BY <1>4 DEF SaysItLeft, BlockedRow, Row, Proven
  <2>3. worker[w].at # "idle" /\ UNCHANGED accepts  BY <1>10 DEF Block
  <2>4. QED BY <1>2, <1>3, <2>1, <2>2, <2>3
<1>11. CASE SendSucceeds(w)
  <2>1. PICK pid : Settle(w, SentRow(row[k], pid))  BY <1>3, <1>11 DEF SendSucceeds
  <2>2. worker[w].at = "accepted" /\ UNCHANGED accepts  BY <1>11 DEF SendSucceeds
  <2>3. QED BY <1>2, <1>3, <2>1, <2>2
<1>12. CASE SendFails(w)
  <2>1. PICK permanent \in BOOLEAN : Settle(w, FailedRow(row[k], worker[w].attempts, permanent))
    BY <1>3, <1>12 DEF SendFails
  <2>2. k \in Messages =>
          (SaysItLeft(FailedRow(row[k], worker[w].attempts, permanent)) => SaysItLeft(row[k]))
    BY <1>4 DEF SaysItLeft, FailedRow, Row, Proven
  <2>3. worker[w].at # "idle" /\ UNCHANGED accepts  BY <1>12 DEF SendFails
  <2>4. QED BY <1>2, <1>3, <2>1, <2>2, <2>3
<1>13. CASE SendTimesOut(w)
  <2>1. Settle(w, UnknownRow(row[k]))  BY <1>3, <1>13 DEF SendTimesOut
  <2>2. k \in Messages => (SaysItLeft(UnknownRow(row[k])) => SaysItLeft(row[k]))
    BY <1>4 DEF SaysItLeft, UnknownRow, Row, Proven
  <2>3. worker[w].at # "idle" /\ UNCHANGED accepts  BY <1>13 DEF SendTimesOut
  <2>4. QED BY <1>2, <1>3, <2>1, <2>2, <2>3
<1>14. QED
  BY <1>5, <1>6, <1>7, <1>8, <1>9, <1>10, <1>11, <1>12, <1>13 DEF Work

LEMMA OthersAreTrue ==
  ASSUME OutboxInv, TruthInv, UNCHANGED <<worker, accepts>>,
         \/ ReleaseHold \/ ReclaimStalled \/ AnonymiseParticipant \/ UNCHANGED row
         \/ \E m \in Messages :
              \/ \E hold \in BOOLEAN : Enqueue(m, hold)
              \/ WaitEnds(m) \/ LeaseEnds(m) \/ Retry(m)
              \/ \E pid \in 1..accepts[m], report \in {"sent", "delivered", "read", "failed"} :
                   MarkDelivery(m, pid, report)
  PROVE  TruthInv'
<1>0. Accepted /\ AnswersAreTrue'  BY SameAccepts DEF TruthInv, AnswersAreTrue
<1> SUFFICES ASSUME NEW m \in Messages, SaysItLeft(row'[m])
             PROVE  SaysItLeft(row[m]) \/ accepts'[m] > 0
  BY <1>0, TrueRows DEF TruthInv
<1>1. row \in [Messages -> Row] /\ row[m] \in Row  BY DEF OutboxInv, OutboxTypes
<1>2. CASE UNCHANGED row  BY <1>2
<1>3. CASE ReleaseHold
  <2>1. row'[m] \in {row[m], [row[m] EXCEPT !.wait = "no"]}  BY <1>3 DEF ReleaseHold
  <2>2. QED BY <1>1, <2>1 DEF SaysItLeft, Row, Proven
<1>4. CASE ReclaimStalled
  <2>1. row'[m] \in {row[m], [row[m] EXCEPT !.status = "unknown_outcome", !.lease = "none"]}
    BY <1>4 DEF ReclaimStalled
  <2>2. QED BY <1>1, <2>1 DEF SaysItLeft, Row, Proven
<1>5. CASE AnonymiseParticipant
  <2>1. row'[m] = ErasedRow(row[m])  BY <1>5 DEF AnonymiseParticipant
  <2>2. QED BY <1>1, <2>1 DEF SaysItLeft, Row, ErasedRow, NoRow, Proven
<1>6. ASSUME NEW k \in Messages, NEW hold \in BOOLEAN, Enqueue(k, hold)
      PROVE  SaysItLeft(row[m])
  <2> DEFINE new == [NoRow EXCEPT !.status = "pending", !.wait = IF hold THEN "held" ELSE "no"]
  <2>1. row'[m] = row[m] \/ row'[m] = new  BY <1>1, <1>6 DEF Enqueue
  <2>2. ~SaysItLeft(new)  BY DEF SaysItLeft, NoRow, Proven
  <2> HIDE DEF new
  <2>3. QED BY <2>1, <2>2
<1>7. ASSUME NEW k \in Messages, WaitEnds(k) \/ LeaseEnds(k) PROVE SaysItLeft(row[m])
  <2>1. row'[m] \in {row[m], [row[m] EXCEPT !.wait = "no"], [row[m] EXCEPT !.lease = "expired"]}
    BY <1>1, <1>7 DEF WaitEnds, LeaseEnds
  <2>2. QED BY <1>1, <2>1 DEF SaysItLeft, Row, Proven
<1>8. ASSUME NEW k \in Messages, Retry(k) PROVE SaysItLeft(row[m])
  <2>1. row'[m] \in {row[m], RetriedRow(row[m])}  BY <1>1, <1>8 DEF Retry
  <2>2. QED BY <1>1, <2>1 DEF SaysItLeft, Row, RetriedRow, Proven
<1>9. ASSUME NEW k \in Messages, NEW pid \in 1..accepts[k],
             NEW report \in {"sent", "delivered", "read", "failed"}, MarkDelivery(k, pid, report)
      PROVE  SaysItLeft(row[m]) \/ accepts'[m] > 0
  <2>1. row'[m] = row[m] \/ m = k  BY <1>1, <1>9 DEF MarkDelivery
  <2>2. accepts[k] \in Nat /\ accepts[k] > 0  BY <1>9 DEF OutboxInv, OutboxTypes
  <2>3. QED BY <2>1, <2>2
<1>10. QED BY <1>2, <1>3, <1>4, <1>5, <1>6, <1>7, <1>8, <1>9

\* A row never says that a message left which the provider did not take: whichever loop,
\* late answer, callback or operator wrote it last, across crashes, leases that ended,
\* retries and an erasure, and also where connections break after the provider took a
\* message (outbox.mjs:85-173).
THEOREM SentRowsWereAccepted == Spec => []LeftWasAccepted
<1>1. Init => TruthInv
  BY DEF Init, TruthInv, LeftWasAccepted, AnswersAreTrue, SaysItLeft, NoRow, Idle, Proven
<1>2. OutboxInv /\ TruthInv /\ [Next]_vars => TruthInv'
  <2> SUFFICES ASSUME OutboxInv, TruthInv, [Next]_vars PROVE TruthInv'  OBVIOUS
  <2>1. ASSUME NEW w \in Workers, Work(w) \/ Crash(w) PROVE TruthInv'  BY <2>1, LoopsAreTrue
  <2>2. CASE UNCHANGED vars \/ WithdrawParticipant
             \/ \E g \in {"open", "paused", "window", "barred"} : ChangeGate(g)
    <3>1. UNCHANGED <<row, worker, accepts>>
      BY <2>2 DEF vars, WithdrawParticipant, ChangeGate
    <3>2. QED BY <3>1, OthersAreTrue
  <2>3. ASSUME \/ ReleaseHold \/ ReclaimStalled \/ AnonymiseParticipant
               \/ \E m \in Messages :
                    \/ \E hold \in BOOLEAN : Enqueue(m, hold)
                    \/ WaitEnds(m) \/ LeaseEnds(m) \/ Retry(m)
                    \/ \E pid \in 1..accepts[m],
                          report \in {"sent", "delivered", "read", "failed"} :
                         MarkDelivery(m, pid, report)
        PROVE  TruthInv'
    <3>1. UNCHANGED <<worker, accepts>>
      BY <2>3 DEF ReleaseHold, ReclaimStalled, AnonymiseParticipant, Enqueue, WaitEnds,
         LeaseEnds, Retry, MarkDelivery
    <3>2. QED BY <2>3, <3>1, OthersAreTrue
  <2>4. QED BY <2>1, <2>2, <2>3 DEF Next
<1>3. TruthInv => LeftWasAccepted  BY DEF TruthInv
<1>4. QED BY <1>1, <1>2, <1>3, OutboxKeepsInv, PTL DEF Spec

=============================================================================
