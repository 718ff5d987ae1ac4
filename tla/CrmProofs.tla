------------------------------ MODULE CrmProofs ------------------------------
(* Proofs about the CRM outbox for any number of records, versions, delivery  *)
(* loops and faults.                                                           *)
EXTENDS Crm, TLAPS

\* ---- the inductive invariant
Row ==
  [status : {"none", "pending", "sending", "delivered", "reconciled", "retryable_failure",
             "permanent_failure", "unknown_outcome"},
   attempts : Nat, lease : {"none", "live", "expired"}, waits : BOOLEAN,
   class : {"none", "superseded", "rejected", "transport", "unknown"}, mark : Nat,
   external : BOOLEAN, stamped : BOOLEAN]

Calls == {Idle} \cup [at : {"upsert", "read"}, event : Events, tries : Nat]

CrmTypes ==
  /\ event \in [Events -> Row] /\ vendor \in [Entities -> Nat] /\ call \in [Workers -> Calls]
  /\ scan = Resting
     \/ scan = [at |-> scan.at, left |-> scan.left, back |-> scan.back, seen |-> scan.seen]

\* What the CRM's answers are worth when they are used. A record that was read back
\* can only have become newer, and a row is read back, or is known to the CRM, only
\* after the CRM took it.
AnswersHold ==
  scan.at = "write" =>
    \A e \in Events : e = Head(scan.left) => scan.back \in Nat /\ scan.back <= vendor[e[1]]
ReadAfterAccepted == \A w \in Workers : call[w].at = "read" => call[w].event \in accepted
KnownWasAccepted == \A e \in Events : event[e].external \/ event[e].stamped => e \in accepted

CrmInv == CrmTypes /\ DeliveredIsHeld /\ AnswersHold /\ ReadAfterAccepted /\ KnownWasAccepted

\* ---- what a step must keep
LEMMA CrmStarts == Init => CrmInv
<1> SUFFICES ASSUME Init PROVE CrmInv  OBVIOUS
<1>1. NoRow \in Row /\ NoRow.status = "none" /\ ~NoRow.external /\ ~NoRow.stamped  BY DEF NoRow, Row
<1>2. event = [e \in Events |-> NoRow]  BY DEF Init
<1>3. CrmTypes  BY <1>1, <1>2 DEF Init, CrmTypes, Calls
<1>4. DeliveredIsHeld /\ KnownWasAccepted  BY <1>1, <1>2 DEF DeliveredIsHeld, KnownWasAccepted
<1>5. AnswersHold /\ ReadAfterAccepted
  BY DEF Init, AnswersHold, ReadAfterAccepted, Resting, Idle
<1>6. QED BY <1>3, <1>4, <1>5 DEF CrmInv

\* The CRM's versions only grow, and what it took stays taken.
Grown == /\ vendor' \in [Entities -> Nat] /\ \A x \in Entities : vendor'[x] >= vendor[x]
         /\ accepted \subseteq accepted'

LEMMA GrownWhenUnchanged == CrmInv /\ UNCHANGED <<vendor, accepted>> => Grown
BY DEF CrmInv, CrmTypes, Grown

LEMMA GrownWhenTaken == ASSUME CrmInv, NEW e \in Events, VendorTakes(e) PROVE Grown /\ e \in accepted'
<1>1. e[1] \in Entities /\ e[2] \in Nat  BY DEF Events
<1>2. vendor' = [vendor EXCEPT ![e[1]] = e[2]] /\ vendor[e[1]] <= e[2]
      /\ accepted' = accepted \cup {e}
  BY DEF VendorTakes
<1>3. QED BY <1>1, <1>2 DEF CrmInv, CrmTypes, Grown

\* A row may say that it was delivered when the CRM holds its version, and that the
\* CRM knows it when the CRM took it.
Truthful(e, r) ==
  /\ r \in Row
  /\ r.status \in {"delivered", "reconciled"} => vendor'[e[1]] >= e[2]
  /\ r.external \/ r.stamped => e \in accepted'

EventsKept == event' \in [Events -> Row] /\ DeliveredIsHeld' /\ KnownWasAccepted'

LEMMA RowWritten ==
  ASSUME CrmInv, Grown, NEW e, NEW r, event' = [event EXCEPT ![e] = r], e \in Events => Truthful(e, r)
  PROVE  EventsKept
<1>1. event' \in [Events -> Row]  BY DEF CrmInv, CrmTypes, Truthful
<1>2. ASSUME NEW d \in Events, event'[d].status \in {"delivered", "reconciled"}
      PROVE  vendor'[d[1]] >= d[2]
  <2>1. d[1] \in Entities /\ d[2] \in Nat  BY DEF Events
  <2>2. CASE d = e  BY <1>2, <2>2 DEF CrmInv, CrmTypes, Truthful
  <2>3. CASE d # e
    <3>1. vendor[d[1]] >= d[2]  BY <1>2, <2>3 DEF CrmInv, CrmTypes, DeliveredIsHeld
    <3>2. vendor[d[1]] \in Nat /\ vendor'[d[1]] \in Nat /\ vendor'[d[1]] >= vendor[d[1]]
      BY <2>1 DEF CrmInv, CrmTypes, Grown
    <3>3. QED BY <2>1, <3>1, <3>2
  <2>4. QED BY <2>2, <2>3
<1>3. KnownWasAccepted'  BY DEF CrmInv, CrmTypes, KnownWasAccepted, Truthful, Grown
<1>4. QED BY <1>1, <1>2, <1>3 DEF EventsKept, DeliveredIsHeld

LEMMA RowsUnwritten == CrmInv /\ Grown /\ UNCHANGED event => EventsKept
<1> SUFFICES ASSUME CrmInv, Grown, UNCHANGED event PROVE EventsKept  OBVIOUS
<1>1. event' \in [Events -> Row] /\ KnownWasAccepted'
  BY DEF CrmInv, CrmTypes, KnownWasAccepted, Grown
<1>2. ASSUME NEW d \in Events, event'[d].status \in {"delivered", "reconciled"}
      PROVE  vendor'[d[1]] >= d[2]
  <2>1. d[1] \in Entities /\ d[2] \in Nat  BY DEF Events
  <2>2. vendor[d[1]] >= d[2]  BY <1>2 DEF CrmInv, DeliveredIsHeld
  <2>3. vendor[d[1]] \in Nat /\ vendor'[d[1]] \in Nat /\ vendor'[d[1]] >= vendor[d[1]]
    BY <2>1 DEF CrmInv, CrmTypes, Grown
  <2>4. QED BY <2>1, <2>2, <2>3
<1>3. QED BY <1>1, <1>2 DEF EventsKept, DeliveredIsHeld

\* The reconciliation keeps its answer while the CRM's versions grow.
ScanKept == (scan = Resting
             \/ scan = [at |-> scan.at, left |-> scan.left, back |-> scan.back, seen |-> scan.seen])'
            /\ AnswersHold'

LEMMA ScanUntouched == CrmInv /\ Grown /\ (UNCHANGED scan \/ scan' = Resting) => ScanKept
<1> SUFFICES ASSUME CrmInv, Grown, UNCHANGED scan \/ scan' = Resting PROVE ScanKept  OBVIOUS
<1>1. CASE scan' = Resting  BY <1>1 DEF ScanKept, AnswersHold, Resting
<1>2. CASE UNCHANGED scan
  <2>1. ASSUME scan.at = "write", NEW e \in Events, e = Head(scan.left)
        PROVE  scan.back \in Nat /\ scan.back <= vendor'[e[1]]
    <3>1. scan.back \in Nat /\ scan.back <= vendor[e[1]]  BY <2>1 DEF CrmInv, AnswersHold
    <3>2. e[1] \in Entities  BY DEF Events
    <3>3. vendor[e[1]] \in Nat /\ vendor'[e[1]] \in Nat /\ vendor'[e[1]] >= vendor[e[1]]
      BY <3>2 DEF CrmInv, CrmTypes, Grown
    <3>4. QED BY <3>1, <3>3
  <2>2. QED BY <1>2, <2>1 DEF ScanKept, AnswersHold, CrmInv, CrmTypes
<1>3. QED BY <1>1, <1>2

\* A loop that starts a call or ends one reads nothing back.
CallsKept == call' \in [Workers -> Calls] /\ ReadAfterAccepted'

LEMMA CallWritten ==
  ASSUME CrmInv, Grown, NEW w \in Workers, NEW c \in Calls, call' = [call EXCEPT ![w] = c],
         c.at = "read" => c.event \in accepted'
  PROVE  CallsKept
BY DEF CrmInv, CrmTypes, ReadAfterAccepted, CallsKept, Grown

LEMMA CallReleased == ASSUME CrmInv, Grown, NEW w \in Workers, Release(w) PROVE CallsKept
<1>1. Idle \in Calls /\ Idle.at # "read"  BY DEF Idle, Calls
<1>2. QED BY <1>1, CallWritten DEF Release

LEMMA CallsUntouched == CrmInv /\ Grown /\ UNCHANGED call => CallsKept
BY DEF CrmInv, CrmTypes, ReadAfterAccepted, CallsKept, Grown

LEMMA AllKept == Grown /\ EventsKept /\ ScanKept /\ CallsKept => CrmInv'
BY DEF Grown, EventsKept, ScanKept, CallsKept, CrmInv, CrmTypes

\* What is known of a call.
LEMMA BusyCall ==
  ASSUME CrmInv, NEW w \in Workers, call[w].at \in {"upsert", "read"}
  PROVE  /\ call[w].event \in Events /\ call[w].tries \in Nat
         /\ event[call[w].event] \in Row
         /\ call[w] \in [at : {"upsert", "read"}, event : Events, tries : Nat]
<1>1. call[w] \in Calls /\ call[w] # Idle  BY DEF CrmInv, CrmTypes, Idle
<1>2. QED BY <1>1 DEF Calls, CrmInv, CrmTypes

\* ---- the steps
LEMMA LeastOfTwo == ASSUME NEW a \in Nat, NEW b \in Nat PROVE Min({a, b}) \in Nat
<1>1. \E x \in {a, b} : \A y \in {a, b} : x <= y
  <2>1. CASE a <= b  BY <2>1
  <2>2. CASE b <= a  BY <2>2
  <2>3. QED BY <2>1, <2>2
<1>2. Min({a, b}) \in {a, b}  BY <1>1 DEF Min
<1>3. QED BY <1>2

LEMMA EmitKeeps == ASSUME CrmInv, NEW x \in Entities, Emit(x) PROVE CrmInv'
<1> DEFINE e == <<x, version[x] + 1>>
           new == [NoRow EXCEPT !.status = "pending"]
<1>1. UNCHANGED <<call, scan, vendor, accepted>>
      /\ (event' = [event EXCEPT ![e] = new] \/ UNCHANGED event)
  BY DEF Emit
<1>2. Truthful(e, new)  BY DEF Truthful, NoRow, Row
<1> HIDE DEF new
<1>3. QED
  BY <1>1, <1>2, GrownWhenUnchanged, RowWritten, RowsUnwritten, ScanUntouched, CallsUntouched, AllKept

LEMMA PickKeeps == ASSUME CrmInv, NEW w \in Workers, NEW e \in Events, Pick(w, e) PROVE CrmInv'
<1> DEFINE tries == Min({event[e].attempts + 1, MaxAttempts})
           late == [event[e] EXCEPT !.status = "permanent_failure", !.class = "superseded",
                      !.mark = 0, !.lease = "none", !.attempts = tries]
           new == [event[e] EXCEPT !.status = "sending", !.lease = "live", !.attempts = tries]
           c == [at |-> "upsert", event |-> e, tries |-> tries]
<1>1. UNCHANGED <<scan, vendor, accepted>>  BY DEF Pick
<1>2. \/ event' = [event EXCEPT ![e] = late] /\ UNCHANGED call
      \/ event' = [event EXCEPT ![e] = new] /\ call' = [call EXCEPT ![w] = c]
  BY DEF Pick
<1>3. event[e] \in Row  BY DEF CrmInv, CrmTypes
<1>4. tries \in Nat
  <2>1. event[e].attempts + 1 \in Nat /\ MaxAttempts \in Nat  BY <1>3, CrmAssumption DEF Row
  <2>2. QED BY <2>1, LeastOfTwo
<1> HIDE DEF tries
<1>5. KnownWasAccepted /\ accepted' = accepted  BY <1>1 DEF CrmInv
<1>6. Truthful(e, late)  BY <1>3, <1>4, <1>5 DEF Truthful, Row, KnownWasAccepted
<1>7. Truthful(e, new)  BY <1>3, <1>4, <1>5 DEF Truthful, Row, KnownWasAccepted
<1>8. c \in Calls /\ c.at # "read"  BY <1>4 DEF Calls
<1> HIDE DEF late, new, c
<1>9. Grown /\ EventsKept /\ ScanKept
  BY <1>1, <1>2, <1>6, <1>7, GrownWhenUnchanged, RowWritten, ScanUntouched
<1>10. CallsKept  BY <1>2, <1>8, <1>9, CallWritten, CallsUntouched
<1>11. QED BY <1>9, <1>10, AllKept

\* The catch of deliverOne() writes a row that claims nothing new.
LEMMA FailedIsTruthful ==
  ASSUME CrmInv, Grown, NEW e \in Events, NEW class \in {"rejected", "transport", "unknown"},
         NEW tries \in Nat, Failed(e, class, tries)
  PROVE  EventsKept
<1>1. PICK status \in {"unknown_outcome", "permanent_failure", "retryable_failure"} :
        event' = [event EXCEPT ![e].status = status, ![e].class = class, ![e].mark = 0,
                    ![e].lease = "none", ![e].waits = (status = "retryable_failure")]
  <2> DEFINE final == class = "rejected" \/ tries >= MaxAttempts
             status == CASE class = "unknown" -> "unknown_outcome"
                         [] class # "unknown" /\ final -> "permanent_failure"
                         [] OTHER -> "retryable_failure"
  <2>1. status \in {"unknown_outcome", "permanent_failure", "retryable_failure"}
    <3>1. CASE class = "unknown"  BY <3>1
    <3>2. CASE class # "unknown"  BY <3>2
    <3>3. QED BY <3>1, <3>2
  <2>2. event' = [event EXCEPT ![e].status = status, ![e].class = class, ![e].mark = 0,
                    ![e].lease = "none", ![e].waits = (status = "retryable_failure")]
    BY DEF Failed
  <2>3. QED BY <2>1, <2>2
<1> DEFINE new == [event[e] EXCEPT !.status = status, !.class = class, !.mark = 0,
                     !.lease = "none", !.waits = (status = "retryable_failure")]
<1>2. event' = [event EXCEPT ![e] = new]  BY <1>1
<1>3. event[e] \in Row /\ (event[e].external \/ event[e].stamped => e \in accepted')
  BY DEF CrmInv, CrmTypes, KnownWasAccepted, Grown
<1>4. Truthful(e, new)  BY <1>3 DEF Truthful, Row
<1> HIDE DEF new
<1>5. QED BY <1>2, <1>4, RowWritten

LEMMA UpsertKeeps ==
  ASSUME CrmInv, NEW w \in Workers, UpsertSucceeds(w) \/ UpsertIsRefused(w) \/ UpsertBreaks(w)
  PROVE  CrmInv'
<1> DEFINE e == call[w].event
<1>1. call[w].at = "upsert" /\ UNCHANGED scan
  BY DEF UpsertSucceeds, UpsertIsRefused, UpsertBreaks
<1>2. e \in Events /\ call[w].tries \in Nat
      /\ call[w] \in [at : {"upsert", "read"}, event : Events, tries : Nat]
  BY <1>1, BusyCall
<1>3. CASE UpsertSucceeds(w)
  <2> DEFINE c == [call[w] EXCEPT !.at = "read"]
  <2>1. UNCHANGED event /\ VendorTakes(e) /\ call' = [call EXCEPT ![w] = c]
    BY <1>3 DEF UpsertSucceeds
  <2>2. Grown /\ e \in accepted'  BY <1>2, <2>1, GrownWhenTaken
  <2>3. c \in Calls /\ c.event = e  BY <1>2 DEF Calls
  <2> HIDE DEF c
  <2>4. CallsKept  BY <2>1, <2>2, <2>3, CallWritten
  <2>5. QED BY <1>1, <2>1, <2>2, <2>4, RowsUnwritten, ScanUntouched, AllKept
<1>4. CASE UpsertIsRefused(w)
  <2>1. UNCHANGED <<vendor, accepted>> /\ Release(w) /\ Failed(e, "rejected", call[w].tries)
    BY <1>4 DEF UpsertIsRefused
  <2>2. Grown  BY <2>1, GrownWhenUnchanged
  <2>3. EventsKept  BY <1>2, <2>1, <2>2, FailedIsTruthful
  <2>4. QED BY <1>1, <2>1, <2>2, <2>3, ScanUntouched, CallReleased, AllKept
<1>5. CASE UpsertBreaks(w)
  <2>1. VendorTakes(e) \/ UNCHANGED <<vendor, accepted>>  BY <1>5 DEF UpsertBreaks
  <2>2. Grown  BY <1>2, <2>1, GrownWhenUnchanged, GrownWhenTaken
  <2>3. PICK class \in {"transport", "unknown"} : Failed(e, class, call[w].tries)
    BY <1>5 DEF UpsertBreaks
  <2>4. EventsKept  BY <1>2, <2>2, <2>3, FailedIsTruthful
  <2>5. Release(w)  BY <1>5 DEF UpsertBreaks
  <2>6. QED BY <1>1, <2>2, <2>4, <2>5, ScanUntouched, CallReleased, AllKept
<1>6. QED BY <1>3, <1>4, <1>5

LEMMA ReadBackKeeps == ASSUME CrmInv, NEW w \in Workers, ReadBack(w) PROVE CrmInv'
<1> DEFINE e == call[w].event
           proven == [event[e] EXCEPT !.status = "delivered", !.external = TRUE, !.stamped = TRUE,
                        !.lease = "none", !.class = "none", !.mark = 0]
           unproven == [event[e] EXCEPT !.status = "unknown_outcome", !.external = TRUE,
                          !.stamped = FALSE, !.lease = "none", !.class = "none", !.mark = 0]
<1>1. call[w].at = "read" /\ UNCHANGED <<scan, vendor, accepted>> /\ Release(w)  BY DEF ReadBack
<1>2. e \in Events /\ event[e] \in Row /\ e \in accepted
  BY <1>1, BusyCall DEF CrmInv, ReadAfterAccepted
<1>3. \/ Proves(vendor[e[1]], e) /\ event' = [event EXCEPT ![e] = proven]
      \/ event' = [event EXCEPT ![e] = unproven]
  BY DEF ReadBack
<1>4. Proves(vendor[e[1]], e) => Truthful(e, proven)
  BY <1>1, <1>2 DEF Proves, Truthful, Row
<1>5. Truthful(e, unproven)  BY <1>1, <1>2 DEF Truthful, Row
<1> HIDE DEF proven, unproven
<1>6. Grown  BY <1>1, GrownWhenUnchanged
<1>7. EventsKept  BY <1>3, <1>4, <1>5, <1>6, RowWritten
<1>8. QED BY <1>1, <1>6, <1>7, ScanUntouched, CallReleased, AllKept

\* ---- reconciliation
LEMMA NextRowKeeps ==
  ASSUME CrmInv, scan.at \in {"ask", "write"}, Grown, scan' = NextRow PROVE ScanKept
<1>1. CASE scan' = Resting  BY <1>1, ScanUntouched
<1>2. CASE scan' = [scan EXCEPT !.at = "ask", !.left = Tail(@), !.back = 0]
  <2>1. scan = [at |-> scan.at, left |-> scan.left, back |-> scan.back, seen |-> scan.seen]
    BY DEF CrmInv, CrmTypes, Resting
  <2>2. scan' = [at |-> "ask", left |-> Tail(scan.left), back |-> 0, seen |-> scan.seen]
    BY <1>2, <2>1
  <2>3. QED BY <2>2 DEF ScanKept, AnswersHold
<1>3. QED BY <1>1, <1>2 DEF NextRow

LEMMA ScanKeeps == ASSUME CrmInv, StartScan \/ ScanAsks PROVE CrmInv'
<1>1. UNCHANGED <<event, call, vendor, accepted>>  BY DEF StartScan, ScanAsks
<1>2. Grown /\ EventsKept /\ CallsKept
  BY <1>1, GrownWhenUnchanged, RowsUnwritten, CallsUntouched
<1>3. ScanKept
  <2>1. CASE StartScan  BY <2>1 DEF StartScan, ScanKept, AnswersHold
  <2>2. CASE ScanAsks /\ scan' = NextRow  BY <1>2, <2>2, NextRowKeeps DEF ScanAsks
  <2>3. CASE ScanAsks /\ scan' = [scan EXCEPT !.at = "write", !.back = vendor[Head(scan.left)[1]]]
    <3>1. scan = [at |-> scan.at, left |-> scan.left, back |-> scan.back, seen |-> scan.seen]
      BY <2>3 DEF ScanAsks, CrmInv, CrmTypes, Resting
    <3>2. scan' = [at |-> "write", left |-> scan.left, back |-> vendor[Head(scan.left)[1]],
                   seen |-> scan.seen]
      BY <2>3, <3>1
    <3>3. ASSUME NEW e \in Events, e = Head(scan.left)
          PROVE  vendor[Head(scan.left)[1]] \in Nat /\ vendor'[e[1]] = vendor[Head(scan.left)[1]]
      BY <1>1, <3>3 DEF Events, CrmInv, CrmTypes
    <3>4. QED BY <3>2, <3>3 DEF ScanKept, AnswersHold
  <2>4. QED BY <2>1, <2>2, <2>3 DEF ScanAsks
<1>4. QED BY <1>2, <1>3, AllKept

LEMMA ReconcileUpdates ==
  ASSUME NEW r \in Row, NEW mark \in 0..(MaxRequeues - 1)
  PROVE  /\ Requeued(r, mark) \in Row /\ Requeued(r, mark).status = "pending"
         /\ Requeued(r, mark).external = r.external /\ Requeued(r, mark).stamped = r.stamped
<1>1. mark + 1 \in Nat  BY CrmAssumption
<1>2. QED BY <1>1 DEF Requeued, Row

LEMMA ReconciledRow ==
  ASSUME NEW r \in Row
  PROVE  /\ Reconciled(r) \in Row /\ Reconciled(r).external = r.external
         /\ (Reconciled(r).stamped = TRUE) <=> (r.stamped \/ r.external)
BY DEF Reconciled, Row

LEMMA WriteKeeps == ASSUME CrmInv, ScanWrites PROVE CrmInv'
<1> DEFINE e == Head(scan.left)
           was == scan.seen[e]
           asked == [event[e] EXCEPT !.status = "pending", !.waits = FALSE]
<1>1. scan.at = "write" /\ scan' = NextRow /\ UNCHANGED <<call, vendor, accepted>>
  BY DEF ScanWrites
<1>2. Grown /\ CallsKept  BY <1>1, GrownWhenUnchanged, CallsUntouched
<1>3. ScanKept  BY <1>1, <1>2, NextRowKeeps
<1>4. \/ Proves(scan.back, e) /\ event' = [event EXCEPT ![e] = Reconciled(event[e])]
      \/ event' = [event EXCEPT ![e] = asked]
      \/ Casualty(was) /\ event' = [event EXCEPT ![e] = Requeued(event[e], was.mark)]
      \/ event' = [event EXCEPT ![e] = event[e]]
  BY DEF ScanWrites
<1>5. ASSUME e \in Events
      PROVE  /\ event[e] \in Row /\ (event[e].external \/ event[e].stamped => e \in accepted')
             /\ event[e].status \in {"delivered", "reconciled"} => vendor'[e[1]] >= e[2]
  BY <1>1, <1>5 DEF CrmInv, CrmTypes, KnownWasAccepted, DeliveredIsHeld
<1>6. CASE Proves(scan.back, e) /\ event' = [event EXCEPT ![e] = Reconciled(event[e])]
  <2>1. ASSUME e \in Events PROVE Truthful(e, Reconciled(event[e]))
    <3>1. vendor'[e[1]] >= e[2]
      <4>1. scan.back \in Nat /\ scan.back <= vendor'[e[1]]  BY <1>1, <2>1 DEF CrmInv, AnswersHold
      <4>2. e[2] \in Nat /\ vendor'[e[1]] \in Nat  BY <1>2, <2>1 DEF Events, Grown
      <4>3. QED BY <1>6, <4>1, <4>2 DEF Proves
    <3>2. QED BY <1>5, <2>1, <3>1, ReconciledRow DEF Truthful
  <2>2. QED BY <1>2, <1>3, <1>6, <2>1, RowWritten, AllKept
<1>7. CASE event' = [event EXCEPT ![e] = asked]
  <2>1. e \in Events => Truthful(e, asked)  BY <1>5 DEF Truthful, Row
  <2> HIDE DEF asked
  <2>2. QED BY <1>2, <1>3, <1>7, <2>1, RowWritten, AllKept
<1>8. CASE Casualty(was) /\ event' = [event EXCEPT ![e] = Requeued(event[e], was.mark)]
  <2>1. ASSUME e \in Events PROVE Truthful(e, Requeued(event[e], was.mark))
    <3>1. was.mark \in 0..(MaxRequeues - 1)  BY <1>8 DEF Casualty
    <3>2. QED BY <1>5, <2>1, <3>1, ReconcileUpdates DEF Truthful
  <2>2. QED BY <1>2, <1>3, <1>8, <2>1, RowWritten, AllKept
<1>9. CASE event' = [event EXCEPT ![e] = event[e]]
  <2>1. e \in Events => Truthful(e, event[e])  BY <1>5 DEF Truthful
  <2>2. QED BY <1>2, <1>3, <1>9, <2>1, RowWritten, AllKept
<1>10. QED BY <1>4, <1>6, <1>7, <1>8, <1>9

\* ---- the operator and the clock
LEMMA OthersKeep ==
  ASSUME CrmInv, NEW e \in Events, Retry(e) \/ LeaseEnds(e) \/ WaitEnds(e) PROVE CrmInv'
<1> DEFINE retried == [event[e] EXCEPT !.status = "pending", !.waits = FALSE, !.lease = "none",
                         !.attempts = 0]
           expired == [event[e] EXCEPT !.lease = "expired"]
           due == [event[e] EXCEPT !.waits = FALSE]
<1>1. UNCHANGED <<call, scan, vendor, accepted>>  BY DEF Retry, LeaseEnds, WaitEnds
<1>2. \/ event' = [event EXCEPT ![e] = retried] \/ event' = [event EXCEPT ![e] = expired]
      \/ event' = [event EXCEPT ![e] = due]
  BY DEF Retry, LeaseEnds, WaitEnds
<1>3. /\ event[e] \in Row /\ (event[e].external \/ event[e].stamped => e \in accepted')
      /\ event[e].status \in {"delivered", "reconciled"} => vendor'[e[1]] >= e[2]
  BY <1>1 DEF CrmInv, CrmTypes, KnownWasAccepted, DeliveredIsHeld
<1>4. Truthful(e, retried)  BY <1>3 DEF Truthful, Row
<1>5. Truthful(e, expired)  BY <1>3 DEF Truthful, Row
<1>6. Truthful(e, due)  BY <1>3 DEF Truthful, Row
<1> HIDE DEF retried, expired, due
<1>7. Grown  BY <1>1, GrownWhenUnchanged
<1>8. EventsKept  BY <1>2, <1>4, <1>5, <1>6, <1>7, RowWritten
<1>9. QED BY <1>1, <1>7, <1>8, ScanUntouched, CallsUntouched, AllKept

LEMMA CrashKeeps == ASSUME CrmInv, NEW w \in Workers, Crash(w) PROVE CrmInv'
<1>1. Release(w) /\ scan' = Resting /\ UNCHANGED <<event, vendor, accepted>>  BY DEF Crash
<1>2. Grown  BY <1>1, GrownWhenUnchanged
<1>3. QED BY <1>1, <1>2, RowsUnwritten, ScanUntouched, CallReleased, AllKept

LEMMA CrmSteps == CrmInv /\ [Next]_vars => CrmInv'
<1> SUFFICES ASSUME CrmInv, [Next]_vars PROVE CrmInv'  OBVIOUS
<1>1. CASE UNCHANGED vars
  BY <1>1, GrownWhenUnchanged, RowsUnwritten, ScanUntouched, CallsUntouched, AllKept DEF vars
<1>2. ASSUME NEW w \in Workers,
             UpsertSucceeds(w) \/ UpsertIsRefused(w) \/ UpsertBreaks(w) \/ ReadBack(w) \/ Crash(w)
      PROVE  CrmInv'
  BY <1>2, UpsertKeeps, ReadBackKeeps, CrashKeeps
<1>3. QED
  BY <1>1, <1>2, EmitKeeps, PickKeeps, ScanKeeps, WriteKeeps, OthersKeep DEF Next

LEMMA CrmKeepsInv == Spec => []CrmInv
BY CrmStarts, CrmSteps, PTL DEF Spec

\* ---- what follows
\* A row that says "delivered" or "reconciled" is held by the CRM, in that version or a
\* newer one, whichever of the delivery loops, the reconciliation and an operator's retry
\* wrote it last, however late it used what it had read (crm.mjs:127-165, 167-238).
THEOREM DeliveredRowsAreHeld == Spec => []DeliveredIsHeld
<1>1. CrmInv => DeliveredIsHeld  BY DEF CrmInv
<1>2. QED BY <1>1, CrmKeepsInv, PTL

\* A row with a delivery time was itself taken by the CRM, through every requeue and
\* reconciliation it went through since (crm.mjs:145-149, 199-202).
THEOREM StampedRowsWereAccepted == Spec => []StampedWasAccepted
<1>1. CrmInv => StampedWasAccepted  BY DEF CrmInv, KnownWasAccepted, StampedWasAccepted
<1>2. QED BY <1>1, CrmKeepsInv, PTL

\* What a row says of the vendor and of its loop: the vendor rejected it only for its
\* payload or for a newer version, a dead row says why it died, and one that is being
\* sent is under a lease, which runs out into the sight of the selector.
HonestRow(e, r, held) ==
  /\ r.class = "rejected" => e \in Refused \/ held[e[1]] > e[2]
  /\ r.status = "permanent_failure" => r.class \in {"superseded", "rejected", "transport"}
  /\ r.status = "sending" => r.lease # "none"
RowsAreHonest == \A e \in Events : HonestRow(e, event[e], vendor)

LEMMA HonestStays ==
  ASSUME CrmInv, CrmInv', RowsAreHonest, Grown, NEW e \in Events, event'[e] = event[e]
  PROVE  HonestRow(e, event'[e], vendor')
<1>1. HonestRow(e, event[e], vendor)  BY DEF RowsAreHonest
<1>2. e[1] \in Entities /\ e[2] \in Nat  BY DEF Events
<1>3. vendor[e[1]] \in Nat /\ vendor'[e[1]] \in Nat /\ vendor'[e[1]] >= vendor[e[1]]
  BY <1>2 DEF CrmInv, CrmTypes, Grown
<1>4. QED BY <1>1, <1>2, <1>3 DEF HonestRow

LEMMA HonestWhenWritten ==
  ASSUME CrmInv, CrmInv', RowsAreHonest, Grown, NEW e, NEW r, event' = [event EXCEPT ![e] = r],
         e \in Events => HonestRow(e, r, vendor')
  PROVE  RowsAreHonest'
<1> SUFFICES ASSUME NEW d \in Events PROVE HonestRow(d, event'[d], vendor')  BY DEF RowsAreHonest
<1>1. CASE d = e  BY <1>1 DEF CrmInv, CrmTypes
<1>2. CASE d # e  BY <1>2, HonestStays
<1>3. QED BY <1>1, <1>2

LEMMA HonestUnwritten ==
  ASSUME CrmInv, CrmInv', RowsAreHonest, Grown, UNCHANGED event PROVE RowsAreHonest'
BY HonestStays DEF RowsAreHonest

\* A row that takes over the class of the row it was, and is neither dead nor sent.
LEMMA HonestUpdate ==
  ASSUME CrmInv, CrmInv', RowsAreHonest, Grown, NEW e \in Events, NEW r,
         r.class \in {event[e].class, "transport", "none"},
         r.status \notin {"permanent_failure", "sending"}
  PROVE  HonestRow(e, r, vendor')
<1>1. HonestRow(e, event[e], vendor)  BY DEF RowsAreHonest
<1>2. e[1] \in Entities /\ e[2] \in Nat  BY DEF Events
<1>3. vendor[e[1]] \in Nat /\ vendor'[e[1]] \in Nat /\ vendor'[e[1]] >= vendor[e[1]]
  BY <1>2 DEF CrmInv, CrmTypes, Grown
<1>4. QED BY <1>1, <1>2, <1>3 DEF HonestRow

\* The catch writes the class it was given: "unknown" is never a death.
LEMMA FailedIsHonest ==
  ASSUME CrmInv, CrmInv', RowsAreHonest, Grown, NEW e \in Events,
         NEW class \in {"rejected", "transport", "unknown"}, NEW tries, Failed(e, class, tries),
         class = "rejected" => e \in Refused \/ vendor'[e[1]] > e[2]
  PROVE  RowsAreHonest'
<1>1. PICK status \in {"unknown_outcome", "permanent_failure", "retryable_failure"} :
        /\ event' = [event EXCEPT ![e].status = status, ![e].class = class, ![e].mark = 0,
                       ![e].lease = "none", ![e].waits = (status = "retryable_failure")]
        /\ status = "permanent_failure" => class # "unknown"
  <2>1. CASE class = "unknown"  BY <2>1 DEF Failed
  <2>2. CASE class # "unknown"
    <3>1. CASE class = "rejected" \/ tries >= MaxAttempts  BY <2>2, <3>1 DEF Failed
    <3>2. CASE ~(class = "rejected" \/ tries >= MaxAttempts)  BY <2>2, <3>2 DEF Failed
    <3>3. QED BY <3>1, <3>2
  <2>3. QED BY <2>1, <2>2
<1> DEFINE new == [event[e] EXCEPT !.status = status, !.class = class, !.mark = 0,
                     !.lease = "none", !.waits = (status = "retryable_failure")]
<1>2. event' = [event EXCEPT ![e] = new]  BY <1>1
<1>3. event[e] \in Row  BY DEF CrmInv, CrmTypes
<1>4. HonestRow(e, new, vendor')  BY <1>1, <1>3 DEF HonestRow, Row
<1> HIDE DEF new
<1>5. QED BY <1>2, <1>4, HonestWhenWritten

LEMMA CallsAreHonest ==
  ASSUME CrmInv, CrmInv', RowsAreHonest, NEW w \in Workers,
         \/ \E e \in Events : Pick(w, e)
         \/ UpsertSucceeds(w) \/ UpsertIsRefused(w) \/ UpsertBreaks(w) \/ ReadBack(w) \/ Crash(w)
  PROVE  RowsAreHonest'
<1>1. ASSUME NEW e \in Events, Pick(w, e) PROVE RowsAreHonest'
  <2> DEFINE tries == Min({event[e].attempts + 1, MaxAttempts})
             late == [event[e] EXCEPT !.status = "permanent_failure", !.class = "superseded",
                        !.mark = 0, !.lease = "none", !.attempts = tries]
             new == [event[e] EXCEPT !.status = "sending", !.lease = "live", !.attempts = tries]
  <2>1. UNCHANGED <<vendor, accepted>>
        /\ (event' = [event EXCEPT ![e] = late] \/ event' = [event EXCEPT ![e] = new])
    BY <1>1 DEF Pick
  <2>2. event[e] \in Row /\ HonestRow(e, event[e], vendor)
    BY DEF CrmInv, CrmTypes, RowsAreHonest
  <2> HIDE DEF tries
  <2>3. HonestRow(e, late, vendor') /\ HonestRow(e, new, vendor')
    BY <2>1, <2>2 DEF HonestRow, Row
  <2> HIDE DEF late, new
  <2>4. QED BY <2>1, <2>3, GrownWhenUnchanged, HonestWhenWritten
<1>2. CASE UpsertSucceeds(w)
  <2>1. UNCHANGED event /\ VendorTakes(call[w].event) /\ call[w].at = "upsert"
    BY <1>2 DEF UpsertSucceeds
  <2>2. QED BY <2>1, BusyCall, GrownWhenTaken, HonestUnwritten
<1>3. CASE UpsertIsRefused(w)
  <2>1. PICK e : e = call[w].event  OBVIOUS
  <2>2. /\ call[w].at = "upsert" /\ UNCHANGED <<vendor, accepted>>
        /\ Failed(e, "rejected", call[w].tries) /\ (e \in Refused \/ vendor'[e[1]] > e[2])
    BY <1>3, <2>1 DEF UpsertIsRefused
  <2>3. e \in Events  BY <2>1, <2>2, BusyCall
  <2>4. QED BY <2>2, <2>3, GrownWhenUnchanged, FailedIsHonest
<1>4. CASE UpsertBreaks(w)
  <2>1. PICK e : e = call[w].event  OBVIOUS
  <2>2. PICK class \in {"transport", "unknown"} : Failed(e, class, call[w].tries)
    BY <1>4, <2>1 DEF UpsertBreaks
  <2>3. /\ call[w].at = "upsert" /\ (VendorTakes(e) \/ UNCHANGED <<vendor, accepted>>)
    BY <1>4, <2>1 DEF UpsertBreaks
  <2>4. e \in Events  BY <2>1, <2>3, BusyCall
  <2>5. Grown  BY <2>3, <2>4, GrownWhenUnchanged, GrownWhenTaken
  <2>6. QED BY <2>2, <2>4, <2>5, FailedIsHonest
<1>5. CASE ReadBack(w)
  <2>1. PICK e : e = call[w].event  OBVIOUS
  <2> DEFINE proven == [event[e] EXCEPT !.status = "delivered", !.external = TRUE, !.stamped = TRUE,
                          !.lease = "none", !.class = "none", !.mark = 0]
             unproven == [event[e] EXCEPT !.status = "unknown_outcome", !.external = TRUE,
                            !.stamped = FALSE, !.lease = "none", !.class = "none", !.mark = 0]
  <2>2. /\ call[w].at = "read" /\ UNCHANGED <<vendor, accepted>>
        /\ (event' = [event EXCEPT ![e] = proven] \/ event' = [event EXCEPT ![e] = unproven])
    BY <1>5, <2>1 DEF ReadBack
  <2>3. e \in Events /\ event[e] \in Row  BY <2>1, <2>2, BusyCall
  <2>4. /\ proven.class = "none" /\ proven.status = "delivered"
        /\ unproven.class = "none" /\ unproven.status = "unknown_outcome"
    BY <2>3 DEF Row
  <2> HIDE DEF proven, unproven
  <2>5. Grown  BY <2>2, GrownWhenUnchanged
  <2>6. HonestRow(e, proven, vendor') /\ HonestRow(e, unproven, vendor')
    BY <2>3, <2>4, <2>5, HonestUpdate
  <2>7. QED BY <2>2, <2>5, <2>6, HonestWhenWritten
<1>6. CASE Crash(w)
  <2>1. UNCHANGED <<event, vendor, accepted>>  BY <1>6 DEF Crash
  <2>2. QED BY <2>1, GrownWhenUnchanged, HonestUnwritten
<1>7. QED BY <1>1, <1>2, <1>3, <1>4, <1>5, <1>6

LEMMA ScansAreHonest ==
  ASSUME CrmInv, CrmInv', RowsAreHonest, StartScan \/ ScanAsks \/ ScanWrites
  PROVE  RowsAreHonest'
<1>1. UNCHANGED <<vendor, accepted>>  BY DEF StartScan, ScanAsks, ScanWrites
<1>2. Grown  BY <1>1, GrownWhenUnchanged
<1>3. CASE StartScan \/ ScanAsks
  <2>1. UNCHANGED event  BY <1>3 DEF StartScan, ScanAsks
  <2>2. QED BY <1>2, <2>1, HonestUnwritten
<1>4. CASE ScanWrites
  <2>1. PICK e, was : e = Head(scan.left) /\ was = scan.seen[e]  OBVIOUS
  <2> DEFINE asked == [event[e] EXCEPT !.status = "pending", !.waits = FALSE]
  <2>2. \/ event' = [event EXCEPT ![e] = Reconciled(event[e])]
        \/ event' = [event EXCEPT ![e] = asked]
        \/ event' = [event EXCEPT ![e] = Requeued(event[e], was.mark)]
        \/ event' = [event EXCEPT ![e] = event[e]]
    BY <1>4, <2>1 DEF ScanWrites
  <2>3. ASSUME e \in Events
        PROVE  /\ HonestRow(e, Reconciled(event[e]), vendor') /\ HonestRow(e, asked, vendor')
               /\ HonestRow(e, Requeued(event[e], was.mark), vendor')
               /\ HonestRow(e, event[e], vendor')
    <3>1. event[e] \in Row /\ HonestRow(e, event[e], vendor')
      BY <1>1, <2>3 DEF CrmInv, CrmTypes, RowsAreHonest
    <3>2. /\ Reconciled(event[e]).class = event[e].class
          /\ Reconciled(event[e]).status = "reconciled"
      BY <3>1 DEF Reconciled, Row
    <3>3. asked.class = event[e].class /\ asked.status = "pending"  BY <3>1 DEF Row
    <3>4. /\ Requeued(event[e], was.mark).class = "transport"
          /\ Requeued(event[e], was.mark).status = "pending"
      BY <3>1 DEF Requeued, Row
    <3> HIDE DEF asked
    <3>5. QED BY <1>2, <2>3, <3>1, <3>2, <3>3, <3>4, HonestUpdate
  <2> HIDE DEF asked
  <2>4. QED BY <1>2, <2>2, <2>3, HonestWhenWritten
<1>5. QED BY <1>3, <1>4

LEMMA OthersAreHonest ==
  ASSUME CrmInv, CrmInv', RowsAreHonest,
         \/ \E x \in Entities : Emit(x)
         \/ \E e \in Events : Retry(e) \/ LeaseEnds(e) \/ WaitEnds(e)
  PROVE  RowsAreHonest'
<1>1. UNCHANGED <<vendor, accepted>>  BY DEF Emit, Retry, LeaseEnds, WaitEnds
<1>2. Grown  BY <1>1, GrownWhenUnchanged
<1>3. ASSUME NEW x \in Entities, Emit(x) PROVE RowsAreHonest'
  <2> DEFINE new == [NoRow EXCEPT !.status = "pending"]
  <2>1. PICK e : event' = [event EXCEPT ![e] = new] \/ UNCHANGED event  BY <1>3 DEF Emit
  <2>2. HonestRow(e, new, vendor')  BY DEF HonestRow, NoRow
  <2> HIDE DEF new
  <2>3. QED BY <1>2, <2>1, <2>2, HonestWhenWritten, HonestUnwritten
<1>4. ASSUME NEW e \in Events, Retry(e) \/ LeaseEnds(e) \/ WaitEnds(e) PROVE RowsAreHonest'
  <2> DEFINE retried == [event[e] EXCEPT !.status = "pending", !.waits = FALSE,
                           !.lease = "none", !.attempts = 0]
             expired == [event[e] EXCEPT !.lease = "expired"]
             due == [event[e] EXCEPT !.waits = FALSE]
  <2>1. \/ event' = [event EXCEPT ![e] = retried] \/ event' = [event EXCEPT ![e] = expired]
        \/ event' = [event EXCEPT ![e] = due]
    BY <1>4 DEF Retry, LeaseEnds, WaitEnds
  <2>2. event[e] \in Row /\ HonestRow(e, event[e], vendor')
    BY <1>1 DEF CrmInv, CrmTypes, RowsAreHonest
  <2>3. HonestRow(e, retried, vendor')  BY <2>2 DEF HonestRow, Row
  <2>4. HonestRow(e, expired, vendor')  BY <2>2 DEF HonestRow, Row
  <2>5. HonestRow(e, due, vendor')  BY <2>2 DEF HonestRow, Row
  <2> HIDE DEF retried, expired, due
  <2>6. QED BY <1>2, <2>1, <2>3, <2>4, <2>5, HonestWhenWritten
<1>5. QED BY <1>3, <1>4

\* A row that the CRM rejected, and that no reconciliation takes up again, has a payload
\* the vendor does not take, or the vendor holds a newer version: no outage, lost answer,
\* requeue or second loop leaves that mark on any other. A dead row names one of the three
\* reasons, and one that is being sent is never without a lease, so that the selector sees
\* it again (crm.mjs:99, 127-165).
THEOREM RejectionsAreTrue == Spec => []RowsAreHonest
<1>1. Init => RowsAreHonest  BY DEF Init, RowsAreHonest, HonestRow, NoRow
<1>2. CrmInv /\ CrmInv' /\ RowsAreHonest /\ [Next]_vars => RowsAreHonest'
  <2> SUFFICES ASSUME CrmInv, CrmInv', RowsAreHonest, [Next]_vars PROVE RowsAreHonest'  OBVIOUS
  <2>1. CASE UNCHANGED vars  BY <2>1, GrownWhenUnchanged, HonestUnwritten DEF vars
  <2>2. QED BY <2>1, CallsAreHonest, ScansAreHonest, OthersAreHonest DEF Next
<1>3. QED BY <1>1, <1>2, CrmKeepsInv, PTL DEF Spec

=============================================================================
