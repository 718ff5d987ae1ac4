---------------------------------- MODULE Crm ----------------------------------
(***************************************************************************)
(* The CRM outbox (src/src/crm.mjs): one row per version of a record, the   *)
(* delivery loop of the worker with its lease, the vendor's call and the    *)
(* read-back that alone proves a delivery, and the reconciliation that asks *)
(* the vendor about everything that is in doubt. Versions come from the     *)
(* services that emit them, in the transaction of the change they report.   *)
(***************************************************************************)
EXTENDS Integers, SequencesExt, FiniteSetsExt

CONSTANTS
  Entities,      \* records the CRM is told of
  Workers,       \* delivery loops
  Refused,       \* versions (events) whose payload the vendor does not take
  MaxAttempts,   \* MAX_ATTEMPTS
  MaxRequeues,   \* requeues of one row by reconcile()
  ScanLimit,     \* the rows one reconciliation looks at
  MaxVersion,    \* bound: changes of one record
  MaxFaults,     \* bound: calls that fail, time out or go unanswered, and crashes
  MaxAsks        \* bound: an operator's retries

Events == Entities \X (1..MaxVersion)

ASSUME CrmAssumption ==
  /\ MaxAttempts \in Nat \ {0} /\ MaxRequeues \in Nat /\ ScanLimit \in Nat \ {0}
  /\ MaxVersion \in Nat /\ MaxFaults \in Nat /\ MaxAsks \in Nat
  /\ Refused \subseteq Events

VARIABLES
  version,    \* the row_version (or count of decisions) of each record
  event,      \* crm_events, by record and version
  created,    \* the events by created_at
  ref,        \* crm_external_refs.last_entity_version
  call,       \* the deliverOne() each loop is in
  scan,       \* the reconcile() in progress
  vendor,     \* the version the CRM holds
  accepted,   \* the events the CRM itself took
  faults, asks

vars == <<version, event, created, ref, call, scan, vendor, accepted, faults, asks>>

-----------------------------------------------------------------------------
\* A row's attempts are capped where it stops mattering; class and mark are the
\* prefix and the "[requeued xN]" that travel in last_error.
NoRow == [status |-> "none", attempts |-> 0, lease |-> "none", waits |-> FALSE,
          class |-> "none", mark |-> 0, external |-> FALSE, stamped |-> FALSE]
Idle == [at |-> "idle"]
Resting == [at |-> "idle", left |-> <<>>]

Spend == faults < MaxFaults /\ faults' = faults + 1

\* emit(), in the transaction of the change it reports; a repetition of an event
\* finds its row and changes nothing. Some changes are not reported.
Emit(x) ==
  /\ version[x] < MaxVersion
  /\ version' = [version EXCEPT ![x] = @ + 1]
  /\ LET e == <<x, version[x] + 1>>
     IN  \/ /\ event' = [event EXCEPT ![e] = [NoRow EXCEPT !.status = "pending"]]
            /\ created' = Append(created, e)
         \/ UNCHANGED <<event, created>>
  /\ UNCHANGED <<ref, call, scan, vendor, accepted, faults, asks>>

-----------------------------------------------------------------------------
(* deliverOne().                                                            *)
Queued(e) == event[e].status \in {"pending", "retryable_failure"} /\ event[e].lease # "live"
Abandoned(e) == event[e].status = "sending" /\ event[e].lease = "expired"
Due(e) == ~event[e].waits /\ (Queued(e) \/ Abandoned(e))
Foremost(e) == LET due == SelectSeq(created, Due) IN due # <<>> /\ Head(due) = e

\* Lease, and the guard against an older version: nothing is awaited between.
Pick(w, e) ==
  /\ call[w] = Idle /\ Foremost(e)
  /\ LET tries == Min({event[e].attempts + 1, MaxAttempts})
     IN  IF ref[e[1]] > e[2]
         THEN /\ event' = [event EXCEPT ![e].status = "permanent_failure",
                              ![e].class = "superseded", ![e].mark = 0,
                              ![e].lease = "none", ![e].attempts = tries]
              /\ UNCHANGED call
         ELSE /\ event' = [event EXCEPT ![e].status = "sending", ![e].lease = "live",
                              ![e].attempts = tries]
              /\ call' = [call EXCEPT ![w] = [at |-> "upsert", event |-> e, tries |-> tries]]
  /\ UNCHANGED <<version, created, ref, scan, vendor, accepted, faults, asks>>

Release(w) == call' = [call EXCEPT ![w] = Idle]

\* The catch of deliverOne(): last_error is written anew, with the class alone.
Failed(e, class, tries) ==
  LET final == class = "rejected" \/ tries >= MaxAttempts
      status == CASE class = "unknown" -> "unknown_outcome"
                  [] class # "unknown" /\ final -> "permanent_failure"
                  [] OTHER -> "retryable_failure"
  IN  event' = [event EXCEPT ![e].status = status, ![e].class = class, ![e].mark = 0,
                  ![e].lease = "none", ![e].waits = (status = "retryable_failure")]

\* The vendor keeps the newest version: it answers an older one with 409.
VendorTakes(e) ==
  /\ e \notin Refused /\ vendor[e[1]] <= e[2]
  /\ vendor' = [vendor EXCEPT ![e[1]] = e[2]]
  /\ accepted' = accepted \cup {e}

UpsertSucceeds(w) ==
  /\ call[w].at = "upsert" /\ VendorTakes(call[w].event)
  /\ call' = [call EXCEPT ![w].at = "read"]
  /\ UNCHANGED <<version, event, created, ref, scan, faults, asks>>

UpsertIsRefused(w) ==
  /\ call[w].at = "upsert"
  /\ LET e == call[w].event
     IN  /\ e \in Refused \/ vendor[e[1]] > e[2]
         /\ Failed(e, "rejected", call[w].tries)
  /\ Release(w)
  /\ UNCHANGED <<version, created, ref, scan, vendor, accepted, faults, asks>>

\* A timeout, a broken connection or a server error, before or after the write.
UpsertBreaks(w) ==
  /\ call[w].at = "upsert" /\ Spend
  /\ VendorTakes(call[w].event) \/ UNCHANGED <<vendor, accepted>>
  /\ \E class \in {"transport", "unknown"} : Failed(call[w].event, class, call[w].tries)
  /\ Release(w)
  /\ UNCHANGED <<version, created, ref, scan, asks>>

\* The vendor's record proves a version when it is that version or a newer one.
AnyRecord(back, e) == back > 0                   \* Fault: whatever version it has.
Proves(back, e) == back >= e[2]

\* crm_external_refs keeps the newest confirmed version.
Confirm(e) == ref' = [ref EXCEPT ![e[1]] = Max({@, e[2]})]

\* The read-back: only the vendor's own record proves the delivery.
ReadBack(w) ==
  /\ call[w].at = "read"
  /\ LET e == call[w].event
     IN  \/ /\ Proves(vendor[e[1]], e)
            /\ event' = [event EXCEPT ![e].status = "delivered", ![e].external = TRUE,
                 ![e].stamped = TRUE, ![e].lease = "none", ![e].class = "none", ![e].mark = 0]
            /\ Confirm(e) /\ UNCHANGED faults
         \/ /\ Spend                                      \* unanswered, or not our version
            /\ event' = [event EXCEPT ![e].status = "unknown_outcome", ![e].external = TRUE,
                 ![e].stamped = FALSE, ![e].lease = "none", ![e].class = "none", ![e].mark = 0]
            /\ UNCHANGED ref
  /\ Release(w)
  /\ UNCHANGED <<version, created, scan, vendor, accepted, asks>>

-----------------------------------------------------------------------------
(* reconcile(): the rows are read once; each is asked for and then written  *)
(* as it was read.                                                          *)
Share == Max({1, ScanLimit \div 4})
Upto(s, n) == SubSeq(s, 1, Min({n, Len(s)}))
OfStatus(S) == SelectSeq(created, LAMBDA e : event[e].status \in S)
LiveRows == Upto(OfStatus({"unknown_outcome"}) \o OfStatus({"retryable_failure"}),
                 ScanLimit - Share)
DeadRows == Upto(OfStatus({"permanent_failure"}), ScanLimit - Len(LiveRows))

StartScan ==
  /\ scan.at = "idle" /\ LiveRows \o DeadRows # <<>>
  /\ scan' = [at |-> "ask", left |-> LiveRows \o DeadRows, back |-> 0,
              seen |-> [e \in Range(LiveRows \o DeadRows) |->
                          [status |-> event[e].status, class |-> event[e].class,
                           mark |-> event[e].mark]]]
  /\ UNCHANGED <<version, event, created, ref, call, vendor, accepted, faults, asks>>

NextRow ==
  IF Len(scan.left) = 1 THEN Resting
  ELSE [scan EXCEPT !.at = "ask", !.left = Tail(@), !.back = 0]

ScanAsks ==
  /\ scan.at = "ask"
  /\ \/ scan' = [scan EXCEPT !.at = "write", !.back = vendor[Head(scan.left)[1]]]
        /\ UNCHANGED faults
     \/ Spend /\ scan' = NextRow                          \* unreachable
  /\ UNCHANGED <<version, event, created, ref, call, vendor, accepted, asks>>

\* Fault: whatever the CRM holds was delivered just now.
ReconciledStamped(row) == [row EXCEPT !.status = "reconciled", !.lease = "none",
                                      !.stamped = TRUE]
Reconciled(row) == [row EXCEPT !.status = "reconciled", !.lease = "none",
                               !.stamped = @ \/ row.external]
Requeued(row, mark) ==
  [row EXCEPT !.status = "pending", !.waits = FALSE, !.lease = "none", !.attempts = 0,
              !.class = "transport", !.mark = mark + 1]

\* A row an outage killed, which has requeues left.
CasualtyInTime(was) ==                           \* Fault: only before its last attempt.
  was.status = "retryable_failure" /\ was.class = "transport" /\ was.mark \in 0..(MaxRequeues - 1)
Casualty(was) ==
  was.status = "permanent_failure" /\ was.class = "transport" /\ was.mark \in 0..(MaxRequeues - 1)

ScanWrites ==
  /\ scan.at = "write" /\ scan' = NextRow
  /\ LET e == Head(scan.left)
         was == scan.seen[e]
     IN  IF Proves(scan.back, e)
         THEN event' = [event EXCEPT ![e] = Reconciled(@)] /\ Confirm(e)
         ELSE /\ event' = [event EXCEPT ![e] =
                   CASE was.status = "unknown_outcome" ->
                          [@ EXCEPT !.status = "pending", !.waits = FALSE]
                     [] Casualty(was) -> Requeued(@, was.mark)
                     [] OTHER -> @]
              /\ UNCHANGED ref
  /\ UNCHANGED <<version, created, call, vendor, accepted, faults, asks>>

-----------------------------------------------------------------------------
Retry(e) ==
  /\ asks < MaxAsks /\ asks' = asks + 1
  /\ event[e].status \in {"retryable_failure", "permanent_failure", "unknown_outcome"}
  /\ event' = [event EXCEPT ![e].status = "pending", ![e].waits = FALSE,
                            ![e].lease = "none", ![e].attempts = 0]
  /\ UNCHANGED <<version, created, ref, call, scan, vendor, accepted, faults>>

LeaseEnds(e) ==
  /\ event[e] # NoRow /\ event[e].lease = "live"
  /\ event' = [event EXCEPT ![e].lease = "expired"]
  /\ UNCHANGED <<version, created, ref, call, scan, vendor, accepted, faults, asks>>

WaitEnds(e) ==
  /\ event[e] # NoRow /\ event[e].waits
  /\ event' = [event EXCEPT ![e].waits = FALSE]
  /\ UNCHANGED <<version, created, ref, call, scan, vendor, accepted, faults, asks>>

Crash(w) ==
  /\ call[w] # Idle /\ Spend
  /\ Release(w) /\ scan' = Resting
  /\ UNCHANGED <<version, event, created, ref, vendor, accepted, asks>>

Init ==
  /\ version = [x \in Entities |-> 0]
  /\ event = [e \in Events |-> NoRow] /\ created = <<>>
  /\ ref = [x \in Entities |-> 0] /\ vendor = [x \in Entities |-> 0]
  /\ call = [w \in Workers |-> Idle] /\ scan = Resting
  /\ accepted = {} /\ faults = 0 /\ asks = 0

Next ==
  \/ \E x \in Entities : Emit(x)
  \/ \E w \in Workers : \/ \E e \in Events : Pick(w, e)
                        \/ UpsertSucceeds(w) \/ UpsertIsRefused(w) \/ UpsertBreaks(w)
                        \/ ReadBack(w) \/ Crash(w)
  \/ StartScan \/ ScanAsks \/ ScanWrites
  \/ \E e \in Events : Retry(e) \/ LeaseEnds(e) \/ WaitEnds(e)

Spec == Init /\ [][Next]_vars

\* The tick and the minute's reconciliation run for ever, calls end, and leases
\* and backoffs are clock times.
FairCrm ==
  /\ Spec
  /\ \A w \in Workers :
       /\ SF_vars(\E e \in Events : Pick(w, e))
       /\ WF_vars(UpsertSucceeds(w) \/ UpsertIsRefused(w) \/ UpsertBreaks(w))
       /\ WF_vars(ReadBack(w))
  /\ WF_vars(StartScan) /\ WF_vars(ScanAsks) /\ WF_vars(ScanWrites)
  /\ \A e \in Events : WF_vars(LeaseEnds(e)) /\ WF_vars(WaitEnds(e))

-----------------------------------------------------------------------------
(* What counts as delivered or reconciled, the CRM holds, in that version   *)
(* or a newer one: whichever of a delivery, the reconciliation and a retry  *)
(* wrote the row last (crm.mjs:142-152, 196-207).                           *)
DeliveredIsHeld ==
  \A e \in Events :
    event[e].status \in {"delivered", "reconciled"} => vendor[e[1]] >= e[2]

(* delivered_at is only on rows the CRM took: a row it holds in a newer     *)
(* version, which was never sent itself, has none (crm.mjs:145-149, 199-202). *)
StampedWasAccepted ==
  \A e \in Events : event[e] # NoRow /\ event[e].stamped => e \in accepted

(* The CRM ends up with every version that was queued or a newer one, or    *)
(* the row says that the vendor rejected it: outages, lost answers and      *)
(* crashes only delay it (crm.mjs:167-238, worker.mjs:129-141).             *)
CrmCatchesUp ==
  \A e \in Events :
    event[e] # NoRow ~> \/ vendor[e[1]] >= e[2]
                        \/ event[e].status = "permanent_failure" /\ event[e].class = "rejected"
=============================================================================
