------------------------------- MODULE Outbox -------------------------------
(***************************************************************************)
(* The transactional outbox for WhatsApp messages (src/src/outbox.mjs),    *)
(* drained by the worker of every process that shares the database         *)
(* (src/src/worker.mjs, src/src/worker.js): the row of each message, the   *)
(* lease a worker takes before it hands the message to the provider, the   *)
(* answers of the provider, late or lost, its delivery callbacks, the      *)
(* operator's Retry and the erasure of the recipient.                      *)
(*                                                                         *)
(* A worker reads a row, leases it, asks the recipient policy and awaits   *)
(* the provider in separate steps: another process, a callback or an       *)
(* operator may act between any two of them.                               *)
(***************************************************************************)
EXTENDS Integers, FiniteSets, Sequences

CONSTANTS
  Messages,      \* idempotency keys; all of them address one recipient
  Replies,       \* those with purpose 'reply'
  Support,       \* those with purpose 'support'
  Workers,       \* worker loops on the same database
  MaxAttempts,   \* MAX_ATTEMPTS
  MaxAsks,       \* bound: enqueue and operator retries of one message
  Drops          \* whether a connection may break after the provider accepted

ASSUME OutboxAssumption ==
  /\ Replies \subseteq Messages /\ Support \subseteq Messages
  /\ MaxAttempts \in Nat \ {0} /\ MaxAsks \in Nat \ {0}
  /\ Drops \in BOOLEAN
  /\ IsFiniteSet(Workers)

VARIABLES
  row,        \* outbound_messages
  queue,      \* the messages that were given a row, by created_at
  worker,     \* where each worker loop stands and what it read
  standing,   \* participants.status of the recipient
  gate,       \* what pause flag, allowlist and service window say
  asks,       \* enqueue and retries so far, per message
  accepts    \* messages the provider took; the last one numbers its id

vars == <<row, queue, worker, standing, gate, asks, accepts>>

-----------------------------------------------------------------------------
Queued   == {"pending", "retryable_failure"}
Proven   == {"delivered", "read"}
Failed   == {"permanent_failure", "unknown_outcome"}

NoRow == [status |-> "none",
          attempts |-> 0,
          lease |-> "none",      \* lease_until: "none", "live" or "expired"
          wait |-> "no",         \* next_attempt_at still ahead: "backoff" or "held"
          pid |-> 0,             \* provider_message_id, 0: null
          left |-> FALSE,        \* sent_at is set
          addr |-> "phone"]      \* wa_phone_uid: "phone" or "deleted"

Idle == [at |-> "idle"]
At(w, m) == worker[w].at # "idle" /\ worker[w].msg = m
InFlight(m) == \E w \in Workers : At(w, m) /\ worker[w].at # "picked"

OneMore(n) == IF n < MaxAttempts THEN n + 1 ELSE n

Init ==
  /\ row = [m \in Messages |-> NoRow]
  /\ queue = <<>>
  /\ worker = [w \in Workers |-> Idle]
  /\ standing = "active"
  /\ gate = "open"
  /\ asks = [m \in Messages |-> 0]
  /\ accepts = [m \in Messages |-> 0]

-----------------------------------------------------------------------------
(* Rows come from the other components.                                    *)

\* A key is enqueued once; enqueuing it again finds the row. The caller may
\* hold the row while an operator owns the conversation.
Enqueue(m, hold) ==
  /\ asks[m] = 0
  /\ row' = [row EXCEPT ![m] = [NoRow EXCEPT !.status = "pending",
                                             !.wait = IF hold THEN "held" ELSE "no"]]
  /\ queue' = Append(queue, m)
  /\ asks' = [asks EXCEPT ![m] = 1]
  /\ UNCHANGED <<worker, standing, gate, accepts>>

ReleaseHold ==
  /\ row' = [m \in Messages |->
               IF row[m].status = "pending" /\ row[m].wait = "held" /\ row[m].addr = "phone"
               THEN [row[m] EXCEPT !.wait = "no"] ELSE row[m]]
  /\ row' # row
  /\ UNCHANGED <<queue, worker, standing, gate, asks, accepts>>

\* Backoff and holds are instants: they pass.
WaitEnds(m) ==
  /\ row[m].wait # "no"
  /\ row' = [row EXCEPT ![m].wait = "no"]
  /\ UNCHANGED <<queue, worker, standing, gate, asks, accepts>>

-----------------------------------------------------------------------------
(* processPendingWhatsApp()                                                *)

\* Fault: the selector this module used to have takes an expired lease again.
SelectableStalled(r) ==
  r.status \in Queued \/ (r.status = "sending" /\ r.lease = "expired")
Selectable(r) == r.status \in Queued
Due(m) == Selectable(row[m]) /\ row[m].wait = "no" /\ row[m].lease # "live"

\* `next`: the oldest row that is due. What it read is used until the end.
Pick(w) ==
  /\ worker[w].at = "idle"
  /\ \E m \in Messages, i \in DOMAIN queue :
       /\ queue[i] = m /\ Due(m)
       /\ \A j \in 1..(i - 1) : ~Due(queue[j])
       /\ worker' = [worker EXCEPT ![w] =
            [at |-> "picked", msg |-> m, attempts |-> row[m].attempts, addr |-> row[m].addr]]
  /\ UNCHANGED <<row, queue, standing, gate, asks, accepts>>

\* `lease`: changes nothing when the row was taken or settled in between.
Lease(w) ==
  LET m == worker[w].msg IN
  /\ worker[w].at = "picked"
  /\ IF Selectable(row[m])
     THEN /\ row' = [row EXCEPT ![m].status = "sending", ![m].lease = "live",
                                ![m].attempts = OneMore(@)]
          /\ worker' = [worker EXCEPT ![w].at = "leased"]
     ELSE /\ worker' = [worker EXCEPT ![w] = Idle]
          /\ UNCHANGED row
  /\ UNCHANGED <<queue, standing, gate, asks, accepts>>

\* participants.status is looked up by the address of the row. After an
\* erasure no participant has the phone number any more.
MayBeContacted(m, addr) ==
  \/ m \in Replies \cup Support
  \/ addr = "phone" /\ standing # "withdrawn"

Verdict(m, addr) ==
  CASE gate = "paused"                          -> "hold"
    [] gate = "barred"                          -> "refuse"
    [] gate \in {"open", "window"} /\ ~MayBeContacted(m, addr) -> "refuse"
    [] gate = "window" /\ MayBeContacted(m, addr) /\ m \notin Replies -> "hold"
    [] OTHER                                    -> "send"

\* Every result is written by id, whatever the status has become meanwhile.
\* The row of an erased recipient may be gone.
Settle(w, outcome) ==
  LET m == worker[w].msg IN
  /\ row' = IF row[m].status = "none" THEN row
            ELSE [row EXCEPT ![m] = outcome]
  /\ worker' = [worker EXCEPT ![w] = Idle]

BlockedRow(r, hold) ==
  [r EXCEPT !.status = IF hold THEN "retryable_failure" ELSE "permanent_failure",
            !.lease = "none", !.wait = IF hold THEN "backoff" ELSE "no"]

Block(w) ==
  LET m == worker[w].msg
      v == Verdict(m, worker[w].addr) IN
  /\ worker[w].at = "leased" /\ v # "send"
  /\ Settle(w, BlockedRow(row[m], v = "hold"))
  /\ UNCHANGED <<queue, standing, gate, asks, accepts>>

Dispatch(w) ==
  LET m == worker[w].msg IN
  /\ worker[w].at = "leased" /\ Verdict(m, worker[w].addr) = "send"
  /\ worker' = [worker EXCEPT ![w].at = "sending"]
  /\ UNCHANGED <<row, queue, standing, gate, asks, accepts>>

\* The provider takes the message; the worker does not know it yet. An erased
\* address is refused.
ProviderAccepts(w) ==
  LET m == worker[w].msg IN
  /\ worker[w].at = "sending" /\ worker[w].addr = "phone"
  /\ worker' = [worker EXCEPT ![w] =
       [at |-> "accepted", msg |-> m, attempts |-> worker[w].attempts,
        addr |-> worker[w].addr, pid |-> accepts[m] + 1]]
  /\ accepts' = [accepts EXCEPT ![m] = @ + 1]
  /\ UNCHANGED <<row, queue, standing, gate, asks>>

SentRow(r, pid) ==
  [r EXCEPT !.status = "sent", !.pid = pid, !.left = TRUE, !.lease = "none"]

\* The id is null when the body of the answer could not be read.
SendSucceeds(w) ==
  /\ worker[w].at = "accepted"
  /\ \E pid \in {worker[w].pid, 0} : Settle(w, SentRow(row[worker[w].msg], pid))
  /\ UNCHANGED <<queue, standing, gate, asks, accepts>>

Exhausted(attempts) == attempts + 1 >= MaxAttempts

FailedRow(r, attempts, permanent) ==
  IF permanent \/ Exhausted(attempts)
  THEN [r EXCEPT !.status = "permanent_failure", !.lease = "none", !.wait = "no"]
  ELSE [r EXCEPT !.status = "retryable_failure", !.lease = "none", !.wait = "backoff"]

SendFails(w) ==
  /\ \/ worker[w].at = "sending"
     \/ Drops /\ worker[w].at = "accepted"
  /\ \E permanent \in BOOLEAN :
       /\ permanent => worker[w].at = "sending"
       /\ worker[w].addr = "deleted" => permanent
       /\ Settle(w, FailedRow(row[worker[w].msg], worker[w].attempts, permanent))
  /\ UNCHANGED <<queue, standing, gate, asks, accepts>>

UnknownRow(r) == [r EXCEPT !.status = "unknown_outcome", !.lease = "none", !.wait = "no"]

SendTimesOut(w) ==
  /\ worker[w].at \in {"sending", "accepted"} /\ worker[w].addr = "phone"
  /\ Settle(w, UnknownRow(row[worker[w].msg]))
  /\ UNCHANGED <<queue, standing, gate, asks, accepts>>

Work(w) ==
  \/ Pick(w) \/ Lease(w) \/ Block(w) \/ Dispatch(w) \/ ProviderAccepts(w)
  \/ SendSucceeds(w) \/ SendFails(w) \/ SendTimesOut(w)

\* The process dies with a message in its hands; the next one starts idle.
Crash(w) ==
  /\ worker[w].at \in {"leased", "sending", "accepted"}
  /\ worker' = [worker EXCEPT ![w] = Idle]
  /\ UNCHANGED <<row, queue, standing, gate, asks, accepts>>

-----------------------------------------------------------------------------
(* Leases and housekeeping                                                 *)

\* Nothing bounds the send of every transport: a lease may end under a worker
\* that still awaits its answer.
LeaseEnds(m) ==
  /\ row[m].lease = "live"
  /\ row' = [row EXCEPT ![m].lease = "expired"]
  /\ UNCHANGED <<queue, worker, standing, gate, asks, accepts>>

\* Fault: rows without a lease are reclaimed, as if the worker cleared it.
StalledUnleased(r) == r.status = "sending" /\ r.lease = "none"
Stalled(r) == r.status = "sending" /\ r.lease = "expired"

ReclaimStalled ==
  /\ \E m \in Messages : Stalled(row[m])
  /\ row' = [m \in Messages |->
               IF Stalled(row[m])
               THEN [row[m] EXCEPT !.status = "unknown_outcome", !.lease = "none"]
               ELSE row[m]]
  /\ UNCHANGED <<queue, worker, standing, gate, asks, accepts>>

-----------------------------------------------------------------------------
(* Callbacks, the operator and the recipient                               *)

\* Fault: a late 'failed' overwrites what was proven.
CalledBackUnordered(r, report) ==
  CASE report = "delivered" -> [r EXCEPT !.status = IF @ = "read" THEN @ ELSE "delivered"]
    [] report = "read"      -> [r EXCEPT !.status = "read"]
    [] report = "failed"    -> [r EXCEPT !.status = "permanent_failure"]
    [] report = "sent"      -> [r EXCEPT !.left = TRUE]
CalledBack(r, report) ==
  CASE report = "delivered" -> [r EXCEPT !.status = IF @ = "read" THEN @ ELSE "delivered"]
    [] report = "read"      -> [r EXCEPT !.status = "read"]
    [] report = "failed"    -> [r EXCEPT !.status = IF @ \in Proven THEN @ ELSE "permanent_failure"]
    [] report = "sent"      -> [r EXCEPT !.left = TRUE]

\* The provider reports on any message it took, in any order and repeatedly;
\* the row is found only by the id it holds.
MarkDelivery(m, pid, report) ==
  /\ row[m].status # "none" /\ row[m].pid = pid
  /\ row' = [row EXCEPT ![m] = CalledBack(row[m], report)]
  /\ row' # row
  /\ UNCHANGED <<queue, worker, standing, gate, asks, accepts>>

RetriedRow(r) ==
  [r EXCEPT !.status = "pending", !.wait = "no", !.lease = "none", !.attempts = 0]

Retry(m) ==
  /\ row[m].status \in {"retryable_failure"} \cup Failed
  /\ row[m].addr # "deleted"
  /\ asks[m] < MaxAsks
  /\ row' = [row EXCEPT ![m] = RetriedRow(row[m])]
  /\ asks' = [asks EXCEPT ![m] = @ + 1]
  /\ UNCHANGED <<queue, worker, standing, gate, accepts>>

ChangeGate(g) ==
  /\ gate' = g /\ gate' # gate
  /\ UNCHANGED <<row, queue, worker, standing, asks, accepts>>

WithdrawParticipant ==
  /\ standing = "active" /\ standing' = "withdrawn"
  /\ UNCHANGED <<row, queue, worker, gate, asks, accepts>>

ErasedRow(r) ==
  IF r.status = "none" \/ ~r.left THEN NoRow
  ELSE [r EXCEPT !.addr = "deleted", !.lease = "none", !.wait = "no"]

AnonymiseParticipant ==
  /\ standing # "deleted" /\ standing' = "deleted"
  /\ row' = [m \in Messages |-> ErasedRow(row[m])]
  /\ UNCHANGED <<queue, worker, gate, asks, accepts>>

-----------------------------------------------------------------------------
Next ==
  \/ \E w \in Workers : Work(w) \/ Crash(w)
  \/ \E m \in Messages :
       \/ \E hold \in BOOLEAN : Enqueue(m, hold)
       \/ WaitEnds(m) \/ LeaseEnds(m) \/ Retry(m)
       \/ \E pid \in 1..accepts[m], report \in {"sent", "delivered", "read", "failed"} :
            MarkDelivery(m, pid, report)
  \/ ReleaseHold \/ ReclaimStalled
  \/ \E g \in {"open", "paused", "window", "barred"} : ChangeGate(g)
  \/ WithdrawParticipant \/ AnonymiseParticipant

Spec == Init /\ [][Next]_vars

\* The interval timer runs every worker loop again and again, a request ends by
\* its answer or its deadline, time passes, and housekeeping runs every minute.
FairOutbox ==
  /\ Spec
  /\ \A w \in Workers : WF_vars(Work(w))
  /\ \A m \in Messages : WF_vars(WaitEnds(m)) /\ WF_vars(LeaseEnds(m))
  /\ WF_vars(ReclaimStalled)

-----------------------------------------------------------------------------
(* Properties                                                              *)

\* A message reaches the provider at most once for every time somebody asked
\* for it, by enqueuing it or by pressing Retry: no crash, late answer, expired
\* lease or second worker sends it again.
AcceptedOncePerRequest == \A m \in Messages : accepts[m] <= asks[m]

\* What the provider has proven stays proven: unless a worker still awaits an
\* answer for the message, which it will write over the row whatever that says
\* by then, a delivered row never fails again and a read row stays read
\* (markDelivery, retry and enqueue; outbox.mjs:56-84, 139-173).
DeliveryStands ==
  [][\A m \in Messages : row[m].status \in Proven /\ ~InFlight(m) =>
       /\ row'[m].status \in Proven
       /\ row[m].status = "read" => row'[m].status = "read"]_vars

\* Once nothing holds messages back, every queued or leased row comes to an end:
\* accepted, refused, or shown to an operator. (An erasure that meets a message
\* in flight takes its lease away, and then nothing reclaims the row.)
Unsettled(m) == row[m].status \in Queued \cup {"sending"} /\ row[m].addr = "phone"
EveryMessageSettles ==
  <>[](gate = "open") => \A m \in Messages : Unsettled(m) ~> ~Unsettled(m)

=============================================================================
