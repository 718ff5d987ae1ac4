------------------------------- MODULE Intake -------------------------------
(***************************************************************************)
(* Inbound events (src/src/intake.mjs) in front of the conversation: the   *)
(* durable row of a message, the lease a worker takes, the photo it        *)
(* fetches, the turn, the replies and the clean-up that mark the row       *)
(* processed; retries, dead letters, the sweep and the operator's replay;  *)
(* and what staff do to the same rows meanwhile, erasure and a changed     *)
(* telephone number (src/src/services.mjs).                                *)
(***************************************************************************)
EXTENDS Conversation

CONSTANTS
  Events,         \* rows of channel_events that may be open at once
  Reuse,          \* bound: whether a row that is over serves another message
  Senders,        \* bound: the numbers that write
  Speech,         \* bound: [Events -> SUBSET Vocabulary]
  MaxAttempts,    \* EVENT_MAX_ATTEMPTS
  Numbers,        \* bound: numbers a participant may be moved to
  MaxAsks         \* bound: replays, claims, releases, withdrawals, erasures and moves

ASSUME IntakeAssumption ==
  /\ Reuse \in BOOLEAN /\ Senders \subseteq Phones /\ Numbers \subseteq Phones
  /\ Speech \in [Events -> SUBSET Vocabulary]
  /\ MaxAttempts \in Nat \ {0} /\ MaxAsks \in Nat

VARIABLES
  event,     \* channel_events
  arrived,   \* the open events, by received_at
  asks       \* what staff asked for so far

vars == <<session, person, turn, campaign, paused, collects, held, stored,
          event, arrived, asks>>

-----------------------------------------------------------------------------
Over == {"processed", "ignored"}
Waiting == {"received", "failed"}

\* An event's answer is the reply queued under conv:<event>:0 ("reference" when it
\* names the receipt). broken: a worker died on a stored photo, or outlived its
\* lease. wiped: its sender was erased while it waited and nobody had it.

\* What erasure leaves of a message; a processed one is not read again.
Erased(w) == IF IsImage(w) THEN Word("NOIMAGE", {}) ELSE Word("TEXT", Names)
Spent == Digit(0)

At(k, e) == turn[k].at # "idle" /\ turn[k].event = e
InHand(e) == \E k \in Workers : At(k, e)

\* receive(): a provider's repetition finds the row and changes nothing. The
\* row of a message that is over is reused, which forgets that message.
Receive(e, p, w) ==
  /\ event[e].status \in {"none"} \cup (IF Reuse THEN Over ELSE {})
  /\ ~InHand(e)
  /\ w \in Speech[e]
  /\ event' = [event EXCEPT ![e] =
       [status |-> "received", attempts |-> 0, lease |-> "none", phone |-> p, word |-> w,
        answer |-> "none", broken |-> FALSE, wiped |-> FALSE]]
  /\ arrived' = Append(SelectSeq(arrived, LAMBDA x : x # e), e)
  /\ stored' = stored \ {e}
  /\ UNCHANGED <<session, person, turn, campaign, paused, collects, held, asks>>

-----------------------------------------------------------------------------
(* processNext().                                                           *)
Offered(e) ==
  /\ \/ event[e].status \in Waiting /\ event[e].lease # "live"
     \/ event[e].status = "processing" /\ event[e].lease = "expired"
  /\ event[e].attempts < MaxAttempts

Oldest(e) == Offered(e) /\ Head(SelectSeq(arrived, Offered)) = e

Take(k, e) ==
  /\ Doing(k, "idle") /\ Oldest(e)
  /\ event' = [event EXCEPT ![e].status = "processing", ![e].lease = "live",
                            ![e].attempts = @ + 1,
                            ![e].broken = @ \/ InHand(e)]
  /\ turn' = [turn EXCEPT ![k] =
       [at |-> IF event[e].word.intent = "IMAGE" THEN "fetch" ELSE "handle",
        event |-> e, phone |-> event[e].phone, word |-> event[e].word,
        reply |-> "other", versioned |-> FALSE]]
  /\ UNCHANGED <<session, person, campaign, paused, collects, held, stored, arrived, asks>>

Release(k) == turn' = [turn EXCEPT ![k] = Idle]
Fails(e) ==
  LET dead == event[e].attempts >= MaxAttempts
  IN  event' = [event EXCEPT ![e].status = IF dead THEN "dead" ELSE "failed",
                             ![e].lease = IF dead THEN "none" ELSE "live"]   \* backoff

Fetched(k) ==
  /\ Doing(k, "fetch") /\ turn' = [turn EXCEPT ![k].at = "handle"]
  /\ UNCHANGED <<session, person, campaign, paused, collects, held, stored,
                 event, arrived, asks>>

\* The download or the media store fails: the turn is retried from its start.
TurnFails(k) ==
  /\ turn[k].at \in {"fetch", "store"}
  /\ Fails(turn[k].event) /\ Release(k)
  /\ UNCHANGED <<session, person, campaign, paused, collects, held, stored, arrived, asks>>

Handle(k) == Turn(k) /\ UNCHANGED <<event, arrived, asks>>

\* submit(): idempotent by message id.
Store(k) ==
  /\ Doing(k, "store")
  /\ stored' = stored \cup {turn[k].event}
  /\ turn' = [turn EXCEPT ![k].at = "save"]
  /\ UNCHANGED <<session, person, campaign, paused, collects, held, event, arrived, asks>>

\* The store refuses the bytes (BAD_TYPE and the like): answered, not retried.
Refuse(k) ==
  /\ Doing(k, "store") /\ Say(k)
  /\ UNCHANGED <<campaign, paused, collects, held, stored, event, arrived, asks>>

Save(k) == SaveSubmitted(k) /\ UNCHANGED <<event, arrived, asks>>

\* The replies go to the outbox under the event's key, then the row is processed
\* whatever became of it since it was leased.
Finish(k) ==
  LET e == turn[k].event
  IN  /\ Doing(k, "finish")
      /\ event' = [event EXCEPT ![e].status = "processed", ![e].lease = "none",
                     ![e].word = Spent,
                     ![e].answer = IF @ = "none" THEN turn[k].reply ELSE @]
      /\ Release(k)
      /\ UNCHANGED <<session, person, campaign, paused, collects, held, stored,
                     arrived, asks>>

-----------------------------------------------------------------------------
(* Time, crashes and recovery.                                              *)
LeaseEnds(e) ==
  /\ event[e].lease = "live"
  /\ event' = [event EXCEPT ![e].lease = "expired"]
  /\ UNCHANGED <<talk, arrived, asks>>

Crash(k) ==
  /\ turn[k].at # "idle"
  /\ Release(k)
  /\ event' = [event EXCEPT ![turn[k].event].broken =
                 @ \/ turn[k].event \in stored]
  /\ UNCHANGED <<session, person, campaign, paused, collects, held, stored, arrived, asks>>

SweepStranded(e) ==
  /\ event[e].status = "processing" /\ event[e].lease = "expired"
  /\ event[e].attempts >= MaxAttempts
  /\ event' = [event EXCEPT ![e].status = "dead", ![e].lease = "none"]
  /\ UNCHANGED <<talk, arrived, asks>>

Replay(e) ==
  /\ asks < MaxAsks /\ asks' = asks + 1
  /\ \/ event[e].status \in {"dead", "failed"}
     \/ event[e].status = "processing" /\ event[e].lease = "expired"
  /\ event' = [event EXCEPT ![e].status = "received", ![e].attempts = 0,
                            ![e].lease = "none"]
  /\ UNCHANGED <<talk, arrived>>

-----------------------------------------------------------------------------
(* Erasure and a changed number: one transaction each.                      *)
Gone == [status |-> "inactive", enrolled |-> FALSE]

\* What erasure cancels: the messages that could still be taken up.
CancellableReceived(e) == event[e].status \in Waiting      \* Fault: not what a dead worker left.
Cancellable(e) == event[e].status \in Waiting \cup {"processing"}

ErasedRow(e) ==
  LET kept == [event[e] EXCEPT !.phone = Deleted, !.word = Erased(@),
                 !.wiped = event[e].status \in Waiting \cup {"processing"} /\ ~InHand(e)]
  IN  IF Cancellable(e) THEN [kept EXCEPT !.status = "ignored", !.lease = "none"] ELSE kept

Anonymise(p) ==
  /\ person[p].status # "none"
  /\ person' = [person EXCEPT ![p] = Nobody, ![Deleted] = Gone]
  /\ session' = [session EXCEPT ![p] = NoRow]
  /\ held' = [held EXCEPT ![p] = "no"]        \* never sent: the rows are deleted
  /\ event' = [e \in Events |-> IF event[e].phone = p THEN ErasedRow(e) ELSE event[e]]
  /\ UNCHANGED <<turn, campaign, paused, collects, stored, arrived>>

ChangePhone(p, np) ==
  /\ person[p].status # "none" /\ person[np].status = "none" /\ p # np
  /\ person' = [person EXCEPT ![p] = Nobody, ![np] = person[p]]
  /\ event' = [e \in Events |->
       IF event[e].phone = p THEN [event[e] EXCEPT !.phone = np] ELSE event[e]]
  /\ session' = [session EXCEPT ![p] = NoRow,
                   ![np] = IF @ = NoRow THEN session[p] ELSE @]
  /\ held' = [held EXCEPT ![p] = "no",
                ![np] = IF held[p] # "no" /\ session[np] # NoRow THEN "carried"
                        ELSE IF held[p] # "no" THEN held[p] ELSE @]
  /\ UNCHANGED <<turn, campaign, paused, collects, stored, arrived>>

-----------------------------------------------------------------------------
Staff(p) ==
  /\ asks < MaxAsks /\ asks' = asks + 1
  /\ \/ /\ \/ (\E o \in Operators : ClaimHandoff(o, p))
           \/ ReleaseHandoff(p)
           \/ WithdrawParticipant(p)
        /\ UNCHANGED <<event, arrived>>
     \/ Anonymise(p)
     \/ \E np \in Numbers : ChangePhone(p, np)

Passes(p) ==
  /\ OnReceiptOutcome(p) \/ HoldExpires(p) \/ QueueTimesOut(p)
  /\ UNCHANGED <<event, arrived, asks>>

Administers == Administer /\ UNCHANGED <<event, arrived, asks>>

Init ==
  /\ ConversationInit
  /\ event = [e \in Events |->
       [status |-> "none", attempts |-> 0, lease |-> "none", phone |-> Deleted,
        word |-> Spent, answer |-> "none", broken |-> FALSE, wiped |-> FALSE]]
  /\ arrived = <<>> /\ asks = 0

Next ==
  \/ \E e \in Events, p \in Senders : \E w \in Speech[e] : Receive(e, p, w)
  \/ \E k \in Workers : \/ \E e \in Events : Take(k, e)
                        \/ Fetched(k) \/ TurnFails(k) \/ Handle(k) \/ Store(k)
                        \/ Refuse(k) \/ Save(k) \/ Finish(k) \/ Crash(k)
  \/ \E e \in Events : LeaseEnds(e) \/ SweepStranded(e) \/ Replay(e)
  \/ \E p \in Phones : Staff(p)
  \/ \E p \in Addresses : Passes(p)
  \/ Administers

Spec == Init /\ [][Next]_vars

-----------------------------------------------------------------------------
(* A photo that became a receipt is acknowledged with its reference by the  *)
(* time its message counts as processed, whatever moved the session while   *)
(* the photo was being stored (conversation.mjs:486-500).  The turns that a *)
(* worker died on, or that outlived its lease, are exempt: after them the   *)
(* message may be processed, or given up, without that answer.              *)
StoredReceiptIsAcknowledged ==
  \A e \in stored : event[e].status = "processed" /\ ~event[e].broken
                      => event[e].answer = "reference"

(* No worker takes up a message whose sender was erased while it waited,    *)
(* failed, or lay abandoned by a worker that had died: its text and number  *)
(* are gone and there is nobody to answer (services.mjs:448-456).           *)
ErasedStaysGone == \A e \in Events : event[e].wiped => ~InHand(e)

(* Receipt outcomes are held back only while somebody owns the              *)
(* conversation: whoever ends a handoff lets them go                        *)
(* (conversation.mjs:547-557).                                              *)
HeldOnlyWhileOwned ==
  \A p \in Phones : held[p] = "held" => session[p] # NoRow /\ session[p].owner # "none"

(* Every number a list shows can be chosen: 0 and 8 mean it before they     *)
(* mean the menu and the help (conversation.mjs:203-217).                   *)
EveryOptionCanBeChosen ==
  \A p \in Phones : session[p] # NoRow /\ session[p].owner = "none" /\ campaign # "closed" =>
    LET s == session[p]
        shown == CASE s.state = "REG_CONFIRM" -> Len(ConfirmFields)
                   [] s.state \in OutletStates \cup {"WINNERS"} -> Len(s.nav.options)
                   [] OTHER -> 0
    IN  \A n \in 1..shown : n > 9 \/ Route(s, Digit(n), FALSE) = s.state

(* Nobody is registered who was not asked for first name, surname and town  *)
(* on the way, in whatever order the answers were given, corrected and      *)
(* taken back (conversation.mjs:360-410).                                   *)
TermsComeLast ==
  [][\A p \in Phones :
       person[p].status = "none" /\ person'[p].status = "active"
       /\ (\A q \in Phones : person[q].status # "none" => person'[q] = person[q])
       => session[p] # NoRow /\ Names \subseteq session[p].got]_vars

(* No turn takes a conversation from the operator who claimed it, neither   *)
(* the timeout of the queue nor a submission that began before the claim    *)
(* (conversation.mjs:160-175, 496-501).                                     *)
ClaimIsKept ==
  [][turn' # turn =>
       \A p \in Phones : session[p] # NoRow /\ session[p].owner \in Operators =>
         session'[p] # NoRow /\ session'[p].owner = session[p].owner]_vars
=============================================================================
