---------------------------- MODULE PrizePromise ----------------------------
(***************************************************************************)
(* What the promotion promises about the prizes of one confirmed draw      *)
(* (src/winner-service.mjs, docs/runbooks/winners-claims.md): the prizes   *)
(* are offered to the drawn winners, a prize that is not taken is passed   *)
(* to one entry that has not been offered any, a prize that has been       *)
(* handed over is never passed on, and nobody is offered a second one.     *)
(* Statuses, deadlines, publication and messages are the business of       *)
(* Promotion, which implements this specification.                         *)
(***************************************************************************)
EXTENDS Naturals, FiniteSets

CONSTANTS
  Contests,    \* draws
  Tickets,     \* entries
  Prizes       \* how many prizes a draw has

VARIABLES
  offered,     \* [Contests -> SUBSET Tickets]: holders whose prize was not passed on
  passedOver,  \* [Contests -> SUBSET Tickets]: those whose prize was passed on
  given        \* [Contests -> SUBSET Tickets]: those who have collected

prizeVars == <<offered, passedOver, given>>

Fresh(c) == Tickets \ (offered[c] \cup passedOver[c] \cup given[c])

Init ==
  /\ offered = [c \in Contests |-> {}]
  /\ passedOver = [c \in Contests |-> {}]
  /\ given = [c \in Contests |-> {}]

Offer(c, ts) ==
  /\ offered[c] \cup passedOver[c] \cup given[c] = {}
  /\ Cardinality(ts) <= Prizes
  /\ offered' = [offered EXCEPT ![c] = ts]
  /\ UNCHANGED <<passedOver, given>>

\* The prize of t goes to the tickets in next: one fresh ticket, or nobody.
PassOn(c, t, next) ==
  /\ t \in offered[c]
  /\ next \subseteq Fresh(c) /\ Cardinality(next) <= 1
  /\ offered' = [offered EXCEPT ![c] = (@ \ {t}) \cup next]
  /\ passedOver' = [passedOver EXCEPT ![c] = @ \cup {t}]
  /\ UNCHANGED given

\* A draw that is discarded takes back what has not been collected.
TakeBack(c, ts) ==
  /\ ts \subseteq offered[c]
  /\ offered' = [offered EXCEPT ![c] = @ \ ts]
  /\ passedOver' = [passedOver EXCEPT ![c] = @ \cup ts]
  /\ UNCHANGED given

HandOver(c, t) ==
  /\ t \in offered[c]
  /\ offered' = [offered EXCEPT ![c] = @ \ {t}]
  /\ given' = [given EXCEPT ![c] = @ \cup {t}]
  /\ UNCHANGED passedOver

Next ==
  \E c \in Contests :
    \/ \E ts \in SUBSET Tickets : Offer(c, ts) \/ TakeBack(c, ts)
    \/ \E t \in Tickets :
         \/ HandOver(c, t)
         \/ \E next \in SUBSET Tickets : PassOn(c, t, next)

Spec == Init /\ [][Next]_prizeVars
=============================================================================
