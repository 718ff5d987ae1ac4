---------------------------- MODULE DrawPromise ----------------------------
(***************************************************************************)
(* What the draw service promises to an outsider who holds the bundles of  *)
(* a period (src/draw.mjs, its header): a draw's pool and seed are sealed  *)
(* in one step, its result is what they determine and appears after them,  *)
(* it is endorsed before it is announced, it is only ever discarded as a   *)
(* whole, and a period has one draw that is not discarded.                 *)
(*                                                                         *)
(* Nothing here knows about reservations, resumed executions, accounts,    *)
(* crashes between statements or the order of database updates: Draws does *)
(* and implements this specification.                                      *)
(***************************************************************************)
CONSTANTS
  Ids,          \* draws that may ever be sealed
  Contents,     \* everything a seal fixes: period, pool, exclusions and seed
  PeriodOfSeal(_),
  Outcome(_),   \* the result that sealed content determines
  NoResult

VARIABLES
  stage,    \* [Ids -> Stage]
  sealed,   \* [Ids -> Contents]; meaningful from "sealed" on
  result    \* [Ids -> results]

promiseVars == <<stage, sealed, result>>

Stage == {"none", "sealed", "drawn", "endorsed", "announced", "discarded"}

\* The draws of a period that are still in force.
InForce(p) ==
  {d \in Ids : stage[d] \notin {"none", "discarded"} /\ PeriodOfSeal(sealed[d]) = p}

Init ==
  /\ stage = [d \in Ids |-> "none"]
  /\ sealed \in [Ids -> Contents]
  /\ result = [d \in Ids |-> NoResult]

\* A seal may replace the draw in force, which it discards in the same step.
Seal(d, replaced) ==
  /\ stage[d] = "none"
  /\ sealed' \in [Ids -> Contents]
  /\ \A c \in Ids \ {d} : sealed'[c] = sealed[c]
  /\ InForce(PeriodOfSeal(sealed'[d])) \subseteq replaced
  /\ stage' = [c \in Ids |-> IF c = d THEN "sealed"
                             ELSE IF c \in replaced THEN "discarded" ELSE stage[c]]
  /\ UNCHANGED result

Draw(d) ==
  /\ stage[d] = "sealed"
  /\ stage' = [stage EXCEPT ![d] = "drawn"]
  /\ result' = [result EXCEPT ![d] = Outcome(sealed[d])]
  /\ UNCHANGED sealed

Endorse(d) ==
  /\ stage[d] = "drawn"
  /\ stage' = [stage EXCEPT ![d] = "endorsed"]
  /\ UNCHANGED <<sealed, result>>

Announce(d) ==
  /\ stage[d] = "endorsed"
  /\ stage' = [stage EXCEPT ![d] = "announced"]
  /\ UNCHANGED <<sealed, result>>

Discard(d) ==
  /\ stage[d] # "none"
  /\ stage' = [stage EXCEPT ![d] = "discarded"]
  /\ UNCHANGED <<sealed, result>>

Next ==
  \E d \in Ids :
    \/ \E replaced \in SUBSET {c \in Ids : stage[c] # "none"} : Seal(d, replaced)
    \/ Draw(d) \/ Endorse(d) \/ Announce(d) \/ Discard(d)

Spec == Init /\ [][Next]_promiseVars
=============================================================================
