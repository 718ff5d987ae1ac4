------------------------------- MODULE People ------------------------------
(* Participants in src/services.mjs: registration and enrolment, a changed   *)
(* number, withdrawal and erasure, and the alert that tells operators of one *)
(* identity number behind several phones.                                    *)
EXTENDS Naturals, Sequences, FiniteSets

CONSTANTS
  MaxPersons,   \* bound: participants of one behaviour, numbered as they come
  Numbers,      \* phone numbers
  Identities,   \* fingerprints of identity numbers
  MaxAlerts     \* bound: rows of the alerts table

ASSUME PeopleAssumption == MaxPersons \in Nat /\ MaxAlerts \in Nat

VARIABLES
  person,   \* participants with their enrolment: [status, number, identity, enrolled]
  alerts    \* alerts: [key, names, open], open within the hour until acknowledged

peopleVars == <<person, alerts>>

Persons == 1 .. MaxPersons
None == "none"
NoPerson == [status |-> None, number |-> None, identity |-> None, enrolled |-> None]

PeopleInit ==
  /\ person = [p \in Persons |-> NoPerson]
  /\ alerts = <<>>

Active(p) == person[p].status = "active"
ByNumber(n) == {p \in Persons : person[p].number = n}

\* ---- alert()
(* The key of the callers that name one entity; the hour and whether anybody *)
(* acknowledged it decide between a new row and a fresh text in the old one. *)
Open(key) == {k \in DOMAIN alerts : alerts[k].key = key /\ alerts[k].open}
Row(key, names) == [key |-> key, names |-> names, open |-> TRUE]
\* As it was: a repeat within the hour left the row as it stood.
AlertsOnce(key, names) ==
  IF Open(key) # {} THEN alerts' = alerts
  ELSE Len(alerts) < MaxAlerts /\ alerts' = Append(alerts, Row(key, names))
Alerts(key, names) ==
  \/ \E k \in Open(key) : alerts' = [alerts EXCEPT ![k].names = names]
  \/ /\ Open(key) = {} /\ Len(alerts) < MaxAlerts
     /\ alerts' = Append(alerts, Row(key, names))

Shuts(rows) ==
  /\ \E k \in rows : alerts[k].open
  /\ alerts' = [k \in DOMAIN alerts |-> IF k \in rows THEN [alerts[k] EXCEPT !.open = FALSE] ELSE alerts[k]]
  /\ person' = person
HourPasses == Shuts(DOMAIN alerts)
Acknowledges(k) == k \in DOMAIN alerts /\ Shuts({k})

\* ---- registerParticipant(), enrol()
\* What the row becomes: an identity given before is kept where none is given.
Registered(p, n, i) ==
  [status |-> "active", number |-> n, enrolled |-> "yes",
   identity |-> IF i = None THEN person[p].identity ELSE i]

Sharing(p, i) == {q \in Persons \ {p} : Active(q) /\ person[q].identity = i}

(* A number without an active participant's row is a new one.                *)
IsNext(p) == person[p] = NoPerson /\ \A q \in 1 .. p - 1 : person[q] # NoPerson

(* One transaction: where no version is active, enrol() throws and undoes    *)
(* all of it.                                                                *)
Registers(p, n, i) ==
  /\ IF ByNumber(n) = {} THEN IsNext(p) ELSE p \in ByNumber(n) /\ Active(p)
  /\ person' = [person EXCEPT ![p] = Registered(p, n, i)]
  /\ IF i # None /\ Sharing(p, i) # {}
     THEN Alerts(i, {p} \cup Sharing(p, i))
     ELSE alerts' = alerts

\* ---- what staff and the participant do later
Changes(p, row) ==
  /\ person[p] # NoPerson
  /\ person' = [person EXCEPT ![p] = row]
  /\ alerts' = alerts

Withdraws(p) ==
  /\ person[p].number \in Numbers
  /\ Changes(p, [person[p] EXCEPT !.status = "withdrawn", !.enrolled = "withdrawn"])
(* The number becomes "deleted:<id>", one no message comes from.             *)
Erases(p) ==
  Changes(p, [status |-> "deleted", number |-> "deleted", identity |-> None, enrolled |-> "withdrawn"])
ChangesNumber(p, n) ==
  /\ ByNumber(n) = {}
  /\ Changes(p, [person[p] EXCEPT !.number = n])

PeopleNext ==
  \/ HourPasses
  \/ \E k \in DOMAIN alerts : Acknowledges(k)
  \/ \E p \in Persons :
       \/ Withdraws(p) \/ Erases(p)
       \/ \E n \in Numbers :
            \/ ChangesNumber(p, n)
            \/ \E i \in Identities \cup {None} : Registers(p, n, i)

\* ---- properties
(* Whenever two participants who can both win registered with one identity   *)
(* number, an alert names the two of them together, whatever alerts came     *)
(* after it in the same hour (the comments at services.mjs:354-365, 579-597).*)
ReuseIsFlagged ==
  \A p, q \in Persons :
    p # q /\ Active(p) /\ Active(q) /\ person[p].identity = person[q].identity /\ person[p].identity # None
      => \E k \in DOMAIN alerts : {p, q} \subseteq alerts[k].names
============================================================================
