---------------------------- MODULE IntakeProofs ----------------------------
(* Proofs about inbound events and the conversation, for any number of        *)
(* messages, telephone numbers, workers and operators.                        *)
EXTENDS Intake, TLAPS

\* ---- sessions
IsSession(s) ==
  s \in [state : {s.state}, got : {s.got}, back : BOOLEAN, nav : {s.nav}, picked : {s.picked},
         last : {s.last}, active : {s.active}, owner : {s.owner}, overdue : {s.overdue},
         readers : {s.readers}]

\* The answers a registration has by the time it asks a question; back says that it
\* returns to the confirmation.
Needs(st) ==
  IF st = "REG_SURNAME" THEN {"REG_FIRST"}
  ELSE IF st \in {"REG_IDENTITY", "REG_LOCATION"} THEN {"REG_FIRST", "REG_SURNAME"}
  ELSE IF st \in {"REG_CONFIRM", "REG_TERMS"} THEN Names
  ELSE {}
Proper(s) ==
  /\ IsSession(s)
  /\ Needs(s.state) \subseteq s.got
  /\ (s.back = TRUE) => Names \subseteq s.got

LEMMA NeedsNames == ASSUME NEW st PROVE Needs(st) \subseteq Names
BY DEF Needs, Names

LEMMA FreshIsProper == Proper(Fresh) /\ Fresh.owner = "none"
BY DEF Proper, IsSession, Fresh, Needs

LEMMA ProperIsARow == ASSUME NEW s, Proper(s) PROVE s # NoRow
<1>1. "got" \in DOMAIN s  BY DEF Proper, IsSession
<1>2. "got" \notin DOMAIN NoRow  BY DEF NoRow
<1>3. QED BY <1>1, <1>2

\* What the updates of a session leave: a proper row, and who owns it.
Follows(s, t) == Proper(t) /\ t.owner = s.owner

LEMMA Marks ==
  ASSUME NEW s, Proper(s), NEW x, NEW y
  PROVE  /\ Follows(s, [s EXCEPT !.readers = x]) /\ Follows(s, [s EXCEPT !.active = x])
         /\ Follows(s, [s EXCEPT !.overdue = x])
         /\ Follows(s, [s EXCEPT !.last = x, !.active = y])
         /\ Proper([s EXCEPT !.owner = x, !.overdue = y])
         /\ [s EXCEPT !.owner = x, !.overdue = y].owner = x
BY DEF Follows, Proper, IsSession

\* A conversation that leaves registration, or goes somewhere else outside it.
LEMMA Moves ==
  ASSUME NEW s, Proper(s), NEW st, Needs(st) = {}, NEW x, NEW y
  PROVE  /\ Follows(s, [s EXCEPT !.state = st])
         /\ Follows(s, [s EXCEPT !.state = st, !.nav = x])
         /\ Follows(s, [s EXCEPT !.state = st, !.nav = NoNav, !.picked = x])
         /\ Follows(s, [s EXCEPT !.state = st, !.nav = NoNav, !.last = x, !.active = y])
         /\ Proper([s EXCEPT !.state = st, !.owner = x, !.overdue = y])
         /\ [s EXCEPT !.state = st, !.owner = x, !.overdue = y].owner = x
<1>1. Follows(s, [s EXCEPT !.state = st])  BY DEF Follows, Proper, IsSession
<1>2. Follows(s, [s EXCEPT !.state = st, !.nav = x])  BY DEF Follows, Proper, IsSession
<1>3. Follows(s, [s EXCEPT !.state = st, !.nav = NoNav, !.picked = x])
  BY DEF Follows, Proper, IsSession
<1>4. Follows(s, [s EXCEPT !.state = st, !.nav = NoNav, !.last = x, !.active = y])
  BY DEF Follows, Proper, IsSession
<1>5. /\ Proper([s EXCEPT !.state = st, !.owner = x, !.overdue = y])
      /\ [s EXCEPT !.state = st, !.owner = x, !.overdue = y].owner = x
  BY DEF Follows, Proper, IsSession
<1>6. QED BY <1>1, <1>2, <1>3, <1>4, <1>5

LEMMA AtHomeFollows == ASSUME NEW s, Proper(s) PROVE Follows(s, AtHome(s)) /\ Follows(s, Cleared(s))
<1>1. Follows(s, AtHome(s))  BY DEF Follows, Proper, IsSession, AtHome, Needs
<1> DEFINE h == AtHome(s)
<1>2. Proper(h) /\ h.owner = s.owner  BY <1>1 DEF Follows
<1> HIDE DEF h
<1>3. Follows(s, [h EXCEPT !.last = FALSE])  BY <1>2 DEF Follows, Proper, IsSession
<1>4. QED BY <1>1, <1>3 DEF Cleared, h

\* A registration that starts, or starts over with what is known already.
LEMMA StartsRegistration ==
  ASSUME NEW s, Proper(s), NEW known
  PROVE  /\ Follows(s, [AtHome(s) EXCEPT !.state = "REG_TERMS", !.got = Names])
         /\ Follows(s, [AtHome(s) EXCEPT !.state = "REG_FIRST", !.got = known])
<1> DEFINE h == AtHome(s)
<1>1. Proper(h) /\ h.owner = s.owner /\ h.back = FALSE
  <2>1. h.back = FALSE  BY DEF AtHome, Proper, IsSession
  <2>2. QED BY <2>1, AtHomeFollows DEF Follows
<1> HIDE DEF h
<1>2. Follows(s, [h EXCEPT !.state = "REG_TERMS", !.got = Names])
  BY <1>1, NeedsNames DEF Follows, Proper, IsSession
<1>3. Follows(s, [h EXCEPT !.state = "REG_FIRST", !.got = known])
  BY <1>1 DEF Follows, Proper, IsSession, Needs
<1>4. QED BY <1>2, <1>3 DEF h

\* ---- registration
LEMMA CaptureFollows ==
  ASSUME NEW s, Proper(s), s.state \in {"REG_FIRST", "REG_SURNAME", "REG_IDENTITY", "REG_LOCATION"}
  PROVE  Follows(s, Capture(s))
<1> DEFINE given == [s EXCEPT !.got = @ \cup {s.state}]
<1>1. /\ IsSession(given) /\ given.owner = s.owner /\ given.state = s.state
      /\ given.back = s.back /\ given.got = s.got \cup {s.state}
  BY DEF Proper, IsSession
<1> HIDE DEF given
<1>2. CASE s.back \/ s.state = "REG_LOCATION"
  <2>1. Names \subseteq given.got
    BY <1>1, <1>2 DEF Proper, IsSession, Needs, Names
  <2>2. Follows(s, [given EXCEPT !.state = "REG_CONFIRM", !.back = FALSE])
    BY <1>1, <2>1, NeedsNames DEF Follows, Proper, IsSession
  <2>3. QED BY <1>2, <2>2 DEF Capture, given
<1>3. CASE ~(s.back \/ s.state = "REG_LOCATION")
  <2>1. Needs(Following(s.state)) \subseteq given.got
    BY <1>1, <1>3 DEF Proper, Needs, Following, Names
  <2> DEFINE next == Following(s.state)
  <2> HIDE DEF next
  <2>2. Needs(next) \subseteq given.got  BY <2>1 DEF next
  <2>3. s.back = FALSE  BY <1>3 DEF Proper, IsSession
  <2>4. Follows(s, [given EXCEPT !.state = next])
    BY <1>1, <2>2, <2>3 DEF Follows, Proper, IsSession
  <2>5. QED BY <1>3, <2>4 DEF Capture, given, next
<1>4. QED BY <1>2, <1>3

LEMMA PreviousFollows ==
  ASSUME NEW s, Proper(s), s.state \in RegStates, s.state # "REG_FIRST"
  PROVE  Follows(s, [s EXCEPT !.state = Previous(@)])
<1> DEFINE st == Previous(s.state)
<1>1. Needs(st) \subseteq Needs(s.state)
  BY DEF RegStates, Previous, BeforeLocation, Needs, Names
<1> HIDE DEF st
<1>2. Follows(s, [s EXCEPT !.state = st])  BY <1>1 DEF Follows, Proper, IsSession
<1>3. QED BY <1>2 DEF st

LEMMA ConfirmFollows ==
  ASSUME NEW s, Proper(s), s.state = "REG_CONFIRM", NEW st
  PROVE  /\ Follows(s, [s EXCEPT !.state = "REG_TERMS"])
         /\ Follows(s, [s EXCEPT !.back = TRUE, !.state = st])
<1>1. Names \subseteq s.got  BY DEF Proper, Needs
<1>2. Needs("REG_TERMS") \subseteq s.got /\ Needs(st) \subseteq s.got  BY <1>1, NeedsNames
<1>3. QED BY <1>1, <1>2 DEF Follows, Proper, IsSession

\* ---- branches, photos
LEMMA NothingNeeded ==
  \A st \in OutletStates \cup {"HOME", "ENTRY_RECEIPT", "WINNERS", "SUPPORT"} : Needs(st) = {}
BY DEF OutletStates, Needs

LEMMA ListsFollow ==
  ASSUME NEW s, Proper(s), NEW S, NEW page
  PROVE  /\ Follows(s, ShowRetailers(s, page)) /\ Follows(s, ShowBranches(s, S, page))
         /\ Follows(s, ShowTowns(s, S, page)) /\ Follows(s, ShowSearch(s, S, page))
<1>1. Follows(s, ShowRetailers(s, page)) /\ Follows(s, ShowBranches(s, S, page))
      /\ Follows(s, ShowBranches(s, S, 0))
  BY NothingNeeded, Moves DEF ShowRetailers, ShowBranches, OutletStates
<1>2. Follows(s, ShowTowns(s, S, page))  BY <1>1, NothingNeeded, Moves DEF ShowTowns, OutletStates
<1>3. Follows(s, ShowSearch(s, S, page))
  <2>1. CASE S = {}  BY <2>1 DEF ShowSearch, Follows
  <2>2. CASE S # {}
    <3> DEFINE nav == Listing("outlet", Branches(S), page, S)
    <3>1. Needs("OUTLET_SEARCH") = {}  BY NothingNeeded DEF OutletStates
    <3>2. Follows(s, [s EXCEPT !.state = "OUTLET_SEARCH", !.nav = nav])  BY <3>1, Moves
    <3>3. QED BY <2>2, <3>2 DEF ShowSearch
  <2>3. QED BY <2>1, <2>2
<1>4. QED BY <1>1, <1>2, <1>3

LEMMA NextPageFollows ==
  ASSUME NEW s, Proper(s), s.state \in OutletStates PROVE Follows(s, NextPage(s))
BY ListsFollow DEF NextPage, OutletStates

LEMMA SubmittedFollows ==
  ASSUME NEW s, Proper(s) PROVE Follows(s, AfterSubmit(s)) /\ Follows(s, Reapplied(s))
<1>1. Follows(s, Reapplied(s))  BY NothingNeeded, Moves DEF Reapplied
<1> DEFINE h == AtHome(s)
<1>2. Proper(h) /\ h.owner = s.owner  BY AtHomeFollows DEF Follows
<1> HIDE DEF h
<1>3. Follows(h, [h EXCEPT !.last = TRUE, !.active = TRUE])  BY <1>2, Marks
<1>4. QED BY <1>1, <1>2, <1>3 DEF AfterSubmit, Follows, h

\* ---- the invariant of the sessions
Owned(p) == session[p] # NoRow /\ session[p].owner # "none"
Turns ==
  {Idle} \cup
  [at : {"fetch", "handle", "store", "save", "finish"}, event : Events, phone : Addresses,
   word : Vocabulary, reply : {"other", "reference"}, versioned : BOOLEAN]

SessionTypes ==
  /\ session = [p \in Addresses |-> session[p]] /\ held = [p \in Addresses |-> held[p]]
  /\ person = [p \in Addresses |-> person[p]]
  /\ turn \in [Workers -> Turns]
  /\ \A p \in Addresses : session[p] = NoRow \/ Proper(session[p])

SessionInv == SessionTypes /\ \A p \in Addresses : held[p] = "held" => Owned(p)

\* The row of one number is written, with an owner.
Writes(p, o) ==
  \E s : Proper(s) /\ s.owner = o /\ session' = [session EXCEPT ![p] = s]

LEMMA RowIsProper == ASSUME SessionInv, NEW p \in Addresses PROVE Proper(Row(p))
BY FreshIsProper DEF SessionInv, SessionTypes, Row

LEMMA SavedWrites ==
  ASSUME NEW p, NEW s, Proper(s), session' = Saved(p, s) PROVE Writes(p, s.owner)
<1>1. Follows(s, [s EXCEPT !.readers = {}])  BY Marks
<1>2. QED BY <1>1 DEF Saved, Writes, Follows

LEMMA BusyTurn ==
  ASSUME SessionInv, NEW k \in Workers, turn[k].at # "idle"
  PROVE  /\ turn[k] \in [at : {"fetch", "handle", "store", "save", "finish"}, event : Events,
                         phone : Addresses, word : Vocabulary, reply : {"other", "reference"},
                         versioned : BOOLEAN]
         /\ turn[k].phone \in Addresses /\ turn[k].event \in Events /\ turn[k].word \in Vocabulary
<1>1. turn[k] \in Turns /\ turn[k] # Idle  BY DEF SessionInv, SessionTypes, Idle
<1>2. QED BY <1>1 DEF Turns

\* ---- a turn
\* The turn goes on under the same message, with another answer than a reference.
Continues(k) ==
  \E t \in Turns : /\ turn' = [turn EXCEPT ![k] = t] /\ t.event = turn[k].event
                   /\ t.at \in {"finish", "store"} /\ (t.at = "finish" => t.reply = "other")

\* What it does to the row of its number.
Keeps(k, s) == UNCHANGED session \/ Writes(turn[k].phone, s.owner)
Registers(k, s) ==
  /\ s.state = "REG_TERMS"
  /\ person' = [person EXCEPT ![turn[k].phone] = [status |-> "active", enrolled |-> TRUE]]

LEMMA AnswerContinues ==
  ASSUME SessionInv, NEW k \in Workers, Doing(k, "handle") \/ Doing(k, "store"), Answer(k)
  PROVE  Continues(k)
<1> DEFINE t == [turn[k] EXCEPT !.at = "finish", !.reply = "other"]
<1>1. turn[k].at # "idle"  BY DEF Doing
<1>2. turn' = [turn EXCEPT ![k] = t]  BY DEF Answer
<1>3. t \in Turns /\ t.event = turn[k].event /\ t.at = "finish" /\ t.reply = "other"
  BY <1>1, BusyTurn DEF Turns
<1> HIDE DEF t
<1>4. QED BY <1>2, <1>3 DEF Continues

LEMMA GoWrites ==
  ASSUME SessionInv, NEW k \in Workers, Doing(k, "handle"), NEW s, NEW t, Proper(t), t.owner = s.owner,
         Go(k, t)
  PROVE  Continues(k) /\ Keeps(k, s) /\ UNCHANGED person
BY AnswerContinues, SavedWrites DEF Go, Keeps

LEMMA SayKeeps ==
  ASSUME SessionInv, NEW k \in Workers, Doing(k, "handle"), NEW s, Say(k)
  PROVE  Continues(k) /\ Keeps(k, s) /\ UNCHANGED person
BY AnswerContinues DEF Say, Keeps

LEMMA SubmitKeeps ==
  ASSUME SessionInv, NEW k \in Workers, Doing(k, "handle"), Submit(k)
  PROVE  Continues(k) /\ Keeps(k, Row(turn[k].phone)) /\ UNCHANGED person
<1> DEFINE p == turn[k].phone
           versioned == session[p] # NoRow
           t == [turn[k] EXCEPT !.at = "store", !.versioned = versioned]
<1>1. turn[k].at # "idle" /\ p \in Addresses  BY BusyTurn DEF Doing
<1>2. turn' = [turn EXCEPT ![k] = t] /\ UNCHANGED person  BY DEF Submit
<1>3. versioned \in BOOLEAN  OBVIOUS
<1> HIDE DEF versioned
<1>4. t \in Turns /\ t.event = turn[k].event /\ t.at = "store"
  BY <1>1, <1>3, BusyTurn DEF Turns
<1> HIDE DEF t
<1>5. Continues(k)  BY <1>2, <1>4 DEF Continues
<1>6. CASE session[p] = NoRow  BY <1>2, <1>5, <1>6 DEF Submit, Keeps
<1>7. CASE session[p] # NoRow
  <2>1. Proper(session[p]) /\ Row(p) = session[p]
    BY <1>1, <1>7 DEF SessionInv, SessionTypes, Row
  <2>2. session' = [session EXCEPT ![p] = [session[p] EXCEPT !.readers = @ \cup {k}]]
    BY <1>7 DEF Submit
  <2>3. Follows(session[p], [session[p] EXCEPT !.readers = @ \cup {k}])  BY <2>1, Marks
  <2>4. QED BY <1>2, <1>5, <2>1, <2>2, <2>3 DEF Keeps, Writes, Follows
<1>8. QED BY <1>6, <1>7

Goes(k, s) == Continues(k) /\ Keeps(k, s) /\ (UNCHANGED person \/ Registers(k, s))

\* A turn in a state: s is the row of the number as the turn reads it.
LEMMA GoesOn ==
  ASSUME SessionInv, NEW k \in Workers, Doing(k, "handle"), NEW s, NEW t, Follows(s, t), Go(k, t)
  PROVE  Goes(k, s)
BY GoWrites DEF Follows, Goes

LEMMA SaysSo ==
  ASSUME SessionInv, NEW k \in Workers, Doing(k, "handle"), NEW s, Say(k) PROVE Goes(k, s)
BY SayKeeps DEF Goes

LEMMA RegistrationGoes ==
  ASSUME SessionInv, NEW k \in Workers, Doing(k, "handle"), NEW s, s = Row(turn[k].phone), NEW w,
         \/ RegistrationAnswer(k, s, w) \/ RegistrationBack(k, s, w)
         \/ RegistrationConfirm(k, s, w) \/ RegistrationTerms(k, s, w)
  PROVE  Goes(k, s)
<1>1. Proper(s) /\ Follows(s, s)  BY BusyTurn, RowIsProper DEF Doing, Follows
<1>2. Follows(s, AtHome(s)) /\ Follows(s, Cleared(s))  BY <1>1, AtHomeFollows
<1>3. CASE RegistrationAnswer(k, s, w)
  BY <1>1, <1>3, CaptureFollows, GoesOn, SaysSo DEF RegistrationAnswer
<1>4. CASE RegistrationBack(k, s, w)
  BY <1>1, <1>2, <1>4, PreviousFollows, GoesOn, SaysSo DEF RegistrationBack
<1>5. CASE RegistrationConfirm(k, s, w)
  <2>1. s.state = "REG_CONFIRM"  BY <1>5 DEF RegistrationConfirm
  <2> DEFINE terms == [s EXCEPT !.state = "REG_TERMS"]
             change == [s EXCEPT !.back = TRUE, !.state = ConfirmFields[w.number]]
             t == CASE w.intent = "YES" -> terms
                    [] w.number \in DOMAIN ConfirmFields -> change
                    [] OTHER -> s
  <2>2. Go(k, t)  BY <1>5 DEF RegistrationConfirm
  <2>3. Follows(s, terms) /\ Follows(s, change)  BY <1>1, <2>1, ConfirmFollows
  <2> HIDE DEF terms, change
  <2>4. t \in {terms, change, s}  OBVIOUS
  <2> HIDE DEF t
  <2>5. Follows(s, t)  BY <1>1, <2>3, <2>4
  <2>6. QED BY <2>2, <2>5, GoesOn
<1>6. CASE RegistrationTerms(k, s, w)
  <2> DEFINE p == turn[k].phone
  <2>1. CASE /\ s.state = "REG_TERMS" /\ session' = Saved(p, AtHome(s)) /\ Answer(k)
             /\ person' = [person EXCEPT ![p] = [status |-> "active", enrolled |-> TRUE]]
    <3>1. Writes(p, s.owner)
      <4>1. Proper(AtHome(s)) /\ AtHome(s).owner = s.owner  BY <1>2 DEF Follows
      <4>2. Writes(p, AtHome(s).owner)  BY <2>1, <4>1, SavedWrites
      <4>3. QED BY <4>1, <4>2
    <3>2. QED BY <2>1, <3>1, AnswerContinues DEF Goes, Keeps, Registers
  <2>2. CASE Go(k, Cleared(s)) \/ Go(k, s) \/ Go(k, AtHome(s))
    BY <1>1, <1>2, <2>2, GoesOn
  <2>3. QED BY <1>6, <2>1, <2>2 DEF RegistrationTerms
<1>7. QED BY <1>3, <1>4, <1>5, <1>6

LEMMA OutletGoes ==
  ASSUME SessionInv, NEW k \in Workers, Doing(k, "handle"), NEW s, s = Row(turn[k].phone), NEW w,
         OutletFlow(k, s, w)
  PROVE  Goes(k, s)
<1>1. Proper(s)  BY BusyTurn, RowIsProper DEF Doing
<1>2. s.state \in OutletStates  BY DEF OutletFlow
<1>3. CASE Say(k)  BY <1>3, SaysSo
<1>4. CASE \/ Go(k, AtHome(s)) \/ Go(k, ShowTowns(s, SameRetailer(s.nav.of), 0))
           \/ Go(k, ShowRetailers(s, 0)) \/ \E S \in Searches : Go(k, ShowSearch(s, S, 0))
  BY <1>1, <1>4, AtHomeFollows, ListsFollow, GoesOn
<1>5. ASSUME NEW option, Choose(k, s, option) PROVE Goes(k, s)
  <2>1. CASE Go(k, NextPage(s))  BY <1>1, <1>2, <2>1, NextPageFollows, GoesOn
  <2>2. CASE Go(k, ShowTowns(s, option.of, 0)) \/ Go(k, ShowBranches(s, option.of, 0))
    BY <1>1, <2>2, ListsFollow, GoesOn
  <2>3. CASE Go(k, [s EXCEPT !.state = "ENTRY_RECEIPT", !.nav = NoNav, !.picked = TRUE])
    <3>1. Needs("ENTRY_RECEIPT") = {}  BY NothingNeeded
    <3>2. Follows(s, [s EXCEPT !.state = "ENTRY_RECEIPT", !.nav = NoNav, !.picked = TRUE])
      BY <1>1, <3>1, Moves
    <3>3. QED BY <2>3, <3>2, GoesOn
  <2>4. QED BY <1>5, <2>1, <2>2, <2>3 DEF Choose
<1>6. QED
  <2>1. CASE w.intent = "BACK"
    <3> DEFINE x == CASE s.state = "OUTLET_RETAILER" -> AtHome(s)
                      [] s.state = "OUTLET_BRANCH" -> ShowTowns(s, SameRetailer(s.nav.of), 0)
                      [] OTHER -> ShowRetailers(s, 0)
    <3>1. Go(k, x)  BY <2>1 DEF OutletFlow
    <3>2. x \in {AtHome(s), ShowTowns(s, SameRetailer(s.nav.of), 0), ShowRetailers(s, 0)}
      BY <1>2 DEF OutletStates
    <3> HIDE DEF x
    <3>3. QED BY <1>4, <3>1, <3>2
  <2>2. CASE w.intent # "BACK"
    BY <1>3, <1>4, <1>5, <2>2 DEF OutletFlow
  <2>3. QED BY <2>1, <2>2

LEMMA EntryGoes ==
  ASSUME SessionInv, NEW k \in Workers, Doing(k, "handle"), NEW s, s = Row(turn[k].phone), NEW w,
         StartEntry(k, s) \/ Photo(k, s, w)
  PROVE  Goes(k, s)
<1>1. Proper(s)  BY BusyTurn, RowIsProper DEF Doing
<1>2. CASE Say(k)  BY <1>2, SaysSo
<1>3. CASE Submit(k)  BY <1>3, SubmitKeeps DEF Goes
<1>4. CASE Go(k, AtHome(s)) \/ Go(k, ShowRetailers(s, 0))
  BY <1>1, <1>4, AtHomeFollows, ListsFollow, GoesOn
<1>5. CASE Go(k, [AtHome(s) EXCEPT !.state = "REG_TERMS", !.got = Names])
  BY <1>1, <1>5, StartsRegistration, GoesOn
<1>6. QED BY <1>2, <1>3, <1>4, <1>5 DEF StartEntry, Photo

LEMMA WinnersGoes ==
  ASSUME SessionInv, NEW k \in Workers, Doing(k, "handle"), NEW s, s = Row(turn[k].phone), NEW w,
         NEW fresh, WinnersFlow(k, s, w, fresh)
  PROVE  Goes(k, s)
<1>1. Proper(s)  BY BusyTurn, RowIsProper DEF Doing
<1>2. Needs("HOME") = {} /\ Needs("WINNERS") = {}  BY NothingNeeded
<1>3. CASE Say(k)  BY <1>3, SaysSo
<1>4. CASE Go(k, [s EXCEPT !.state = "HOME"])  BY <1>1, <1>2, <1>4, Moves, GoesOn
<1>5. ASSUME NEW nav, Go(k, [s EXCEPT !.state = "WINNERS", !.nav = nav]) PROVE Goes(k, s)
  <2>1. Follows(s, [s EXCEPT !.state = "WINNERS", !.nav = nav])  BY <1>1, <1>2, Moves
  <2>2. QED BY <1>5, <2>1, GoesOn
<1>6. QED
  <2>1. \/ Say(k) \/ Go(k, [s EXCEPT !.state = "HOME"])
        \/ \E nav : Go(k, [s EXCEPT !.state = "WINNERS", !.nav = nav])
    BY DEF WinnersFlow
  <2>2. QED BY <1>3, <1>4, <1>5, <2>1

LEMMA InStateGoes ==
  ASSUME SessionInv, NEW k \in Workers, Doing(k, "handle"), NEW s, s = Row(turn[k].phone), NEW w,
         InState(k, s, w)
  PROVE  Goes(k, s)
<1>1. Proper(s)  BY BusyTurn, RowIsProper DEF Doing
<1>2. CASE HomeIntent(k, s, w)
  <2>1. CASE \E known : Go(k, [AtHome(s) EXCEPT !.state = "REG_FIRST", !.got = known])
    BY <1>1, <2>1, StartsRegistration, GoesOn
  <2>2. CASE StartEntry(k, s) \/ HomeImage(k, s, w)
    BY <2>2, EntryGoes, SaysSo DEF HomeImage
  <2>3. CASE WinnersFlow(k, s, w, TRUE)  BY <2>3, WinnersGoes
  <2>4. CASE Go(k, AtHome(s)) \/ Say(k)  BY <1>1, <2>4, AtHomeFollows, GoesOn, SaysSo
  <2>5. QED BY <1>2, <2>1, <2>2, <2>3, <2>4 DEF HomeIntent
<1>3. CASE ReceiptFlow(k, s, w)
  BY <1>1, <1>3, ListsFollow, GoesOn, SaysSo, EntryGoes DEF ReceiptFlow
<1>4. QED BY <1>2, <1>3, RegistrationGoes, OutletGoes DEF InState

\* What a turn does to the row of its number: the owner stays, or an unowned
\* conversation joins the queue, or one the queue forgot is handed back.
TurnWrites(k) ==
  LET p == turn[k].phone IN
  \/ Keeps(k, Row(p)) /\ UNCHANGED held
  \/ Row(p).owner = "none" /\ Writes(p, "queue") /\ UNCHANGED held
  \/ Row(p).owner = "queue" /\ Writes(p, "none") /\ held' = [held EXCEPT ![p] = "no"]

TurnRegisters(k) ==
  LET p == turn[k].phone IN
  \/ UNCHANGED person \/ Registers(k, Row(p))
  \/ \E q : q.status # "active" /\ person' = [person EXCEPT ![p] = q]

LEMMA RouteOfOwned ==
  ASSUME NEW s, NEW w, NEW open, s.owner # "none"
  PROVE  Route(s, w, open) \in {"claim", "optout", "handoff"}
BY DEF Route

LEMMA OptOutIsInactive ==
  ASSUME SessionInv, NEW k \in Workers, NEW s, NEW r, turn[k].phone \in Addresses, OptOut(k, s, r)
  PROVE  TurnRegisters(k)
<1> DEFINE p == turn[k].phone
           gone == [status |-> "inactive", enrolled |-> FALSE]
<1>1. gone.status # "active"  OBVIOUS
<1>2. CASE Active(p)
  <2>1. person' = [person EXCEPT ![p] = gone]  BY <1>2 DEF OptOut
  <2> HIDE DEF gone
  <2>2. QED BY <1>1, <2>1 DEF TurnRegisters
<1>3. CASE ~Active(p)
  <2>1. person' = [person EXCEPT ![p] = person[p]]  BY <1>3 DEF OptOut
  <2>2. person[p].status # "active"  BY <1>3 DEF Active
  <2>3. QED BY <2>1, <2>2 DEF TurnRegisters
<1>4. QED BY <1>2, <1>3

LEMMA TurnGoes ==
  ASSUME SessionInv, NEW k \in Workers, Turn(k)
  PROVE  Continues(k) /\ TurnWrites(k) /\ TurnRegisters(k)
<1> DEFINE p == turn[k].phone
           s == Row(p)
           w == turn[k].word
<1>1. Doing(k, "handle") /\ p \in Addresses  BY BusyTurn DEF Turn, Doing
<1>2. Proper(s)  BY <1>1, RowIsProper
<1>3. PICK open \in BOOLEAN :
        LET r == Route(s, w, open)
        IN  \/ InHandoff(k, s, r)
            \/ /\ \/ ClaimTurn(k, r) \/ OptOut(k, s, r)
                  \/ AskSupport(k, s, r) \/ Navigate(k, s, r)
                  \/ r = "WINNERS" /\ WinnersFlow(k, s, w, FALSE)
                  \/ r \in States \ {"WINNERS"} /\ InState(k, s, w)
               /\ UNCHANGED held
  <2>1. PICK open \in BOOLEAN :
          LET r == Route(s, w, open /\ person[p].status # "none")
          IN  \/ InHandoff(k, s, r)
              \/ /\ \/ ClaimTurn(k, r) \/ OptOut(k, s, r)
                    \/ AskSupport(k, s, r) \/ Navigate(k, s, r)
                    \/ r = "WINNERS" /\ WinnersFlow(k, s, w, FALSE)
                    \/ r \in States \ {"WINNERS"} /\ InState(k, s, w)
                 /\ UNCHANGED held
    BY DEF Turn
  <2>2. (open /\ person[p].status # "none") \in BOOLEAN  OBVIOUS
  <2>3. QED BY <2>1, <2>2
<1> DEFINE r == Route(s, w, open)
<1>4. s.owner # "none" => r \in {"claim", "optout", "handoff"}  BY RouteOfOwned
<1> HIDE DEF s, r, w
<1>5. ASSUME Goes(k, s), UNCHANGED held PROVE Continues(k) /\ TurnWrites(k) /\ TurnRegisters(k)
  BY <1>5 DEF Goes, TurnWrites, TurnRegisters, s
<1>6. CASE InHandoff(k, s, r)
  <2>1. CASE Say(k) /\ UNCHANGED held  BY <1>1, <1>5, <2>1, SaysSo
  <2>2. CASE s.owner = "queue" /\ s.overdue
    <3> DEFINE h == Cleared(s)
               t == [h EXCEPT !.owner = "none", !.overdue = FALSE]
    <3>1. Proper(h)  BY <1>2, AtHomeFollows DEF Follows
    <3> HIDE DEF h
    <3>2. Proper(t) /\ t.owner = "none"  BY <3>1, Marks
    <3>3. Go(k, t) /\ FlushHeld(p)  BY <1>6, <2>2 DEF InHandoff, h
    <3> HIDE DEF t
    <3>4. Continues(k) /\ Writes(p, "none") /\ UNCHANGED person
      BY <1>1, <3>2, <3>3, AnswerContinues, SavedWrites DEF Go
    <3>5. QED BY <2>2, <3>3, <3>4 DEF TurnWrites, TurnRegisters, FlushHeld, s
  <2>3. QED BY <1>6, <2>1, <2>2 DEF InHandoff
<1>7. CASE UNCHANGED held /\ (ClaimTurn(k, r) \/ Navigate(k, s, r))
  BY <1>1, <1>2, <1>5, <1>7, SaysSo, AtHomeFollows, GoesOn DEF ClaimTurn, Navigate
<1>8. CASE UNCHANGED held /\ OptOut(k, s, r)
  <2>1. session' = Saved(p, Cleared(s)) /\ Answer(k)  BY <1>8 DEF OptOut
  <2>2. Proper(Cleared(s)) /\ Cleared(s).owner = s.owner  BY <1>2, AtHomeFollows DEF Follows
  <2>3. Writes(p, s.owner)
    <3>1. Writes(p, Cleared(s).owner)  BY <2>1, <2>2, SavedWrites
    <3>2. QED BY <2>2, <3>1
  <2>4. Continues(k) /\ TurnRegisters(k)
    BY <1>1, <1>8, <2>1, AnswerContinues, OptOutIsInactive
  <2>5. QED BY <1>8, <2>3, <2>4 DEF TurnWrites, Keeps, s
<1>9. CASE UNCHANGED held /\ AskSupport(k, s, r)
  <2> DEFINE t == [s EXCEPT !.state = "SUPPORT", !.owner = "queue", !.overdue = FALSE]
  <2>1. s.owner = "none"  BY <1>4, <1>9 DEF AskSupport
  <2>2. Proper(t) /\ t.owner = "queue"
    <3>1. Needs("SUPPORT") = {}  BY NothingNeeded
    <3>2. QED BY <1>2, <3>1 DEF Proper, IsSession
  <2>3. Go(k, t)  BY <1>9 DEF AskSupport
  <2> HIDE DEF t
  <2>4. Continues(k) /\ Writes(p, "queue") /\ UNCHANGED person
    BY <1>1, <2>2, <2>3, AnswerContinues, SavedWrites DEF Go
  <2>5. QED BY <1>9, <2>1, <2>4 DEF TurnWrites, TurnRegisters, s
<1>10. CASE UNCHANGED held /\ (WinnersFlow(k, s, w, FALSE) \/ InState(k, s, w))
  <2>1. s = Row(turn[k].phone)  BY DEF s
  <2>2. QED BY <1>1, <1>5, <1>10, <2>1, WinnersGoes, InStateGoes
<1>11. QED BY <1>3, <1>6, <1>7, <1>8, <1>9, <1>10 DEF r

\* ---- the sessions under every step
RowsKept ==
  /\ session' = [p \in Addresses |-> session'[p]] /\ held' = [p \in Addresses |-> held'[p]]
  /\ \A p \in Addresses : session'[p] = NoRow \/ Proper(session'[p])
  /\ \A p \in Addresses : held'[p] = "held" => Owned(p)'

LEMMA RowsUntouched ==
  ASSUME SessionInv, UNCHANGED session, NEW p, UNCHANGED held \/ held' = [held EXCEPT ![p] = "no"]
  PROVE  RowsKept
BY DEF SessionInv, SessionTypes, RowsKept, Owned

\* The row of one number changes; it keeps an owner unless nothing is held back there.
LEMMA RowChanges ==
  ASSUME SessionInv, NEW p \in Addresses, NEW o, Writes(p, o),
         \/ UNCHANGED held /\ (o # "none" \/ ~Owned(p))
         \/ held' = [held EXCEPT ![p] = "no"]
  PROVE  RowsKept
<1>1. PICK s : Proper(s) /\ s.owner = o /\ session' = [session EXCEPT ![p] = s]  BY DEF Writes
<1>2. s # NoRow  BY <1>1, ProperIsARow
<1>3. /\ session' = [q \in Addresses |-> session'[q]] /\ held' = [q \in Addresses |-> held'[q]]
      /\ \A q \in Addresses : session'[q] = NoRow \/ Proper(session'[q])
  BY <1>1 DEF SessionInv, SessionTypes
<1>4. ASSUME NEW q \in Addresses, held'[q] = "held" PROVE Owned(q)'
  <2>1. CASE q # p
    <3>1. held[q] = "held" /\ session'[q] = session[q]
      BY <1>1, <1>4, <2>1 DEF SessionInv, SessionTypes
    <3>2. QED BY <3>1 DEF SessionInv, Owned
  <2>2. CASE q = p
    <3>1. UNCHANGED held /\ (o # "none" \/ ~Owned(p))
      BY <1>4, <2>2 DEF SessionInv, SessionTypes
    <3>2. Owned(p)  BY <1>4, <2>2, <3>1 DEF SessionInv
    <3>3. session'[p] = s /\ o # "none"  BY <1>1, <3>1, <3>2 DEF SessionInv, SessionTypes
    <3>4. QED BY <1>1, <1>2, <2>2, <3>3 DEF Owned
  <2>3. QED BY <2>1, <2>2
<1>5. QED BY <1>3, <1>4 DEF RowsKept

LEMMA RowOwner == ASSUME NEW p, Owned(p) PROVE Row(p) = session[p] /\ Row(p).owner # "none"
BY DEF Owned, Row

LEMMA TurnKeepsRows ==
  ASSUME SessionInv, NEW p \in Addresses, NEW k \in Workers, turn[k].phone = p, TurnWrites(k)
  PROVE  RowsKept
<1>1. CASE UNCHANGED session /\ UNCHANGED held  BY <1>1, RowsUntouched
<1>2. CASE Writes(p, Row(p).owner) /\ UNCHANGED held  BY <1>2, RowOwner, RowChanges
<1>3. CASE Writes(p, "queue") /\ UNCHANGED held  BY <1>3, RowChanges
<1>4. CASE Writes(p, "none") /\ held' = [held EXCEPT ![p] = "no"]  BY <1>4, RowChanges
<1>5. QED BY <1>1, <1>2, <1>3, <1>4 DEF TurnWrites, Keeps

LEMMA SaveKeepsRows ==
  ASSUME SessionInv, NEW k \in Workers, SaveSubmitted(k)
  PROVE  RowsKept /\ Writes(turn[k].phone, Row(turn[k].phone).owner)
<1> DEFINE p == turn[k].phone
           s == IF Conflict(k, p) THEN Reapplied(Row(p)) ELSE AfterSubmit(Row(p))
<1>1. p \in Addresses /\ session' = Saved(p, s) /\ UNCHANGED held
  BY BusyTurn DEF SaveSubmitted, Doing
<1>2. Proper(s) /\ s.owner = Row(p).owner  BY <1>1, RowIsProper, SubmittedFollows DEF Follows
<1> HIDE DEF s
<1>3. Writes(p, Row(p).owner)
  <2>1. Writes(p, s.owner)  BY <1>1, <1>2, SavedWrites
  <2>2. QED BY <1>2, <2>1
<1>4. QED BY <1>1, <1>3, RowOwner, RowChanges

\* The rest: decided receipts, clocks and operators.
LEMMA OutcomeKeepsRows ==
  ASSUME SessionInv, NEW p \in Addresses, OnReceiptOutcome(p) PROVE RowsKept
<1> DEFINE s == session[p]
           t == [s EXCEPT !.active = FALSE]
<1>1. s # NoRow /\ session' = Saved(p, t)  BY DEF OnReceiptOutcome
<1>2. Proper(s)  BY <1>1 DEF SessionInv, SessionTypes
<1> HIDE DEF s
<1>3. Proper(t) /\ t.owner = s.owner  BY <1>2, Marks DEF Follows
<1> HIDE DEF t
<1>4. Writes(p, s.owner)
  <2>1. Writes(p, t.owner)  BY <1>1, <1>3, SavedWrites
  <2>2. QED BY <1>3, <2>1
<1>5. CASE s.owner = "none"
  <2>1. UNCHANGED held /\ ~Owned(p)  BY <1>5 DEF OnReceiptOutcome, Owned, s
  <2>2. QED BY <1>4, <2>1, RowChanges
<1>6. CASE s.owner # "none"
  <2>1. held' = [held EXCEPT ![p] = "held"]  BY <1>6 DEF OnReceiptOutcome, s
  <2>2. PICK n : Proper(n) /\ n.owner = s.owner /\ session' = [session EXCEPT ![p] = n]
    BY <1>4 DEF Writes
  <2>3. n # NoRow  BY <2>2, ProperIsARow
  <2>4. QED BY <1>6, <2>1, <2>2, <2>3 DEF SessionInv, SessionTypes, RowsKept, Owned
<1>7. QED BY <1>5, <1>6

LEMMA OverdueKeepsRows ==
  ASSUME SessionInv, NEW p \in Addresses, QueueTimesOut(p) PROVE RowsKept
<1> DEFINE s == session[p]
           t == [s EXCEPT !.overdue = TRUE]
<1>1. s # NoRow /\ s.owner = "queue" /\ session' = [session EXCEPT ![p] = t] /\ UNCHANGED held
  BY DEF QueueTimesOut
<1>2. Proper(s)  BY <1>1 DEF SessionInv, SessionTypes
<1> HIDE DEF s
<1>3. Proper(t) /\ t.owner = s.owner  BY <1>2, Marks DEF Follows
<1> HIDE DEF t
<1>4. Writes(p, "queue")  BY <1>1, <1>3 DEF Writes
<1>5. QED BY <1>1, <1>4, RowChanges

LEMMA OperatorsKeepRows ==
  ASSUME SessionInv, NEW p \in Addresses,
         (\E o \in Operators : ClaimHandoff(o, p)) \/ ReleaseHandoff(p)
  PROVE  RowsKept
<1> DEFINE s == Row(p)
<1>1. Proper(s)  BY RowIsProper
<1> HIDE DEF s
<1>2. ASSUME NEW o \in Operators, ClaimHandoff(o, p) PROVE RowsKept
  <2> DEFINE t == [s EXCEPT !.owner = o, !.overdue = FALSE]
  <2>1. session' = Saved(p, t) /\ UNCHANGED held  BY <1>2 DEF ClaimHandoff, s
  <2>2. Proper(t) /\ t.owner = o  BY <1>1, Marks
  <2> HIDE DEF t
  <2>3. Writes(p, o)
    <3>1. Writes(p, t.owner)  BY <2>1, <2>2, SavedWrites
    <3>2. QED BY <2>2, <3>1
  <2>4. o # "none"  BY ConversationAssumption
  <2>5. QED BY <2>1, <2>3, <2>4, RowChanges
<1>3. CASE ReleaseHandoff(p)
  <2> DEFINE t == [s EXCEPT !.state = "HOME", !.owner = "none", !.overdue = FALSE]
  <2>1. session' = Saved(p, t) /\ held' = [held EXCEPT ![p] = "no"]
    BY <1>3 DEF ReleaseHandoff, FlushHeld, s
  <2>2. Proper(t) /\ t.owner = "none"
    <3>1. Needs("HOME") = {}  BY NothingNeeded
    <3>2. QED BY <1>1, <3>1 DEF Proper, IsSession
  <2> HIDE DEF t
  <2>3. Writes(p, "none")
    <3>1. Writes(p, t.owner)  BY <2>1, <2>2, SavedWrites
    <3>2. QED BY <2>2, <3>1
  <2>4. QED BY <2>1, <2>3, RowChanges
<1>4. QED BY <1>2, <1>3

\* Erasure takes what is held back along with the row; a changed number takes both to
\* the new number, where a conversation that is already there keeps its own.
LEMMA MovesKeepRows ==
  ASSUME SessionInv, NEW p \in Phones,
         Anonymise(p) \/ \E np \in Numbers : ChangePhone(p, np)
  PROVE  RowsKept
<1>1. p \in Addresses /\ Numbers \subseteq Addresses  BY IntakeAssumption DEF Addresses
<1>2. CASE Anonymise(p)
  <2>1. session' = [session EXCEPT ![p] = NoRow] /\ held' = [held EXCEPT ![p] = "no"]
    BY <1>2 DEF Anonymise
  <2>2. QED BY <1>1, <2>1 DEF SessionInv, SessionTypes, RowsKept, Owned
<1>3. ASSUME NEW np \in Numbers, ChangePhone(p, np) PROVE RowsKept
  <2>1. p # np /\ np \in Addresses  BY <1>1, <1>3 DEF ChangePhone
  <2>2. session' = [session EXCEPT ![p] = NoRow,
                      ![np] = IF session[np] = NoRow THEN session[p] ELSE session[np]]
    BY <1>3, <2>1 DEF ChangePhone, SessionInv, SessionTypes
  <2>3. held' = [held EXCEPT ![p] = "no",
                   ![np] = IF held[p] # "no" /\ session[np] # NoRow THEN "carried"
                           ELSE IF held[p] # "no" THEN held[p] ELSE held[np]]
    BY <1>3, <2>1 DEF ChangePhone, SessionInv, SessionTypes
  <2>4. /\ session' = [q \in Addresses |-> session'[q]] /\ held' = [q \in Addresses |-> held'[q]]
        /\ \A q \in Addresses : session'[q] = NoRow \/ Proper(session'[q])
    BY <1>1, <2>1, <2>2, <2>3 DEF SessionInv, SessionTypes
  <2>5. ASSUME NEW q \in Addresses, held'[q] = "held" PROVE Owned(q)'
    <3>1. q # p  BY <1>1, <2>1, <2>3, <2>5 DEF SessionInv, SessionTypes
    <3>2. CASE q # np
      <4>1. held[q] = "held" /\ session'[q] = session[q]
        BY <2>1, <2>2, <2>3, <2>5, <3>1, <3>2 DEF SessionInv, SessionTypes
      <4>2. QED BY <4>1 DEF SessionInv, Owned
    <3>3. CASE q = np
      <4>1. session'[np] = IF session[np] = NoRow THEN session[p] ELSE session[np]
        BY <2>1, <2>2 DEF SessionInv, SessionTypes
      <4>2. \/ held[p] = "held" /\ session[np] = NoRow
            \/ held[np] = "held"
        BY <2>1, <2>3, <2>5, <3>3 DEF SessionInv, SessionTypes
      <4>3. held[p] = "held" => Owned(p)  BY <1>1 DEF SessionInv
      <4>4. held[np] = "held" => Owned(np)  BY <2>1 DEF SessionInv
      <4>5. QED BY <3>3, <4>1, <4>2, <4>3, <4>4 DEF Owned
    <3>4. QED BY <3>2, <3>3
  <2>6. QED BY <2>4, <2>5 DEF RowsKept
<1>4. QED BY <1>2, <1>3

\* ---- the invariant of the messages
EventRow ==
  [status : {"none", "ignored", "processed", "received", "failed", "processing", "dead"},
   attempts : Nat, lease : {"none", "live", "expired"}, phone : Addresses, word : Vocabulary,
   answer : {"none", "other", "reference"}, broken : BOOLEAN, wiped : BOOLEAN]

EventTypes == event \in [Events -> EventRow] /\ stored \subseteq Events

\* The worker that will acknowledge the receipt of a message.
Promised(k, e) ==
  At(k, e) /\ (turn[k].at = "save" \/ (turn[k].at = "finish" /\ turn[k].reply = "reference"))

\* What was erased while nobody had it is over and stays over. A message that no worker
\* died on or outlived is in one hand until it is processed, once, and what became of
\* its photo is either written down or still in that hand.
Wiped(e) == event[e].wiped => event[e].status = "ignored" /\ ~InHand(e)
OneHand(e) == \A j \in Workers, k \in Workers : At(j, e) /\ At(k, e) => j = k
AnsweredOnce(e) ==
  IF event[e].status = "processed" THEN ~InHand(e) ELSE event[e].answer = "none"
Acknowledges(e) ==
  e \in stored => \/ event[e].status = "processed" /\ event[e].answer = "reference"
                  \/ \E k \in Workers : Promised(k, e)
Fact(e) ==
  Wiped(e) /\ (~event[e].broken => OneHand(e) /\ AnsweredOnce(e) /\ Acknowledges(e))

EventInv == EventTypes /\ \A e \in Events : Fact(e)
IntakeInv == SessionInv /\ EventInv

EventsKept == turn' \in [Workers -> Turns] /\ EventInv'

\* ---- the messages under every step
\* Rows alone change: what is processed stays so and nothing else becomes it.
LEMMA MessagesAlone ==
  ASSUME IntakeInv, UNCHANGED <<turn, stored>>, event' \in [Events -> EventRow],
         \A e \in Events :
           /\ event'[e].answer = event[e].answer /\ event'[e].broken = event[e].broken
           /\ event'[e].status = "processed" <=> event[e].status = "processed"
           /\ event'[e].wiped => event'[e].status = "ignored" /\ ~InHand(e)
  PROVE  EventsKept
<1>1. turn' \in [Workers -> Turns] /\ EventTypes'
  BY DEF IntakeInv, SessionInv, SessionTypes, EventInv, EventTypes
<1>2. ASSUME NEW e \in Events PROVE Fact(e)'
  <2>1. InHand(e)' = InHand(e) /\ OneHand(e)' = OneHand(e)  BY DEF InHand, OneHand, At
  <2>2. Wiped(e)'  BY <2>1 DEF Wiped
  <2>3. ASSUME ~event[e].broken
        PROVE  OneHand(e)' /\ AnsweredOnce(e)' /\ Acknowledges(e)'
    <3>1. OneHand(e) /\ AnsweredOnce(e) /\ Acknowledges(e)
      BY <2>3 DEF IntakeInv, EventInv, Fact
    <3>2. OneHand(e)' /\ AnsweredOnce(e)'  BY <2>1, <3>1 DEF AnsweredOnce
    <3>3. Acknowledges(e)'  BY <3>1 DEF Acknowledges, Promised, At
    <3>4. QED BY <3>2, <3>3
  <2>4. QED BY <2>2, <2>3 DEF Fact
<1>3. QED BY <1>1, <1>2 DEF EventsKept, EventInv

\* A worker goes on with its message, and keeps its promise.
LEMMA WorkerGoesOn ==
  ASSUME IntakeInv, NEW k \in Workers, turn[k].at # "idle", NEW t \in Turns,
         turn' = [turn EXCEPT ![k] = t], t.at # "idle", t.event = turn[k].event,
         Promised(k, turn[k].event) => t.at = "save" \/ (t.at = "finish" /\ t.reply = "reference"),
         UNCHANGED <<event, stored>>
  PROVE  EventsKept
<1>1. turn' \in [Workers -> Turns] /\ EventTypes'
  BY DEF IntakeInv, SessionInv, SessionTypes, EventInv, EventTypes
<1>2. ASSUME NEW e \in Events PROVE Fact(e)'
  <2>1. \A j \in Workers : At(j, e)' <=> At(j, e)
    BY DEF At, IntakeInv, SessionInv, SessionTypes
  <2>2. (InHand(e)' <=> InHand(e)) /\ (OneHand(e)' <=> OneHand(e))  BY <2>1 DEF InHand, OneHand
  <2>3. \A j \in Workers : Promised(j, e) => Promised(j, e)'
    BY DEF Promised, At, IntakeInv, SessionInv, SessionTypes
  <2>4. Wiped(e)'  BY <2>2 DEF Wiped, Fact, IntakeInv, EventInv
  <2>5. ASSUME ~event[e].broken
        PROVE  OneHand(e)' /\ AnsweredOnce(e)' /\ Acknowledges(e)'
    <3>1. OneHand(e) /\ AnsweredOnce(e) /\ Acknowledges(e)
      BY <2>5 DEF IntakeInv, EventInv, Fact
    <3>2. QED BY <2>2, <2>3, <3>1 DEF AnsweredOnce, Acknowledges
  <2>6. QED BY <2>4, <2>5 DEF Fact
<1>3. QED BY <1>1, <1>2 DEF EventsKept, EventInv

\* One message changes, with the worker that has it or gets it; the others are untouched.
LEMMA OneMessage ==
  ASSUME IntakeInv, NEW d \in Events, NEW r \in EventRow, event' = [event EXCEPT ![d] = r],
         turn' \in [Workers -> Turns], stored' \subseteq Events, stored' \ {d} = stored \ {d},
         \A j \in Workers : turn'[j] # turn[j] => /\ turn[j].at = "idle" \/ turn[j].event = d
                                                  /\ turn'[j].at = "idle" \/ turn'[j].event = d,
         Fact(d)'
  PROVE  EventsKept
<1>1. EventTypes'  BY DEF IntakeInv, EventInv, EventTypes
<1>2. ASSUME NEW e \in Events, e # d PROVE Fact(e)'
  <2>1. event'[e] = event[e] /\ (e \in stored' <=> e \in stored)
    BY <1>2 DEF IntakeInv, EventInv, EventTypes
  <2>2. \A j \in Workers : (At(j, e)' <=> At(j, e)) /\ (Promised(j, e)' <=> Promised(j, e))
    BY <1>2 DEF At, Promised
  <2>3. (InHand(e)' <=> InHand(e)) /\ (OneHand(e)' <=> OneHand(e))  BY <2>2 DEF InHand, OneHand
  <2>4. Fact(e)  BY DEF IntakeInv, EventInv
  <2>5. Wiped(e)'  BY <2>1, <2>3, <2>4 DEF Wiped, Fact
  <2>6. ASSUME ~event[e].broken PROVE OneHand(e)' /\ AnsweredOnce(e)' /\ Acknowledges(e)'
    <3>1. OneHand(e) /\ AnsweredOnce(e) /\ Acknowledges(e)  BY <2>4, <2>6 DEF Fact
    <3>2. OneHand(e)' /\ AnsweredOnce(e)'  BY <2>1, <2>3, <3>1 DEF AnsweredOnce
    <3>3. Acknowledges(e)'  BY <2>1, <2>2, <3>1 DEF Acknowledges
    <3>4. QED BY <3>2, <3>3
  <2>7. QED BY <2>1, <2>5, <2>6 DEF Fact
<1>3. QED BY <1>1, <1>2 DEF EventsKept, EventInv

\* What is known of a message, and of the one a worker has.
LEMMA KnownMessage ==
  ASSUME IntakeInv, NEW e \in Events
  PROVE  /\ event[e] \in EventRow /\ Wiped(e)
         /\ ~event[e].broken => OneHand(e) /\ AnsweredOnce(e) /\ Acknowledges(e)
BY DEF IntakeInv, EventInv, EventTypes, Fact

LEMMA InItsHand ==
  ASSUME IntakeInv, NEW k \in Workers, turn[k].at # "idle"
  PROVE  /\ turn[k].event \in Events /\ At(k, turn[k].event) /\ InHand(turn[k].event)
         /\ ~event[turn[k].event].wiped
<1>1. turn[k].event \in Events /\ At(k, turn[k].event)  BY BusyTurn DEF IntakeInv, At
<1>2. InHand(turn[k].event)  BY <1>1 DEF InHand
<1>3. QED BY <1>1, <1>2, KnownMessage DEF Wiped

LEMMA MessageUpdates ==
  ASSUME NEW r \in EventRow, NEW status \in {"ignored", "processed", "received", "failed",
                                             "processing", "dead"},
         NEW lease \in {"none", "live", "expired"}, NEW n \in Nat, NEW b \in BOOLEAN,
         NEW p \in Addresses, NEW w \in Vocabulary
  PROVE  /\ [r EXCEPT !.lease = lease] \in EventRow
         /\ [r EXCEPT !.status = status, !.lease = lease] \in EventRow
         /\ [r EXCEPT !.status = status, !.attempts = n, !.lease = lease] \in EventRow
         /\ [r EXCEPT !.status = status, !.lease = lease, !.attempts = n, !.broken = b] \in EventRow
         /\ [r EXCEPT !.broken = b] \in EventRow
         /\ [r EXCEPT !.phone = p] \in EventRow
         /\ [r EXCEPT !.phone = p, !.word = w, !.wiped = b] \in EventRow
BY DEF EventRow

LEMMA ReceiveKeeps ==
  ASSUME IntakeInv, NEW e \in Events, NEW p \in Senders, NEW w \in Speech[e], Receive(e, p, w)
  PROVE  EventsKept
<1> DEFINE r == [status |-> "received", attempts |-> 0, lease |-> "none", phone |-> p, word |-> w,
                 answer |-> "none", broken |-> FALSE, wiped |-> FALSE]
<1>1. event' = [event EXCEPT ![e] = r] /\ stored' = stored \ {e} /\ UNCHANGED turn /\ ~InHand(e)
  BY DEF Receive
<1>2. r \in EventRow
  <2>1. p \in Addresses  BY IntakeAssumption DEF Addresses
  <2>2. w \in Vocabulary  BY IntakeAssumption
  <2>3. QED BY <2>1, <2>2 DEF EventRow
<1>3. r.status = "received" /\ r.answer = "none" /\ ~r.broken /\ ~r.wiped  OBVIOUS
<1> HIDE DEF r
<1>4. event'[e] = r  BY <1>1 DEF IntakeInv, EventInv, EventTypes
<1>5. \A k \in Workers : ~At(k, e)'  BY <1>1 DEF InHand, At
<1>6. Fact(e)'
  <2>1. Wiped(e)'  BY <1>3, <1>4 DEF Wiped
  <2>2. OneHand(e)'  BY <1>5 DEF OneHand
  <2>3. AnsweredOnce(e)' /\ Acknowledges(e)'
    BY <1>1, <1>3, <1>4 DEF AnsweredOnce, Acknowledges
  <2>4. QED BY <2>1, <2>2, <2>3 DEF Fact
<1>7. turn' \in [Workers -> Turns] /\ stored' \subseteq Events
  BY <1>1 DEF IntakeInv, SessionInv, SessionTypes, EventInv, EventTypes
<1>8. QED BY <1>1, <1>2, <1>6, <1>7, OneMessage

\* A second hand marks the message; before the first, nothing is stored.
LEMMA TakeKeeps ==
  ASSUME IntakeInv, NEW k \in Workers, NEW e \in Events, Take(k, e)
  PROVE  EventsKept
<1> DEFINE again == event[e].broken \/ InHand(e)
           r == [event[e] EXCEPT !.status = "processing", !.lease = "live",
                   !.attempts = event[e].attempts + 1, !.broken = again]
           at == IF event[e].word.intent = "IMAGE" THEN "fetch" ELSE "handle"
           t == [at |-> at, event |-> e, phone |-> event[e].phone, word |-> event[e].word,
                 reply |-> "other", versioned |-> FALSE]
<1>1. event' = [event EXCEPT ![e] = r] /\ turn' = [turn EXCEPT ![k] = t] /\ UNCHANGED stored
      /\ turn[k].at = "idle"
  BY DEF Take, Doing
<1>2. event[e] \in EventRow /\ event[e].status \in {"received", "failed", "processing"}
      /\ ~event[e].wiped
  BY KnownMessage DEF Take, Oldest, Offered, Waiting, Wiped
<1>3. again \in BOOLEAN /\ at \in {"fetch", "handle"}  BY <1>2 DEF EventRow, InHand, At
<1>4. (again = TRUE) <=> (event[e].broken \/ InHand(e))  OBVIOUS
<1> HIDE DEF again, at
<1>5. r \in EventRow /\ r.status = "processing" /\ r.broken = again /\ r.wiped = event[e].wiped
      /\ r.answer = event[e].answer
  <2>1. event[e].attempts + 1 \in Nat  BY <1>2 DEF EventRow
  <2>2. QED BY <1>2, <1>3, <2>1 DEF EventRow
<1>6. t \in Turns /\ t.event = e /\ t.at = at  BY <1>2, <1>3 DEF Turns, EventRow
<1> HIDE DEF r, t
<1>7. event'[e] = r /\ turn'[k] = t /\ turn' \in [Workers -> Turns] /\ stored' \subseteq Events
  BY <1>1, <1>6 DEF IntakeInv, EventInv, EventTypes, SessionInv, SessionTypes
<1>8. Fact(e)'
  <2>1. Wiped(e)'  BY <1>2, <1>5, <1>7 DEF Wiped
  <2>2. ASSUME ~r.broken PROVE OneHand(e)' /\ AnsweredOnce(e)' /\ Acknowledges(e)'
    <3>1. ~event[e].broken /\ ~InHand(e)  BY <1>4, <1>5, <2>2
    <3>2. \A j \in Workers : ~At(j, e)  BY <3>1 DEF InHand
    <3>3. \A j \in Workers : At(j, e)' => j = k
      BY <1>1, <3>2 DEF At, IntakeInv, SessionInv, SessionTypes
    <3>4. OneHand(e)'  BY <3>3 DEF OneHand
    <3>5. AnsweredOnce(e) /\ Acknowledges(e) /\ event[e].status # "processed"
      BY <1>2, <3>1, KnownMessage
    <3>6. AnsweredOnce(e)'
      BY <1>5, <1>7, <3>5 DEF AnsweredOnce
    <3>7. e \notin stored  BY <3>2, <3>5 DEF Acknowledges, Promised
    <3>8. QED BY <1>1, <3>4, <3>6, <3>7 DEF Acknowledges
  <2>3. QED BY <1>7, <2>1, <2>2 DEF Fact
<1>9. \A j \in Workers : turn'[j] # turn[j] => j = k
  BY <1>1 DEF IntakeInv, SessionInv, SessionTypes
<1>10. QED BY <1>1, <1>5, <1>6, <1>7, <1>8, <1>9, OneMessage

\* The worker of a message that is not broken is the only one, and the message waits for it.
LEMMA OnlyHand ==
  ASSUME IntakeInv, NEW k \in Workers, turn[k].at # "idle", ~event[turn[k].event].broken
  PROVE  LET e == turn[k].event
         IN  /\ \A j \in Workers : At(j, e) => j = k
             /\ event[e].status # "processed" /\ event[e].answer = "none"
             /\ e \in stored => Promised(k, e)
<1> DEFINE e == turn[k].event
<1>1. e \in Events /\ At(k, e) /\ InHand(e)  BY InItsHand
<1>2. OneHand(e) /\ AnsweredOnce(e) /\ Acknowledges(e)  BY <1>1, KnownMessage
<1>3. \A j \in Workers : At(j, e) => j = k  BY <1>1, <1>2 DEF OneHand
<1>4. event[e].status # "processed" /\ event[e].answer = "none"
  BY <1>1, <1>2 DEF AnsweredOnce
<1>5. e \in stored => Promised(k, e)  BY <1>2, <1>3, <1>4 DEF Acknowledges, Promised
<1>6. QED BY <1>3, <1>4, <1>5

LEMMA StoreKeeps == ASSUME IntakeInv, NEW k \in Workers, Store(k) PROVE EventsKept
<1> SUFFICES ASSUME NEW e, e = turn[k].event PROVE EventsKept
  OBVIOUS
<1> DEFINE r == event[e]
           t == [turn[k] EXCEPT !.at = "save"]
<1>1. turn[k].at = "store" /\ turn' = [turn EXCEPT ![k] = t] /\ stored' = stored \cup {e}
      /\ UNCHANGED event
  BY DEF Store, Doing
<1>2. e \in Events /\ ~r.wiped  BY <1>1, InItsHand
<1>3. r \in EventRow /\ event' = [event EXCEPT ![e] = r]
  BY <1>1, <1>2 DEF IntakeInv, EventInv, EventTypes
<1>4. t \in Turns /\ t.at = "save" /\ t.event = e  BY <1>1, BusyTurn DEF Turns, IntakeInv
<1> HIDE DEF t
<1>5. turn'[k] = t /\ turn' \in [Workers -> Turns] /\ stored' \subseteq Events
  BY <1>1, <1>2, <1>4 DEF IntakeInv, EventInv, EventTypes, SessionInv, SessionTypes
<1>6. \A j \in Workers : turn'[j] # turn[j] => j = k
  BY <1>1 DEF IntakeInv, SessionInv, SessionTypes
<1>7. Fact(e)'
  <2>1. Wiped(e)'  BY <1>1, <1>2 DEF Wiped
  <2>2. ASSUME ~r.broken PROVE OneHand(e)' /\ AnsweredOnce(e)' /\ Acknowledges(e)'
    <3>1. /\ \A j \in Workers : At(j, e) => j = k
          /\ r.status # "processed" /\ r.answer = "none"
      BY <1>1, <2>2, OnlyHand
    <3>2. \A j \in Workers : At(j, e)' => j = k  BY <1>6, <3>1 DEF At
    <3>3. OneHand(e)'  BY <3>2 DEF OneHand
    <3>4. AnsweredOnce(e)'  BY <1>1, <3>1 DEF AnsweredOnce
    <3>5. Promised(k, e)'  BY <1>4, <1>5 DEF Promised, At
    <3>6. QED BY <3>3, <3>4, <3>5 DEF Acknowledges
  <2>3. QED BY <1>1, <2>1, <2>2 DEF Fact
<1> HIDE DEF r
<1>8. \A j \in Workers : turn'[j] # turn[j] =>
        (turn[j].at = "idle" \/ turn[j].event = e) /\ (turn'[j].at = "idle" \/ turn'[j].event = e)
  BY <1>4, <1>5, <1>6
<1>9. stored' \ {e} = stored \ {e}  BY <1>1
<1>10. QED BY <1>2, <1>3, <1>5, <1>7, <1>8, <1>9, OneMessage

\* A worker lets go of its message, whose row is written.
LEMMA LetsGo ==
  ASSUME IntakeInv, NEW k \in Workers, turn[k].at # "idle", NEW r \in EventRow,
         event' = [event EXCEPT ![turn[k].event] = r], Release(k), UNCHANGED stored,
         ~r.wiped,
         ~r.broken => /\ ~event[turn[k].event].broken
                      /\ r.status # "processed" => r.answer = "none" /\ turn[k].event \notin stored
                      /\ r.status = "processed" /\ turn[k].event \in stored
                           => r.answer = "reference"
  PROVE  EventsKept
<1> SUFFICES ASSUME NEW e, e = turn[k].event PROVE EventsKept
  OBVIOUS
<1>1. e \in Events /\ turn' = [turn EXCEPT ![k] = Idle]  BY InItsHand DEF Release
<1>2. /\ event'[e] = r /\ turn'[k] = Idle /\ turn' \in [Workers -> Turns]
      /\ stored' \subseteq Events /\ \A j \in Workers : turn'[j] # turn[j] => j = k
  BY <1>1 DEF IntakeInv, EventInv, EventTypes, SessionInv, SessionTypes, Turns
<1>3. Fact(e)'
  <2>1. Wiped(e)'  BY <1>2 DEF Wiped
  <2>2. ASSUME ~r.broken PROVE OneHand(e)' /\ AnsweredOnce(e)' /\ Acknowledges(e)'
    <3>1. \A j \in Workers : At(j, e) => j = k  BY <2>2, OnlyHand
    <3>2. \A j \in Workers : ~At(j, e)'  BY <1>2, <3>1 DEF At, Idle
    <3>3. OneHand(e)' /\ ~InHand(e)'  BY <3>2 DEF OneHand, InHand
    <3>4. AnsweredOnce(e)'  BY <1>2, <2>2, <3>3 DEF AnsweredOnce
    <3>5. Acknowledges(e)'  BY <1>2, <2>2 DEF Acknowledges
    <3>6. QED BY <3>3, <3>4, <3>5
  <2>3. QED BY <1>2, <2>1, <2>2 DEF Fact
<1>4. \A j \in Workers : turn'[j] # turn[j] =>
        (turn[j].at = "idle" \/ turn[j].event = e) /\ (turn'[j].at = "idle" \/ turn'[j].event = e)
  BY <1>2 DEF Idle
<1>5. stored' \ {e} = stored \ {e}  OBVIOUS
<1>6. event' = [event EXCEPT ![e] = r]  OBVIOUS
<1>7. QED BY <1>1, <1>2, <1>3, <1>4, <1>5, <1>6, OneMessage

LEMMA FinishKeeps == ASSUME IntakeInv, NEW k \in Workers, Finish(k) PROVE EventsKept
<1> DEFINE e == turn[k].event
           row == event[e]
           answer == IF row.answer = "none" THEN turn[k].reply ELSE row.answer
           r == [row EXCEPT !.status = "processed", !.lease = "none", !.word = Spent,
                            !.answer = answer]
<1>1. turn[k].at = "finish" /\ Release(k) /\ UNCHANGED stored
  BY DEF Finish, Doing
<1>2. e \in Events /\ row \in EventRow /\ ~row.wiped /\ turn[k].reply \in {"other", "reference"}
  BY <1>1, InItsHand, KnownMessage, BusyTurn DEF IntakeInv
<1>3. event' = [event EXCEPT ![e] = r]  BY DEF Finish
<1>4. Spent \in Vocabulary  BY DEF Spent, Vocabulary
<1>5. answer \in {"none", "other", "reference"}  BY <1>2 DEF EventRow
<1>6. ASSUME ~row.broken, e \in stored PROVE answer = "reference"
  BY <1>1, <1>6, OnlyHand DEF Promised
<1> HIDE DEF row, answer
<1>7. r \in EventRow /\ r.status = "processed" /\ r.answer = answer /\ r.wiped = row.wiped
      /\ r.broken = row.broken
  BY <1>2, <1>4, <1>5 DEF EventRow
<1> HIDE DEF r
<1>8. QED BY <1>1, <1>2, <1>3, <1>6, <1>7, LetsGo DEF row

LEMMA CrashKeeps == ASSUME IntakeInv, NEW k \in Workers, Crash(k) PROVE EventsKept
<1> DEFINE e == turn[k].event
           row == event[e]
           lost == row.broken \/ e \in stored
           r == [row EXCEPT !.broken = lost]
<1>1. turn[k].at # "idle" /\ Release(k) /\ UNCHANGED stored  BY DEF Crash
<1>2. e \in Events /\ row \in EventRow /\ ~row.wiped  BY <1>1, InItsHand, KnownMessage
<1>3. event' = [event EXCEPT ![e] = r]  BY DEF Crash
<1>4. lost \in BOOLEAN  BY <1>2 DEF EventRow
<1>5. ASSUME ~lost
      PROVE  ~row.broken /\ e \notin stored /\ row.status # "processed" /\ row.answer = "none"
  <2>1. ~row.broken /\ e \notin stored  BY <1>5
  <2>2. QED BY <1>1, <2>1, OnlyHand
<1> HIDE DEF row, lost
<1>6. r \in EventRow /\ r.broken = lost /\ r.wiped = row.wiped /\ r.status = row.status
      /\ r.answer = row.answer
  BY <1>2, <1>4 DEF EventRow
<1> HIDE DEF r
<1>7. QED BY <1>1, <1>2, <1>3, <1>5, <1>6, LetsGo DEF row

LEMMA TurnFailsKeeps == ASSUME IntakeInv, NEW k \in Workers, TurnFails(k) PROVE EventsKept
<1> DEFINE e == turn[k].event
           row == event[e]
           status == IF row.attempts >= MaxAttempts THEN "dead" ELSE "failed"
           lease == IF row.attempts >= MaxAttempts THEN "none" ELSE "live"
           r == [row EXCEPT !.status = status, !.lease = lease]
<1>1. turn[k].at \in {"fetch", "store"} /\ Release(k) /\ UNCHANGED stored  BY DEF TurnFails
<1>2. e \in Events /\ row \in EventRow /\ ~row.wiped  BY <1>1, InItsHand, KnownMessage
<1>3. event' = [event EXCEPT ![e] = r]  BY DEF TurnFails, Fails
<1>4. status \in {"dead", "failed"} /\ lease \in {"none", "live"}  OBVIOUS
<1>5. ASSUME ~row.broken PROVE e \notin stored /\ row.answer = "none"
  BY <1>1, <1>5, OnlyHand DEF Promised
<1> HIDE DEF row, status, lease
<1>6. r \in EventRow /\ r.status = status /\ r.answer = row.answer /\ r.wiped = row.wiped
      /\ r.broken = row.broken
  BY <1>2, <1>4 DEF EventRow
<1> HIDE DEF r
<1>7. QED BY <1>1, <1>2, <1>3, <1>4, <1>5, <1>6, LetsGo DEF row

\* ---- steps that leave the workers alone
LEMMA MessagesUntouched == ASSUME IntakeInv, UNCHANGED <<turn, event, stored>> PROVE EventsKept
BY MessagesAlone, KnownMessage DEF Wiped, IntakeInv, EventInv, EventTypes

LEMMA RowAlone ==
  ASSUME IntakeInv, UNCHANGED <<turn, stored>>, NEW e \in Events, NEW r \in EventRow,
         event' = [event EXCEPT ![e] = r],
         r.status = "processed" <=> event[e].status = "processed",
         r.answer = event[e].answer, r.broken = event[e].broken, r.wiped = event[e].wiped,
         event[e].status = "ignored" => r.status = "ignored"
  PROVE  EventsKept
<1>1. event \in [Events -> EventRow]  BY DEF IntakeInv, EventInv, EventTypes
<1>2. event' \in [Events -> EventRow]  BY <1>1
<1>3. ASSUME NEW d \in Events
      PROVE  /\ event'[d].answer = event[d].answer /\ event'[d].broken = event[d].broken
             /\ event'[d].status = "processed" <=> event[d].status = "processed"
             /\ event'[d].wiped => event'[d].status = "ignored" /\ ~InHand(d)
  <2>1. Wiped(d)  BY KnownMessage
  <2>2. CASE d = e  BY <1>1, <2>1, <2>2 DEF Wiped
  <2>3. CASE d # e  BY <1>1, <2>1, <2>3 DEF Wiped
  <2>4. QED BY <2>2, <2>3
<1>4. QED BY <1>2, <1>3, MessagesAlone

LEMMA RecoveryKeeps ==
  ASSUME IntakeInv, NEW e \in Events, LeaseEnds(e) \/ SweepStranded(e) \/ Replay(e)
  PROVE  EventsKept
<1> DEFINE row == event[e]
<1>1. row \in EventRow /\ UNCHANGED <<turn, stored>>
  BY KnownMessage DEF LeaseEnds, SweepStranded, Replay, talk
<1>2. CASE LeaseEnds(e)
  <2> DEFINE r == [row EXCEPT !.lease = "expired"]
  <2>1. event' = [event EXCEPT ![e] = r]  BY <1>2 DEF LeaseEnds
  <2>2. r \in EventRow /\ r.status = row.status /\ r.answer = row.answer
        /\ r.broken = row.broken /\ r.wiped = row.wiped
    <3> HIDE DEF row
    <3>1. QED BY <1>1 DEF EventRow
  <2> HIDE DEF r
  <2>3. QED BY <1>1, <1>2, <2>1, <2>2, RowAlone
<1>3. CASE SweepStranded(e)
  <2> DEFINE r == [row EXCEPT !.status = "dead", !.lease = "none"]
  <2>1. event' = [event EXCEPT ![e] = r] /\ row.status = "processing"
    BY <1>3 DEF SweepStranded
  <2>2. r \in EventRow /\ r.status = "dead" /\ r.answer = row.answer
        /\ r.broken = row.broken /\ r.wiped = row.wiped
    <3> HIDE DEF row
    <3>1. QED BY <1>1 DEF EventRow
  <2> HIDE DEF r
  <2>3. QED BY <1>1, <2>1, <2>2, RowAlone
<1>4. CASE Replay(e)
  <2> DEFINE r == [row EXCEPT !.status = "received", !.attempts = 0, !.lease = "none"]
  <2>1. event' = [event EXCEPT ![e] = r] /\ row.status \in {"dead", "failed", "processing"}
    BY <1>4 DEF Replay
  <2>2. r \in EventRow /\ r.status = "received" /\ r.answer = row.answer
        /\ r.broken = row.broken /\ r.wiped = row.wiped
    <3> HIDE DEF row
    <3>1. QED BY <1>1 DEF EventRow
  <2> HIDE DEF r
  <2>3. QED BY <1>1, <2>1, <2>2, RowAlone
<1>5. QED BY <1>2, <1>3, <1>4

LEMMA ErasedRowIs ==
  ASSUME IntakeInv, NEW e \in Events
  PROVE  /\ ErasedRow(e) \in EventRow
         /\ ErasedRow(e).answer = event[e].answer /\ ErasedRow(e).broken = event[e].broken
         /\ ErasedRow(e).status = "processed" <=> event[e].status = "processed"
         /\ ErasedRow(e).wiped => ErasedRow(e).status = "ignored" /\ ~InHand(e)
<1> DEFINE row == event[e]
           word == Erased(row.word)
           wiped == row.status \in Waiting \cup {"processing"} /\ ~InHand(e)
           kept == [row EXCEPT !.phone = Deleted, !.word = word, !.wiped = wiped]
<1>1. row \in EventRow  BY KnownMessage
<1>2. word \in Vocabulary  BY DEF Erased, Vocabulary
<1>3. wiped \in BOOLEAN  OBVIOUS
<1>4. (wiped = TRUE) => Cancellable(e) /\ ~InHand(e)  BY DEF Cancellable
<1>5. ErasedRow(e) = IF Cancellable(e) THEN [kept EXCEPT !.status = "ignored", !.lease = "none"]
                     ELSE kept
  BY DEF ErasedRow
<1>6. Cancellable(e) => row.status # "processed"  BY DEF Cancellable, Waiting
<1> HIDE DEF row, word, wiped
<1>7. kept \in EventRow /\ kept.status = row.status /\ kept.answer = row.answer
      /\ kept.broken = row.broken /\ kept.wiped = wiped
  BY <1>1, <1>2, <1>3 DEF EventRow, Addresses
<1> HIDE DEF kept
<1>8. CASE Cancellable(e)
  <2> DEFINE r == [kept EXCEPT !.status = "ignored", !.lease = "none"]
  <2>1. r \in EventRow /\ r.status = "ignored" /\ r.answer = kept.answer
        /\ r.broken = kept.broken /\ r.wiped = kept.wiped
    BY <1>7 DEF EventRow
  <2> HIDE DEF r
  <2>2. ErasedRow(e) = r  BY <1>5, <1>8 DEF r
  <2>3. QED BY <1>4, <1>6, <1>7, <1>8, <2>1, <2>2 DEF row
<1>9. CASE ~Cancellable(e)
  BY <1>3, <1>4, <1>5, <1>7, <1>9 DEF row
<1>10. QED BY <1>8, <1>9

LEMMA ErasureKeeps == ASSUME IntakeInv, NEW p, Anonymise(p) PROVE EventsKept
<1>1. event' = [e \in Events |-> IF event[e].phone = p THEN ErasedRow(e) ELSE event[e]]
      /\ UNCHANGED <<turn, stored>>
  BY DEF Anonymise
<1>2. event \in [Events -> EventRow]  BY DEF IntakeInv, EventInv, EventTypes
<1>3. event' \in [Events -> EventRow]  BY <1>1, <1>2, ErasedRowIs
<1>4. ASSUME NEW e \in Events
      PROVE  /\ event'[e].answer = event[e].answer /\ event'[e].broken = event[e].broken
             /\ event'[e].status = "processed" <=> event[e].status = "processed"
             /\ event'[e].wiped => event'[e].status = "ignored" /\ ~InHand(e)
  <2>1. event'[e] = ErasedRow(e) \/ event'[e] = event[e]  BY <1>1
  <2>2. QED BY <2>1, ErasedRowIs, KnownMessage DEF Wiped
<1>5. QED BY <1>1, <1>3, <1>4, MessagesAlone

LEMMA NewNumberKeeps ==
  ASSUME IntakeInv, NEW p, NEW np \in Numbers, ChangePhone(p, np) PROVE EventsKept
<1>1. event' = [e \in Events |->
        IF event[e].phone = p THEN [event[e] EXCEPT !.phone = np] ELSE event[e]]
      /\ UNCHANGED <<turn, stored>>
  BY DEF ChangePhone
<1>2. np \in Addresses  BY IntakeAssumption DEF Addresses
<1>3. ASSUME NEW e \in Events
      PROVE  LET r == [event[e] EXCEPT !.phone = np]
             IN  /\ r \in EventRow /\ r.answer = event[e].answer /\ r.broken = event[e].broken
                 /\ r.status = event[e].status /\ r.wiped = event[e].wiped
  <2> DEFINE row == event[e]
  <2>1. row \in EventRow  BY KnownMessage
  <2> HIDE DEF row
  <2>2. LET r == [row EXCEPT !.phone = np]
        IN  /\ r \in EventRow /\ r.answer = row.answer /\ r.broken = row.broken
            /\ r.status = row.status /\ r.wiped = row.wiped
    BY <1>2, <2>1 DEF EventRow
  <2>3. QED BY <2>2 DEF row
<1>4. event \in [Events -> EventRow]  BY DEF IntakeInv, EventInv, EventTypes
<1>5. event' \in [Events -> EventRow]  BY <1>1, <1>3, <1>4
<1>6. ASSUME NEW e \in Events
      PROVE  /\ event'[e].answer = event[e].answer /\ event'[e].broken = event[e].broken
             /\ event'[e].status = "processed" <=> event[e].status = "processed"
             /\ event'[e].wiped => event'[e].status = "ignored" /\ ~InHand(e)
  <2>1. event'[e] = [event[e] EXCEPT !.phone = np] \/ event'[e] = event[e]  BY <1>1
  <2>2. QED BY <1>3, <2>1, KnownMessage DEF Wiped
<1>7. QED BY <1>1, <1>5, <1>6, MessagesAlone

\* ---- every step
PeopleKept == person' = [p \in Addresses |-> person'[p]]
Kept == RowsKept /\ EventsKept /\ PeopleKept

LEMMA KeptHolds == ASSUME Kept PROVE IntakeInv'
BY DEF Kept, RowsKept, EventsKept, PeopleKept, IntakeInv, SessionInv, SessionTypes

\* A step of a worker that writes no session.
LEMMA WorkerKeeps ==
  ASSUME IntakeInv, EventsKept, UNCHANGED <<session, person, held>> PROVE Kept
<1>1. RowsKept  BY RowsUntouched DEF IntakeInv
<1>2. QED BY <1>1 DEF Kept, PeopleKept, IntakeInv, SessionInv, SessionTypes

LEMMA FetchedKeeps == ASSUME IntakeInv, NEW k \in Workers, Fetched(k) PROVE Kept
<1> DEFINE t == [turn[k] EXCEPT !.at = "handle"]
<1>1. turn[k].at = "fetch" /\ turn' = [turn EXCEPT ![k] = t]
      /\ UNCHANGED <<event, stored, session, person, held>>
  BY DEF Fetched, Doing
<1>2. t \in Turns /\ t.at = "handle" /\ t.event = turn[k].event
  BY <1>1, BusyTurn DEF Turns, IntakeInv
<1> HIDE DEF t
<1>3. EventsKept  BY <1>1, <1>2, WorkerGoesOn DEF Promised
<1>4. QED BY <1>1, <1>3, WorkerKeeps

LEMMA ContinuesKeeps ==
  ASSUME IntakeInv, NEW k \in Workers, turn[k].at \in {"handle", "store"}, Continues(k),
         UNCHANGED <<event, stored>>
  PROVE  EventsKept
<1>1. PICK t \in Turns : /\ turn' = [turn EXCEPT ![k] = t] /\ t.event = turn[k].event
                         /\ t.at \in {"finish", "store"} /\ (t.at = "finish" => t.reply = "other")
  BY DEF Continues
<1>2. QED BY <1>1, WorkerGoesOn DEF Promised

LEMMA HandleKeeps == ASSUME IntakeInv, NEW k \in Workers, Handle(k) PROVE Kept
<1>1. turn[k].at = "handle" /\ UNCHANGED <<event, stored>>  BY DEF Handle, Turn, Doing
<1>2. Continues(k) /\ TurnWrites(k) /\ TurnRegisters(k)  BY TurnGoes DEF Handle, IntakeInv
<1>3. EventsKept  BY <1>1, <1>2, ContinuesKeeps
<1>4. RowsKept  BY <1>1, <1>2, BusyTurn, TurnKeepsRows DEF IntakeInv
<1>5. PeopleKept
  BY <1>2 DEF TurnRegisters, Registers, PeopleKept, IntakeInv, SessionInv, SessionTypes
<1>6. QED BY <1>3, <1>4, <1>5 DEF Kept

LEMMA RefuseKeeps == ASSUME IntakeInv, NEW k \in Workers, Refuse(k) PROVE Kept
<1>1. Continues(k)  BY AnswerContinues DEF Refuse, Say, IntakeInv
<1>2. EventsKept  BY <1>1, ContinuesKeeps DEF Refuse, Doing
<1>3. QED BY <1>2, WorkerKeeps DEF Refuse, Say

LEMMA SaveKeeps == ASSUME IntakeInv, NEW k \in Workers, Save(k) PROVE Kept
<1> DEFINE t == [turn[k] EXCEPT !.at = "finish", !.reply = "reference"]
<1>1. turn[k].at = "save" /\ turn' = [turn EXCEPT ![k] = t]
      /\ UNCHANGED <<event, stored, person, held>>
  BY DEF Save, SaveSubmitted, Doing
<1>2. t \in Turns /\ t.at = "finish" /\ t.reply = "reference" /\ t.event = turn[k].event
  BY <1>1, BusyTurn DEF Turns, IntakeInv
<1> HIDE DEF t
<1>3. EventsKept  BY <1>1, <1>2, WorkerGoesOn
<1>4. RowsKept  BY SaveKeepsRows DEF Save, IntakeInv
<1>5. QED BY <1>1, <1>3, <1>4 DEF Kept, PeopleKept, IntakeInv, SessionInv, SessionTypes

LEMMA WorkersKeep ==
  ASSUME IntakeInv, NEW k \in Workers,
         \/ \E e \in Events : Take(k, e)
         \/ Fetched(k) \/ TurnFails(k) \/ Handle(k) \/ Store(k)
         \/ Refuse(k) \/ Save(k) \/ Finish(k) \/ Crash(k)
  PROVE  Kept
<1>1. CASE \E e \in Events : Take(k, e)  BY <1>1, TakeKeeps, WorkerKeeps DEF Take
<1>2. CASE TurnFails(k)  BY <1>2, TurnFailsKeeps, WorkerKeeps DEF TurnFails
<1>3. CASE Store(k)  BY <1>3, StoreKeeps, WorkerKeeps DEF Store
<1>4. CASE Finish(k)  BY <1>4, FinishKeeps, WorkerKeeps DEF Finish
<1>5. CASE Crash(k)  BY <1>5, CrashKeeps, WorkerKeeps DEF Crash
<1>6. QED BY <1>1, <1>2, <1>3, <1>4, <1>5, FetchedKeeps, HandleKeeps, RefuseKeeps, SaveKeeps

LEMMA StaffKeeps == ASSUME IntakeInv, NEW p \in Phones, Staff(p) PROVE Kept
<1>1. p \in Addresses  BY DEF Addresses
<1>2. CASE UNCHANGED event /\ ((\E o \in Operators : ClaimHandoff(o, p)) \/ ReleaseHandoff(p))
  <2>1. UNCHANGED <<person, turn, stored>>  BY <1>2 DEF ClaimHandoff, ReleaseHandoff
  <2>2. RowsKept  BY <1>1, <1>2, OperatorsKeepRows DEF IntakeInv
  <2>3. EventsKept  BY <1>2, <2>1, MessagesUntouched
  <2>4. QED BY <2>1, <2>2, <2>3 DEF Kept, PeopleKept, IntakeInv, SessionInv, SessionTypes
<1>3. CASE WithdrawParticipant(p) /\ UNCHANGED event
  <2>1. UNCHANGED <<session, held, turn, stored>>  BY <1>3 DEF WithdrawParticipant
  <2>2. EventsKept /\ RowsKept  BY <1>3, <2>1, MessagesUntouched, RowsUntouched DEF IntakeInv
  <2>3. QED BY <1>3, <2>2
    DEF WithdrawParticipant, Kept, PeopleKept, IntakeInv, SessionInv, SessionTypes
<1>4. CASE Anonymise(p)
  <2>1. EventsKept /\ RowsKept  BY <1>4, ErasureKeeps, MovesKeepRows DEF IntakeInv
  <2>2. QED BY <1>4, <2>1 DEF Anonymise, Kept, PeopleKept, IntakeInv, SessionInv, SessionTypes
<1>5. CASE \E np \in Numbers : ChangePhone(p, np)
  <2>1. EventsKept /\ RowsKept  BY <1>5, NewNumberKeeps, MovesKeepRows DEF IntakeInv
  <2>2. QED BY <1>5, <2>1 DEF ChangePhone, Kept, PeopleKept, IntakeInv, SessionInv, SessionTypes
<1>6. QED BY <1>2, <1>3, <1>4, <1>5 DEF Staff

LEMMA PassesKeep == ASSUME IntakeInv, NEW p \in Addresses, Passes(p) PROVE Kept
<1>1. UNCHANGED <<person, turn, stored, event>>
  BY DEF Passes, OnReceiptOutcome, HoldExpires, QueueTimesOut
<1>2. EventsKept  BY <1>1, MessagesUntouched
<1>3. RowsKept
  BY OutcomeKeepsRows, OverdueKeepsRows, RowsUntouched DEF Passes, HoldExpires, IntakeInv
<1>4. QED BY <1>1, <1>2, <1>3 DEF Kept, PeopleKept, IntakeInv, SessionInv, SessionTypes

LEMMA StepKeeps == ASSUME IntakeInv, [Next]_vars PROVE IntakeInv'
<1>1. ASSUME NEW e \in Events, NEW p \in Senders, NEW w \in Speech[e], Receive(e, p, w) PROVE Kept
  BY <1>1, ReceiveKeeps, WorkerKeeps DEF Receive
<1>2. ASSUME NEW e \in Events, LeaseEnds(e) \/ SweepStranded(e) \/ Replay(e) PROVE Kept
  BY <1>2, RecoveryKeeps, WorkerKeeps DEF LeaseEnds, SweepStranded, Replay, talk
<1>3. CASE Administers \/ UNCHANGED vars
  <2>1. UNCHANGED <<session, person, turn, held, stored, event>>
    BY <1>3 DEF Administers, Administer, vars
  <2>2. EventsKept  BY <2>1, MessagesUntouched
  <2>3. QED BY <2>1, <2>2, WorkerKeeps, KeptHolds
<1>4. QED BY <1>1, <1>2, <1>3, WorkersKeep, StaffKeeps, PassesKeep, KeptHolds DEF Next

LEMMA BeginsProper ==
  ASSUME NEW st \in {"HOME", "ENTRY_RECEIPT"}, NEW picked, NEW last
  PROVE  Proper([Fresh EXCEPT !.state = st, !.picked = picked, !.last = last])
BY DEF Fresh, Proper, IsSession, Needs

LEMMA Starts == ASSUME Init PROVE IntakeInv
<1>1. SessionTypes
  <2>1. ASSUME NEW p \in Addresses PROVE session[p] = NoRow \/ Proper(session[p])
    <3>1. PICK b \in [Phones -> UNION {Beginnings[q] : q \in Phones}] :
            /\ \A q \in Phones : b[q] \in Beginnings[q]
            /\ session = [q \in Addresses |-> IF q \in Phones THEN b[q].session ELSE NoRow]
      BY DEF Init, ConversationInit
    <3>2. CASE p \in Phones
      <4>1. session[p] = b[p].session /\ b[p] \in Beginnings[p]  BY <3>1, <3>2
      <4>2. \/ session[p] = NoRow
            \/ \E st \in {"HOME", "ENTRY_RECEIPT"}, picked \in BOOLEAN, last \in BOOLEAN :
                 session[p] = [Fresh EXCEPT !.state = st, !.picked = picked, !.last = last]
        BY <3>2, <4>1, BeginningsAssumption
      <4>3. CASE \E st \in {"HOME", "ENTRY_RECEIPT"}, picked \in BOOLEAN, last \in BOOLEAN :
                   session[p] = [Fresh EXCEPT !.state = st, !.picked = picked, !.last = last]
        <5>1. PICK st \in {"HOME", "ENTRY_RECEIPT"}, picked \in BOOLEAN, last \in BOOLEAN :
                session[p] = [Fresh EXCEPT !.state = st, !.picked = picked, !.last = last]
          BY <4>3
        <5>2. Proper([Fresh EXCEPT !.state = st, !.picked = picked, !.last = last])
          BY BeginsProper
        <5>3. QED BY <5>1, <5>2
      <4>4. QED BY <4>2, <4>3
    <3>3. QED BY <3>1, <3>2
  <2>2. session = [p \in Addresses |-> session[p]] /\ held = [p \in Addresses |-> held[p]]
        /\ person = [p \in Addresses |-> person[p]]
    BY DEF Init, ConversationInit
  <2>3. turn \in [Workers -> Turns]  BY DEF Init, ConversationInit, Turns
  <2>4. QED BY <2>1, <2>2, <2>3 DEF SessionTypes
<1>2. SessionInv  BY <1>1 DEF Init, ConversationInit, SessionInv
<1>3. EventTypes
  BY DEF Init, ConversationInit, EventTypes, EventRow, Addresses, Spent, Vocabulary
<1>4. ASSUME NEW e \in Events PROVE Fact(e)
  <2>1. ~InHand(e) /\ OneHand(e)  BY DEF Init, ConversationInit, InHand, OneHand, At, Idle
  <2>2. /\ event[e].status = "none" /\ event[e].answer = "none" /\ ~event[e].wiped
        /\ stored = {}
    BY DEF Init, ConversationInit
  <2>3. QED BY <2>1, <2>2 DEF Fact, Wiped, AnsweredOnce, Acknowledges
<1>5. QED BY <1>2, <1>3, <1>4 DEF IntakeInv, EventInv

\* The invariant of the whole: the sessions and what is held back for them, the messages
\* and the workers that have them.
THEOREM IntakeInvariant == Spec => []IntakeInv
<1>1. Init => IntakeInv  BY Starts
<1>2. IntakeInv /\ [Next]_vars => IntakeInv'  BY StepKeeps
<1>3. QED BY <1>1, <1>2, PTL DEF Spec

\* ---- what follows
\* A receipt outcome is held back only while somebody owns the conversation
\* (conversation.mjs:547-557): for every number, operator and order of the steps.
THEOREM HeldRowsAreOwned == Spec => []HeldOnlyWhileOwned
<1>1. IntakeInv => HeldOnlyWhileOwned
  BY DEF IntakeInv, SessionInv, HeldOnlyWhileOwned, Owned, Addresses
<1>2. QED BY <1>1, IntakeInvariant, PTL

\* Nobody takes up a message whose sender was erased while it waited
\* (services.mjs:448-456).
THEOREM ErasedMessagesRest == Spec => []ErasedStaysGone
<1>1. IntakeInv => ErasedStaysGone  BY KnownMessage DEF Wiped, ErasedStaysGone
<1>2. QED BY <1>1, IntakeInvariant, PTL

\* A stored photo's message is processed with the reference of its receipt, unless a
\* worker died on it or outlived its lease (conversation.mjs:486-500).
THEOREM ReceiptsAreAcknowledged == Spec => []StoredReceiptIsAcknowledged
<1>1. IntakeInv => StoredReceiptIsAcknowledged
  <2> SUFFICES ASSUME IntakeInv, NEW e \in stored, event[e].status = "processed", ~event[e].broken
               PROVE  event[e].answer = "reference"
    BY DEF StoredReceiptIsAcknowledged
  <2>1. e \in Events  BY DEF IntakeInv, EventInv, EventTypes
  <2>2. ~InHand(e) /\ Acknowledges(e)  BY <2>1, KnownMessage DEF AnsweredOnce
  <2>3. QED BY <2>2 DEF Acknowledges, Promised, InHand
<1>2. QED BY <1>1, IntakeInvariant, PTL

\* What a list's own number does: it stays with the list (conversation.mjs:203-217).
LEMMA NumbersReachTheirList ==
  ASSUME NEW s, NEW n \in 1..9, n \in 1..ListSize(s), s.owner = "none", campaign # "closed"
  PROVE  Route(s, Digit(n), FALSE) = s.state
<1> DEFINE w == Digit(n)
<1>1. w.number = n  BY DEF Digit
<1>2. w.intent \in {"REGISTER", "ENTER", "MECHANICS", "TERMS", "PRIZES", "WINNERS", "STATUS",
                    "HELP", "NUMBER"}
  BY DEF Digit
<1> HIDE DEF w
<1>3. PicksListOption(s, w)  BY <1>1 DEF PicksListOption
<1>4. w.intent \notin {"CLAIM", "REF", "OPTOUT", "SUPPORT", "CANCEL"}  BY <1>2
<1>5. Route(s, w, FALSE) = s.state  BY <1>3, <1>4 DEF Route
<1>6. QED BY <1>5 DEF w

\* Every number that a list of the confirmation, the branches or the winners shows can
\* be chosen.
THEOREM EveryOptionIsReachable == Spec => []EveryOptionCanBeChosen
<1>1. EveryOptionCanBeChosen
  <2> DEFINE s(p) == session[p]
             shown(p) == CASE s(p).state = "REG_CONFIRM" -> Len(ConfirmFields)
                           [] s(p).state \in OutletStates \cup {"WINNERS"} -> Len(s(p).nav.options)
                           [] OTHER -> 0
  <2> SUFFICES ASSUME NEW p \in Phones, s(p).owner = "none", campaign # "closed",
                      NEW n \in 1..shown(p)
               PROVE  n > 9 \/ Route(s(p), Digit(n), FALSE) = s(p).state
    BY DEF EveryOptionCanBeChosen
  <2>1. n \in 1..ListSize(s(p))
    <3>1. CASE s(p).state = "REG_CONFIRM"
      <4>1. Len(ConfirmFields) = IF collects THEN 4 ELSE 3  BY DEF ConfirmFields
      <4>2. shown(p) = Len(ConfirmFields)  BY <3>1 DEF OutletStates
      <4>3. QED BY <3>1, <4>1, <4>2 DEF ListSize
    <3>2. CASE s(p).state \in OutletStates \cup {"WINNERS"}
      <4>1. s(p).state # "REG_CONFIRM"  BY <3>2 DEF OutletStates
      <4>2. QED BY <3>2, <4>1 DEF ListSize
    <3>3. CASE s(p).state # "REG_CONFIRM" /\ s(p).state \notin OutletStates \cup {"WINNERS"}
      <4>1. shown(p) = 0  BY <3>3
      <4>2. QED BY <4>1
    <3>4. QED BY <3>1, <3>2, <3>3
  <2>2. n \in Int /\ n >= 1  OBVIOUS
  <2>3. n > 9 \/ n \in 1..9  BY <2>2
  <2>4. QED BY <2>1, <2>3, NumbersReachTheirList
<1>2. QED BY <1>1, PTL

\* Who writes what a worker's step is about.
LEMMA WritersOfSessions ==
  ASSUME IntakeInv, [Next]_vars, turn' # turn
  PROVE  \/ UNCHANGED session
         \/ \E k \in Workers : Handle(k) \/ Save(k)
<1>1. ASSUME NEW p \in Phones, Staff(p) PROVE UNCHANGED turn
  BY <1>1 DEF Staff, ClaimHandoff, ReleaseHandoff, WithdrawParticipant, Anonymise, ChangePhone
<1>2. ASSUME NEW p \in Addresses, Passes(p) PROVE UNCHANGED turn
  BY <1>2 DEF Passes, OnReceiptOutcome, HoldExpires, QueueTimesOut
<1>3. ASSUME NEW e \in Events,
             \/ \E p \in Senders : \E w \in Speech[e] : Receive(e, p, w)
             \/ LeaseEnds(e) \/ SweepStranded(e) \/ Replay(e)
      PROVE  UNCHANGED turn
  BY <1>3 DEF Receive, LeaseEnds, SweepStranded, Replay, talk
<1>4. Administers \/ UNCHANGED vars => UNCHANGED turn  BY DEF Administers, Administer, vars
<1>5. ASSUME NEW k \in Workers,
             \/ \E e \in Events : Take(k, e)
             \/ Fetched(k) \/ TurnFails(k) \/ Store(k) \/ Refuse(k) \/ Finish(k) \/ Crash(k)
      PROVE  UNCHANGED session
  BY <1>5 DEF Take, Fetched, TurnFails, Store, Refuse, Say, Finish, Crash
<1>6. QED BY <1>1, <1>2, <1>3, <1>4, <1>5 DEF Next

\* No turn takes a conversation from the operator who claimed it
\* (conversation.mjs:160-175, 496-501).
THEOREM ClaimsStand == Spec => ClaimIsKept
<1> DEFINE Claimed(p) == session[p] # NoRow /\ session[p].owner \in Operators =>
             session'[p] # NoRow /\ session'[p].owner = session[p].owner
<1>1. IntakeInv /\ [Next]_vars => [turn' # turn => \A p \in Phones : Claimed(p)]_vars
  <2> SUFFICES ASSUME IntakeInv, [Next]_vars, turn' # turn, NEW p \in Phones,
                      session[p] # NoRow, session[p].owner \in Operators
               PROVE  session'[p] # NoRow /\ session'[p].owner = session[p].owner
    OBVIOUS
  <2>1. Row(p) = session[p] /\ session[p].owner \notin {"none", "queue"}
    BY ConversationAssumption DEF Row
  <2>2. session = [q \in Addresses |-> session[q]] /\ p \in Addresses
    BY DEF IntakeInv, SessionInv, SessionTypes, Addresses
  <2>3. ASSUME NEW q, Writes(q, Row(q).owner)
        PROVE  session'[p] # NoRow /\ session'[p].owner = session[p].owner
    <3>1. PICK s : Proper(s) /\ s.owner = Row(q).owner /\ session' = [session EXCEPT ![q] = s]
      BY <2>3 DEF Writes
    <3>2. CASE p = q
      <4>1. session'[p] = s  BY <2>2, <3>1, <3>2
      <4>2. QED BY <2>1, <3>1, <3>2, <4>1, ProperIsARow
    <3>3. CASE p # q
      <4>1. session'[p] = session[p]  BY <2>2, <3>1, <3>3
      <4>2. QED BY <4>1
    <3>4. QED BY <3>2, <3>3
  <2>4. ASSUME NEW q, NEW o, Writes(q, o), q # p
        PROVE  session'[p] # NoRow /\ session'[p].owner = session[p].owner
    <3>1. session'[p] = session[p]  BY <2>2, <2>4 DEF Writes
    <3>2. QED BY <3>1
  <2>5. ASSUME NEW k \in Workers, Handle(k)
        PROVE  session'[p] # NoRow /\ session'[p].owner = session[p].owner
    <3>1. TurnWrites(k)  BY <2>5, TurnGoes DEF Handle, IntakeInv
    <3>2. QED BY <2>1, <2>3, <2>4, <3>1 DEF TurnWrites, Keeps
  <2>6. ASSUME NEW k \in Workers, Save(k)
        PROVE  session'[p] # NoRow /\ session'[p].owner = session[p].owner
    BY <2>3, <2>6, SaveKeepsRows DEF Save, IntakeInv
  <2>7. QED BY <2>5, <2>6, WritersOfSessions
<1>2. QED BY <1>1, IntakeInvariant, PTL DEF Spec, ClaimIsKept

\* Nobody is registered who was not asked for first name, surname and town on the way
\* (conversation.mjs:360-410).
THEOREM NamesBeforeRegistration == Spec => TermsComeLast
<1> DEFINE Asked(p) ==
             person[p].status = "none" /\ person'[p].status = "active"
             /\ (\A q \in Phones : person[q].status # "none" => person'[q] = person[q])
             => session[p] # NoRow /\ Names \subseteq session[p].got
<1>1. IntakeInv /\ [Next]_vars => [\A p \in Phones : Asked(p)]_vars
  <2> SUFFICES ASSUME IntakeInv, [Next]_vars, NEW p \in Phones,
                      person[p].status = "none", person'[p].status = "active",
                      \A q \in Phones : person[q].status # "none" => person'[q] = person[q]
               PROVE  session[p] # NoRow /\ Names \subseteq session[p].got
    OBVIOUS
  <2>1. p \in Addresses /\ person = [q \in Addresses |-> person[q]] /\ person' # person
    BY DEF IntakeInv, SessionInv, SessionTypes, Addresses
  <2>2. ASSUME NEW k \in Workers, Handle(k)
        PROVE  session[p] # NoRow /\ Names \subseteq session[p].got
    <3>1. TurnRegisters(k)  BY <2>2, TurnGoes DEF Handle, IntakeInv
    <3>2. Registers(k, Row(turn[k].phone))
      <4>1. ASSUME NEW n, n.status # "active", person' = [person EXCEPT ![turn[k].phone] = n]
            PROVE  FALSE
        BY <2>1, <4>1
      <4>2. QED BY <2>1, <3>1, <4>1 DEF TurnRegisters
    <3>3. turn[k].phone = p  BY <2>1, <3>2 DEF Registers
    <3>4. Row(p).state = "REG_TERMS"  BY <3>2, <3>3 DEF Registers
    <3>5. session[p] # NoRow /\ Row(p) = session[p]  BY <3>4 DEF Row, Fresh
    <3>6. QED BY <2>1, <3>4, <3>5, RowIsProper DEF Proper, Needs, IntakeInv
  <2>3. ASSUME NEW q \in Phones, Staff(q) PROVE FALSE
    <3>1. q \in Addresses  BY DEF Addresses
    <3>2. CASE WithdrawParticipant(q)  BY <2>1, <3>1, <3>2 DEF WithdrawParticipant
    <3>3. CASE Anonymise(q)  BY <2>1, <3>1, <3>3 DEF Anonymise, Nobody, Gone
    <3>4. ASSUME NEW np \in Numbers, ChangePhone(q, np) PROVE FALSE
      <4>1. np \in Addresses /\ q # np /\ person[q].status # "none"
            /\ person' = [person EXCEPT ![q] = Nobody, ![np] = person[q]]
        BY <3>4, IntakeAssumption DEF ChangePhone, Addresses
      <4>2. person'[q] = Nobody  BY <2>1, <3>1, <4>1
      <4>3. person'[q] = person[q]  BY <4>1
      <4>4. Nobody.status = "none"  BY DEF Nobody
      <4>5. QED BY <4>1, <4>2, <4>3, <4>4
    <3>5. UNCHANGED person \/ WithdrawParticipant(q) \/ Anonymise(q)
          \/ \E np \in Numbers : ChangePhone(q, np)
      BY <2>3 DEF Staff, ClaimHandoff, ReleaseHandoff
    <3>6. QED BY <2>1, <3>2, <3>3, <3>4, <3>5
  <2>4. ASSUME NEW k \in Workers,
               \/ \E e \in Events : Take(k, e)
               \/ Fetched(k) \/ TurnFails(k) \/ Store(k)
               \/ Refuse(k) \/ Save(k) \/ Finish(k) \/ Crash(k)
        PROVE  FALSE
    BY <2>1, <2>4
      DEF Take, Fetched, TurnFails, Store, Refuse, Say, Save, SaveSubmitted, Finish, Crash
  <2>5. ASSUME NEW e \in Events,
               \/ \E q \in Senders : \E w \in Speech[e] : Receive(e, q, w)
               \/ LeaseEnds(e) \/ SweepStranded(e) \/ Replay(e)
        PROVE  FALSE
    BY <2>1, <2>5 DEF Receive, LeaseEnds, SweepStranded, Replay, talk
  <2>6. ASSUME NEW q \in Addresses, Passes(q) PROVE FALSE
    BY <2>1, <2>6 DEF Passes, OnReceiptOutcome, HoldExpires, QueueTimesOut
  <2>7. ~Administers /\ ~UNCHANGED vars  BY <2>1 DEF Administers, Administer, vars
  <2>8. QED BY <2>2, <2>3, <2>4, <2>5, <2>6, <2>7 DEF Next
<1>2. QED BY <1>1, IntakeInvariant, PTL DEF Spec, TermsComeLast

\* A message that is not over is leased, or offered to the next worker, or left by one on
\* its last attempt, where the sweep finds it; and it is never handed out more often than
\* it may be.
Swept(e) ==
  /\ event[e].status = "processing" /\ event[e].lease = "expired"
  /\ event[e].attempts >= MaxAttempts
MessagesMove ==
  \A e \in Events :
    /\ event[e].attempts <= MaxAttempts
    /\ event[e].status \in Waiting \cup {"processing"} =>
         event[e].lease = "live" \/ Offered(e) \/ Swept(e)

\* It is inductive as a fact about each row.
MovingRow(r) ==
  /\ r.attempts <= MaxAttempts
  /\ r.status \in Waiting => r.attempts < MaxAttempts
  /\ r.status = "processing" => r.lease # "none"
RowsMove == \A e \in Events : MovingRow(event[e])

LEMMA MovingWhenWritten ==
  ASSUME IntakeInv, RowsMove, NEW e, NEW r, event' = [event EXCEPT ![e] = r],
         e \in Events => MovingRow(r)
  PROVE  RowsMove'
BY DEF IntakeInv, EventInv, EventTypes, RowsMove

\* Of the workers only the one that takes a message, fails or finishes writes the row.
LEMMA WorkersMoveRows ==
  ASSUME IntakeInv, RowsMove, NEW k \in Workers,
         \/ \E e \in Events : Take(k, e)
         \/ TurnFails(k) \/ Finish(k) \/ Crash(k)
  PROVE  RowsMove'
<1>1. ASSUME NEW e \in Events, Take(k, e) PROVE RowsMove'
  <2> DEFINE again == event[e].broken \/ InHand(e)
             r == [event[e] EXCEPT !.status = "processing", !.lease = "live",
                     !.attempts = event[e].attempts + 1, !.broken = again]
  <2>1. event' = [event EXCEPT ![e] = r]  BY <1>1 DEF Take
  <2>2. event[e] \in EventRow /\ event[e].attempts < MaxAttempts
    BY <1>1, KnownMessage DEF Take, Oldest, Offered
  <2> HIDE DEF again
  <2>3. r.status = "processing" /\ r.lease = "live" /\ r.attempts = event[e].attempts + 1
        /\ event[e].attempts \in Nat
    BY <2>2 DEF EventRow
  <2> HIDE DEF r
  <2>4. MovingRow(r)  BY <2>2, <2>3, IntakeAssumption DEF MovingRow, Waiting
  <2>5. QED BY <2>1, <2>4, MovingWhenWritten
<1>2. ASSUME turn[k].at # "idle"
      PROVE  event[turn[k].event] \in EventRow /\ MovingRow(event[turn[k].event])
  BY <1>2, InItsHand, KnownMessage DEF RowsMove
<1>3. CASE TurnFails(k)
  <2>1. PICK e : e = turn[k].event  OBVIOUS
  <2>2. event[e] \in EventRow /\ MovingRow(event[e])  BY <1>2, <1>3, <2>1 DEF TurnFails
  <2>3. CASE event[e].attempts >= MaxAttempts
    <3> DEFINE r == [event[e] EXCEPT !.status = "dead", !.lease = "none"]
    <3>1. event' = [event EXCEPT ![e] = r]  BY <1>3, <2>1, <2>3 DEF TurnFails, Fails
    <3>2. MovingRow(r)  BY <2>2 DEF MovingRow, EventRow, Waiting
    <3> HIDE DEF r
    <3>3. QED BY <3>1, <3>2, MovingWhenWritten
  <2>4. CASE ~(event[e].attempts >= MaxAttempts)
    <3> DEFINE r == [event[e] EXCEPT !.status = "failed", !.lease = "live"]
    <3>1. event' = [event EXCEPT ![e] = r]  BY <1>3, <2>1, <2>4 DEF TurnFails, Fails
    <3>2. event[e].attempts < MaxAttempts  BY <2>2, <2>4, IntakeAssumption DEF EventRow
    <3>3. MovingRow(r)  BY <2>2, <3>2 DEF MovingRow, EventRow, Waiting
    <3> HIDE DEF r
    <3>4. QED BY <3>1, <3>3, MovingWhenWritten
  <2>5. QED BY <2>3, <2>4
<1>4. CASE Finish(k)
  <2>1. PICK e : e = turn[k].event  OBVIOUS
  <2>2. PICK answer :
          event' = [event EXCEPT ![e] = [event[e] EXCEPT !.status = "processed",
                      !.lease = "none", !.word = Spent, !.answer = answer]]
    BY <1>4, <2>1 DEF Finish
  <2> DEFINE r == [event[e] EXCEPT !.status = "processed", !.lease = "none", !.word = Spent,
                     !.answer = answer]
  <2>3. event[e] \in EventRow /\ MovingRow(event[e])  BY <1>2, <1>4, <2>1 DEF Finish, Doing
  <2>4. MovingRow(r)  BY <2>3 DEF MovingRow, EventRow, Waiting
  <2> HIDE DEF r
  <2>5. QED BY <2>2, <2>4, MovingWhenWritten DEF r
<1>5. CASE Crash(k)
  <2>1. PICK e, broken :
          /\ e = turn[k].event
          /\ event' = [event EXCEPT ![e] = [event[e] EXCEPT !.broken = broken]]
    BY <1>5 DEF Crash
  <2> DEFINE r == [event[e] EXCEPT !.broken = broken]
  <2>2. event[e] \in EventRow /\ MovingRow(event[e])  BY <1>2, <1>5, <2>1 DEF Crash
  <2>3. MovingRow(r)  BY <2>2 DEF MovingRow, EventRow, Waiting
  <2> HIDE DEF r
  <2>4. QED BY <2>1, <2>3, MovingWhenWritten DEF r
<1>6. QED BY <1>1, <1>3, <1>4, <1>5

LEMMA OthersMoveRows ==
  ASSUME IntakeInv, RowsMove,
         \/ \E e \in Events, p \in Senders : \E w \in Speech[e] : Receive(e, p, w)
         \/ \E e \in Events : LeaseEnds(e) \/ SweepStranded(e) \/ Replay(e)
         \/ \E p \in Phones : Anonymise(p) \/ \E np \in Numbers : ChangePhone(p, np)
  PROVE  RowsMove'
<1>0. \A e \in Events : event[e] \in EventRow /\ MovingRow(event[e])
  BY KnownMessage DEF RowsMove
<1>1. ASSUME NEW e \in Events, NEW p \in Senders, NEW w \in Speech[e], Receive(e, p, w)
      PROVE  RowsMove'
  <2> DEFINE r == [status |-> "received", attempts |-> 0, lease |-> "none", phone |-> p,
                   word |-> w, answer |-> "none", broken |-> FALSE, wiped |-> FALSE]
  <2>1. event' = [event EXCEPT ![e] = r]  BY <1>1 DEF Receive
  <2>2. MovingRow(r)  BY IntakeAssumption DEF MovingRow, Waiting
  <2> HIDE DEF r
  <2>3. QED BY <2>1, <2>2, MovingWhenWritten
<1>2. ASSUME NEW e \in Events, LeaseEnds(e) \/ SweepStranded(e) \/ Replay(e) PROVE RowsMove'
  <2> DEFINE ended == [event[e] EXCEPT !.lease = "expired"]
             swept == [event[e] EXCEPT !.status = "dead", !.lease = "none"]
             again == [event[e] EXCEPT !.status = "received", !.attempts = 0, !.lease = "none"]
  <2>1. \/ event' = [event EXCEPT ![e] = ended] \/ event' = [event EXCEPT ![e] = swept]
        \/ event' = [event EXCEPT ![e] = again]
    BY <1>2 DEF LeaseEnds, SweepStranded, Replay
  <2>2. MovingRow(ended)  BY <1>0 DEF MovingRow, EventRow
  <2>3. MovingRow(swept)  BY <1>0 DEF MovingRow, EventRow, Waiting
  <2>4. MovingRow(again)  BY <1>0, IntakeAssumption DEF MovingRow, EventRow, Waiting
  <2> HIDE DEF ended, swept, again
  <2>5. QED BY <2>1, <2>2, <2>3, <2>4, MovingWhenWritten
<1>3. ASSUME NEW p \in Phones, Anonymise(p) PROVE RowsMove'
  <2> SUFFICES ASSUME NEW e \in Events PROVE MovingRow(event'[e])  BY DEF RowsMove
  <2>1. event'[e] = event[e] \/ event'[e] = ErasedRow(e)  BY <1>3 DEF Anonymise
  <2>2. MovingRow(ErasedRow(e))
    <3>1. PICK word, wiped :
            ErasedRow(e) \in
              {[event[e] EXCEPT !.phone = Deleted, !.word = word, !.wiped = wiped],
               [event[e] EXCEPT !.phone = Deleted, !.word = word, !.wiped = wiped,
                                !.status = "ignored", !.lease = "none"]}
      <4>1. PICK word : word = Erased(event[e].word)  OBVIOUS
      <4>2. PICK wiped : wiped = (event[e].status \in Waiting \cup {"processing"} /\ ~InHand(e))
        OBVIOUS
      <4>3. CASE Cancellable(e)  BY <1>0, <4>1, <4>2, <4>3 DEF ErasedRow
      <4>4. CASE ~Cancellable(e)  BY <1>0, <4>1, <4>2, <4>4 DEF ErasedRow
      <4>5. QED BY <4>3, <4>4
    <3>2. QED BY <1>0, <3>1 DEF MovingRow, EventRow, Waiting
  <2>3. QED BY <1>0, <2>1, <2>2
<1>4. ASSUME NEW p \in Phones, NEW np \in Numbers, ChangePhone(p, np) PROVE RowsMove'
  <2> SUFFICES ASSUME NEW e \in Events PROVE MovingRow(event'[e])  BY DEF RowsMove
  <2>1. event'[e] = event[e] \/ event'[e] = [event[e] EXCEPT !.phone = np]
    BY <1>4 DEF ChangePhone
  <2>2. QED BY <1>0, <2>1 DEF MovingRow, EventRow
<1>5. QED BY <1>1, <1>2, <1>3, <1>4

LEMMA MoveStep == ASSUME IntakeInv, RowsMove, [Next]_vars PROVE RowsMove'
<1>1. CASE UNCHANGED event  BY <1>1 DEF RowsMove
<1>2. ASSUME NEW k \in Workers, Fetched(k) \/ Handle(k) \/ Store(k) \/ Refuse(k) \/ Save(k)
      PROVE  UNCHANGED event
  BY <1>2 DEF Fetched, Handle, Store, Refuse, Save
<1>3. ASSUME NEW p \in Phones, Staff(p)
      PROVE  UNCHANGED event \/ Anonymise(p) \/ \E np \in Numbers : ChangePhone(p, np)
  BY <1>3 DEF Staff
<1>4. ASSUME Administers \/ \E p \in Addresses : Passes(p) PROVE UNCHANGED event
  BY <1>4 DEF Administers, Passes
<1>5. QED BY <1>1, <1>2, <1>3, <1>4, WorkersMoveRows, OthersMoveRows DEF Next, vars

\* No message is forgotten between the lease, the selector and the sweep: whatever dies,
\* fails, outlives its lease, or is replayed, erased or moved to another number meanwhile,
\* one that is not over can be taken, is leased, or is shown to an operator by the next
\* sweep, and no message is taken more often than EVENT_MAX_ATTEMPTS between two replays
\* (intake.mjs, the event queue; services.mjs, anonymisation and change of number).
THEOREM MessagesAreNeverStranded == Spec => []MessagesMove
<1>1. Init => RowsMove
  BY IntakeAssumption DEF Init, ConversationInit, RowsMove, MovingRow, Waiting
<1>2. IntakeInv /\ RowsMove => MessagesMove
  <2> SUFFICES ASSUME IntakeInv, RowsMove, NEW e \in Events
               PROVE  /\ event[e].attempts <= MaxAttempts
                      /\ event[e].status \in Waiting \cup {"processing"} =>
                           event[e].lease = "live" \/ Offered(e) \/ Swept(e)
    BY DEF MessagesMove
  <2>1. event[e] \in EventRow /\ MovingRow(event[e])  BY KnownMessage DEF RowsMove
  <2>2. QED BY <2>1, IntakeAssumption DEF MovingRow, EventRow, Offered, Swept
<1>3. IntakeInv /\ RowsMove /\ [Next]_vars => RowsMove'  BY MoveStep
<1>4. QED BY <1>1, <1>2, <1>3, IntakeInvariant, PTL DEF Spec

=============================================================================
