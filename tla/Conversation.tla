---------------------------- MODULE Conversation ----------------------------
(***************************************************************************)
(* The conversation with a participant (src/src/conversation.mjs) and the  *)
(* rows it reads and writes (src/src/services.mjs): the session kept per   *)
(* telephone number, the participant behind the number, the enrolment, and *)
(* the support handoff.                                                    *)
(*                                                                         *)
(* A turn is one call of handle(). Everything before its first await is    *)
(* one step of this module (a disjunct of Turn); a turn that submits a     *)
(* photo waits for the media store and saves the session afterwards, with  *)
(* whatever happened meanwhile. Copy and wording are left out: a reply is  *)
(* the reference of a stored receipt or something else.                    *)
(***************************************************************************)
EXTENDS Integers, SequencesExt, FiniteSetsExt

CONSTANTS
  Phones,          \* wa_phone_uid
  Workers,         \* processes that run turns
  Operators,       \* support staff who may claim a conversation
  Outlets,         \* the branches of the campaign
  RetailerOf,      \* [Outlets -> anything]
  TownOf,          \* [Outlets -> anything]
  Order,           \* [Outlets -> Nat], the alphabetical order of the lists
  PageSize,        \* PAGE
  Searches,        \* bound: the sets of branches a free text can match
  Weeks,           \* bound: the numbers of weeks that may be published
  Beginnings,      \* bound: where each number's conversation may stand at the start
  Statuses,        \* bound: the statuses the campaign is moved between
  IntakePauses,    \* bound: the values of the pause flag
  IdentityStages   \* bound: whether the active version collects the ID

ASSUME ConversationAssumption ==
  /\ PageSize \in Nat \ {0} /\ Order \in [Outlets -> Nat]
  /\ Searches \subseteq SUBSET Outlets /\ Weeks \subseteq Nat
  /\ Statuses \subseteq {"active", "paused", "closed"}
  /\ IntakePauses \subseteq BOOLEAN /\ IdentityStages \subseteq BOOLEAN
  /\ Operators \cap {"none", "queue"} = {}

VARIABLES
  session,    \* conversation_sessions
  person,     \* participants and campaign_enrollments, by telephone number
  turn,       \* the call of handle() each worker is in
  campaign,   \* campaigns.status
  paused,     \* the intake pause flag
  collects,   \* whether the active version asks for the national ID
  held,       \* receipt outcomes held back while somebody owns the conversation
  stored      \* the messages whose photo became a receipt

\* wa_phone_uid: a number, or what erasure writes over it ("deleted:<id>").
Deleted == "deleted"
Addresses == Phones \cup {Deleted}

talk == <<session, person, turn, campaign, paused, collects, held, stored>>

-----------------------------------------------------------------------------
(* What a participant can say: parseIntent's view of it. fits is the set of *)
(* registration questions the same text is accepted for.                    *)
RegStates    == {"REG_FIRST", "REG_SURNAME", "REG_IDENTITY", "REG_LOCATION",
                 "REG_CONFIRM", "REG_TERMS"}
OutletStates == {"OUTLET_RETAILER", "OUTLET_TOWN", "OUTLET_BRANCH", "OUTLET_SEARCH"}
States       == RegStates \cup OutletStates \cup {"HOME", "ENTRY_RECEIPT", "WINNERS", "SUPPORT"}
ClaimStates  == {"HOME", "SUPPORT", "ENTRY_RECEIPT", "WINNERS"}

Names == {"REG_FIRST", "REG_SURNAME", "REG_LOCATION"}
Codes == {"REG_SURNAME", "REG_IDENTITY", "REG_LOCATION"}

Word(intent, fits) == [intent |-> intent, number |-> -1, fits |-> fits]
Digit(n) ==
  [intent |-> IF n = 0 THEN "MENU"
              ELSE <<"REGISTER", "ENTER", "MECHANICS", "TERMS", "PRIZES",
                     "WINNERS", "STATUS", "HELP", "NUMBER">>[n],
   number |-> n, fits |-> {}]

Vocabulary ==
  {Digit(n) : n \in 0..9}
  \cup {Word(i, Names) : i \in {"BACK", "CANCEL", "OPTOUT", "CLAIM", "SUPPORT", "YES",
                                "NO", "GREETING", "MORE", "TEXT"}}
  \cup {Word(i, Codes) : i \in {"REF", "ID"}}
  \cup {Word(i, {}) : i \in {"SHORT", "IMAGE", "NOIMAGE"}}

IsImage(w) == w.intent \in {"IMAGE", "NOIMAGE"}   \* NOIMAGE: its bytes are gone
Information == {"MECHANICS", "TERMS", "PRIZES", "STATUS"}

-----------------------------------------------------------------------------
(* The numbered lists.                                                      *)
More == [kind |-> "more", of |-> {}]
Option == [kind : {"retailer", "town", "outlet", "week", "more"}, of : SUBSET Outlets]
NoNav  == [options |-> <<>>, page |-> 0, of |-> {}]

\* The branches under each label, in the order of the labels.
First(g) == Min({Order[o] : o \in g})
InOrder(groups) ==
  [i \in 1..Cardinality(groups) |->
     CHOOSE g \in groups : Cardinality({h \in groups : First(h) < First(g)}) = i - 1]
Retailers(S) == InOrder({{o \in Outlets : RetailerOf[o] = RetailerOf[x]} : x \in S})
Towns(S) == InOrder({{o \in S : TownOf[o] = TownOf[x]} : x \in S})
Branches(S) == InOrder({{o} : o \in S})

Paged(kind, groups, page) ==
  LET start == page * PageSize
      slice == SubSeq(groups, start + 1, Min({start + PageSize, Len(groups)}))
      options == [i \in DOMAIN slice |-> [kind |-> kind, of |-> slice[i]]]
  IN  IF start + PageSize < Len(groups) THEN Append(options, More) ELSE options

Listing(kind, groups, page, of) ==
  [options |-> Paged(kind, groups, page), page |-> page, of |-> of]

-----------------------------------------------------------------------------
(* Sessions. got holds the registration answers, back stands for            *)
(* reg.returnTo, picked and last for selectedOutletId and lastOutletId,     *)
(* active for active_receipt_id; readers are the turns in flight that read  *)
(* the present row_version (a row that was deleted and written anew counts  *)
(* as changed).                                                             *)
NoRow == [state |-> "none"]
Fresh == [state |-> "HOME", got |-> {}, back |-> FALSE, nav |-> NoNav,
          picked |-> FALSE, last |-> FALSE, active |-> FALSE,
          owner |-> "none", overdue |-> FALSE, readers |-> {}]
Row(p) == IF session[p] = NoRow THEN Fresh ELSE session[p]

\* setSession: every write is a new row_version.
Saved(p, s) == [session EXCEPT ![p] = [s EXCEPT !.readers = {}]]

\* keep() and the empty context.
AtHome(s) == [s EXCEPT !.state = "HOME", !.got = {}, !.back = FALSE,
                       !.nav = NoNav, !.picked = FALSE]
Cleared(s) == [AtHome(s) EXCEPT !.last = FALSE]

Nobody  == [status |-> "none", enrolled |-> FALSE]
Active(p) == person[p].status = "active"
Enrolled(p) == Active(p) /\ person[p].enrolled

Idle == [at |-> "idle"]
\* at: fetch (the photo), handle, store (awaits the media store), save, finish.
Doing(k, at) == turn[k].at = at

-----------------------------------------------------------------------------
(* The ways a turn can end.                                                 *)
Answer(k) == turn' = [turn EXCEPT ![k].at = "finish", ![k].reply = "other"]
Say(k) == Answer(k) /\ UNCHANGED <<session, person>>
Go(k, s) ==
  /\ session' = Saved(turn[k].phone, s)
  /\ Answer(k)
  /\ UNCHANGED person

\* handle(): claims, opt-out and the operator come first, then the lifecycle of
\* the campaign, then a list's own numbers, then navigation, then the state.
\* Fault: only the lists of branches come before the menu.
ListSizeOfOutlets(s) == IF s.state \in OutletStates THEN Len(s.nav.options) ELSE 0
ListSize(s) ==
  IF s.state = "REG_CONFIRM" THEN IF collects THEN 4 ELSE 3
  ELSE IF s.state \in OutletStates \cup {"WINNERS"} THEN Len(s.nav.options) ELSE 0

PicksListOption(s, w) == w.number \in 1..ListSize(s)

Route(s, w, open) ==
  IF s.state \in ClaimStates /\ (w.intent = "CLAIM" \/ (w.intent = "REF" /\ open)) THEN "claim"
  ELSE IF w.intent = "OPTOUT" THEN "optout"
  ELSE IF s.owner # "none" THEN "handoff"
  ELSE IF w.intent = "SUPPORT" THEN "support"
  ELSE IF campaign = "closed"
       THEN IF w.intent = "WINNERS" \/ s.state = "WINNERS" THEN "WINNERS" ELSE "closed"
  ELSE IF w.intent = "MENU" /\ ~PicksListOption(s, w) THEN "menu"
  ELSE IF w.intent = "HELP" /\ ~PicksListOption(s, w) THEN "help"
  ELSE IF w.intent = "CANCEL" THEN "menu"
  ELSE s.state

\* A claim (claimTurn) and the standing texts change nothing here.
ClaimTurn(k, r) == r = "claim" /\ Say(k)

OptOut(k, s, r) ==
  LET p == turn[k].phone
  IN  /\ r = "optout"
      /\ person' = [person EXCEPT ![p] =
                      IF Active(p) THEN [status |-> "inactive", enrolled |-> FALSE] ELSE @]
      /\ session' = Saved(p, Cleared(s))
      /\ Answer(k)

\* flushHeld(): what was held back may go.
FlushForgotten(p) == UNCHANGED held                        \* Fault: nothing is released.
FlushHeld(p) == held' = [held EXCEPT ![p] = "no"]

\* Somebody owns the conversation: automation is silent, unless it is a queue
\* nobody answered in time. Handing back lets the held outcomes go.
InHandoff(k, s, r) ==
  /\ r = "handoff"
  /\ LET p == turn[k].phone
     IN  IF s.owner = "queue" /\ s.overdue
         THEN /\ Go(k, [Cleared(s) EXCEPT !.owner = "none", !.overdue = FALSE])
              /\ FlushHeld(p)
         ELSE Say(k) /\ UNCHANGED held

AskSupport(k, s, r) ==
  r = "support" /\ Go(k, [s EXCEPT !.state = "SUPPORT", !.owner = "queue", !.overdue = FALSE])

Navigate(k, s, r) ==
  \/ r \in {"closed", "help"} /\ Say(k)
  \/ r = "menu" /\ Go(k, AtHome(s))

-----------------------------------------------------------------------------
(* Registration.                                                            *)
ConfirmFields ==
  IF collects THEN <<"REG_FIRST", "REG_SURNAME", "REG_IDENTITY", "REG_LOCATION">>
              ELSE <<"REG_FIRST", "REG_SURNAME", "REG_LOCATION">>
BeforeLocation == IF collects THEN "REG_IDENTITY" ELSE "REG_SURNAME"
Previous(st) ==
  CASE st = "REG_SURNAME" -> "REG_FIRST"
    [] st = "REG_IDENTITY" -> "REG_SURNAME"
    [] st = "REG_LOCATION" -> BeforeLocation
    [] st = "REG_CONFIRM" -> "REG_LOCATION"
    [] st = "REG_TERMS" -> "REG_CONFIRM"
\* Fault: without the ID the surname is the last question.
FollowingShort(st) ==
  CASE st = "REG_FIRST" -> "REG_SURNAME"
    [] st = "REG_SURNAME" -> IF collects THEN "REG_IDENTITY" ELSE "REG_CONFIRM"
    [] st = "REG_IDENTITY" -> "REG_LOCATION"
Following(st) ==
  CASE st = "REG_FIRST" -> "REG_SURNAME"
    [] st = "REG_SURNAME" -> IF collects THEN "REG_IDENTITY" ELSE "REG_LOCATION"
    [] st = "REG_IDENTITY" -> "REG_LOCATION"

\* One answer: kept, and back to the confirmation when it corrects one.
Capture(s) ==
  LET given == [s EXCEPT !.got = @ \cup {s.state}]
  IN  IF s.back \/ s.state = "REG_LOCATION"
      THEN [given EXCEPT !.state = "REG_CONFIRM", !.back = FALSE]
      ELSE [given EXCEPT !.state = Following(s.state)]

RegistrationAnswer(k, s, w) ==
  /\ s.state \in {"REG_FIRST", "REG_SURNAME", "REG_IDENTITY", "REG_LOCATION"}
  /\ w.intent # "BACK" /\ ~IsImage(w)
  /\ IF s.state \in w.fits
     THEN Go(k, Capture(s)) ELSE Say(k)

RegistrationBack(k, s, w) ==
  /\ s.state \in RegStates
  /\ \/ w.intent = "BACK" /\ s.state = "REG_FIRST" /\ Go(k, AtHome(s))
     \/ w.intent = "BACK" /\ s.state # "REG_FIRST" /\ Go(k, [s EXCEPT !.state = Previous(@)])
     \/ IsImage(w) /\ Say(k)

RegistrationConfirm(k, s, w) ==
  /\ s.state = "REG_CONFIRM" /\ w.intent # "BACK" /\ ~IsImage(w)
  /\ Go(k, CASE w.intent = "YES" -> [s EXCEPT !.state = "REG_TERMS"]
             [] w.number \in DOMAIN ConfirmFields ->
                  [s EXCEPT !.back = TRUE, !.state = ConfirmFields[w.number]]
             [] OTHER -> s)

\* registerParticipant and enrol; a profile that is not active is turned away.
RegistrationTerms(k, s, w) ==
  LET p == turn[k].phone
  IN  /\ s.state = "REG_TERMS" /\ w.intent # "BACK" /\ ~IsImage(w)
      /\ \/ w.intent = "NO" /\ Go(k, Cleared(s))
         \/ w.intent \notin {"YES", "NO"} /\ Go(k, s)
         \/ w.intent = "YES" /\ person[p].status = "inactive" /\ Go(k, AtHome(s))
         \/ /\ w.intent = "YES" /\ person[p].status # "inactive"
            /\ person' = [person EXCEPT ![p] = [status |-> "active", enrolled |-> TRUE]]
            /\ session' = Saved(p, AtHome(s))
            /\ Answer(k)

-----------------------------------------------------------------------------
(* Choosing a branch.                                                       *)
ShowRetailers(s, page) ==
  [s EXCEPT !.state = "OUTLET_RETAILER",
            !.nav = Listing("retailer", Retailers(Outlets), page, Outlets)]
ShowBranches(s, S, page) ==
  [s EXCEPT !.state = "OUTLET_BRANCH", !.nav = Listing("outlet", Branches(S), page, S)]
ShowTowns(s, S, page) ==
  IF Len(Towns(S)) = 1 THEN ShowBranches(s, S, 0)
  ELSE [s EXCEPT !.state = "OUTLET_TOWN", !.nav = Listing("town", Towns(S), page, S)]
ShowSearch(s, S, page) ==
  IF S = {} THEN s
  ELSE [s EXCEPT !.state = "OUTLET_SEARCH", !.nav = Listing("outlet", Branches(S), page, S)]

SameRetailer(S) == {o \in Outlets : \E x \in S : RetailerOf[o] = RetailerOf[x]}
NextPage(s) ==
  LET page == s.nav.page + 1
  IN  CASE s.state = "OUTLET_RETAILER" -> ShowRetailers(s, page)
        [] s.state = "OUTLET_TOWN" -> ShowTowns(s, s.nav.of, page)
        [] s.state = "OUTLET_SEARCH" -> ShowSearch(s, s.nav.of, page)
        [] s.state = "OUTLET_BRANCH" -> ShowBranches(s, s.nav.of, page)

Choose(k, s, option) ==
  \/ option.kind = "more" /\ Go(k, NextPage(s))
  \/ option.kind = "retailer" /\ Go(k, ShowTowns(s, option.of, 0))
  \/ option.kind = "town" /\ Go(k, ShowBranches(s, option.of, 0))
  \/ /\ option.kind = "outlet"                       \* selectOutlet
     /\ Go(k, [s EXCEPT !.state = "ENTRY_RECEIPT", !.nav = NoNav, !.picked = TRUE])

\* The option a word names: its number, or the word "more".
Named(s, w) ==
  {i \in DOMAIN s.nav.options :
     i = w.number \/ (w.intent = "MORE" /\ s.nav.options[i] = More)}

OutletFlow(k, s, w) ==
  /\ s.state \in OutletStates
  /\ \/ /\ w.intent = "BACK"
        /\ Go(k, CASE s.state = "OUTLET_RETAILER" -> AtHome(s)
                   [] s.state = "OUTLET_BRANCH" -> ShowTowns(s, SameRetailer(s.nav.of), 0)
                   [] OTHER -> ShowRetailers(s, 0))
     \/ /\ w.intent # "BACK"
        /\ \E i \in Named(s, w) : Choose(k, s, s.nav.options[i])
     \/ /\ w.intent # "BACK" /\ Named(s, w) = {} /\ w.fits # {}
        /\ \E S \in Searches : IF S = {} THEN Say(k) ELSE Go(k, ShowSearch(s, S, 0))
     \/ /\ w.intent # "BACK" /\ Named(s, w) = {} /\ w.fits = {}   \* outlet_choose_number
        /\ Say(k)

-----------------------------------------------------------------------------
(* Entry and the photo.                                                     *)
StartEntry(k, s) ==
  LET p == turn[k].phone
  IN  \/ person[p].status = "none" /\ Say(k)
      \/ person[p].status = "inactive" /\ Go(k, AtHome(s))
      \/ /\ Active(p) /\ ~Enrolled(p)
         /\ Go(k, [AtHome(s) EXCEPT !.state = "REG_TERMS", !.got = Names])
      \/ /\ Enrolled(p)
         /\ IF campaign = "paused" \/ paused THEN Say(k) ELSE Go(k, ShowRetailers(s, 0))

\* The submission waits for the media store with the session as it was read.
Submit(k) ==
  LET p == turn[k].phone
  IN  /\ turn' = [turn EXCEPT ![k].at = "store", ![k].versioned = session[p] # NoRow]
      /\ session' = IF session[p] = NoRow THEN session
                    ELSE [session EXCEPT ![p].readers = @ \cup {k}]
      /\ UNCHANGED person

Photo(k, s, w) ==
  LET known == person[turn[k].phone].status # "none"
  IN  \/ w.intent = "IMAGE" /\ known /\ ~paused /\ Submit(k)
      \/ w.intent = "IMAGE" /\ ~known /\ Go(k, AtHome(s))
      \/ w.intent = "IMAGE" /\ known /\ paused /\ Say(k)
      \/ w.intent = "NOIMAGE" /\ Say(k)

ReceiptFlow(k, s, w) ==
  /\ s.state = "ENTRY_RECEIPT"
  /\ \/ w.intent = "BACK" /\ Go(k, ShowRetailers(s, 0))
     \/ w.intent = "ENTER" /\ StartEntry(k, s)
     \/ w.intent \notin {"BACK", "ENTER"} /\ ~IsImage(w) /\ Say(k)
     \/ IsImage(w) /\ Photo(k, s, w)

HomeImage(k, s, w) ==
  IF ~Enrolled(turn[k].phone) \/ campaign = "paused" \/ paused \/ ~s.last
  THEN Say(k) ELSE Photo(k, s, w)

WinnersFlow(k, s, w, fresh) ==
  \/ 0 \in Weeks /\ Go(k, [s EXCEPT !.state = "HOME"])
  \/ \E n \in Weeks \ {0} :
       IF ~fresh /\ s.state = "WINNERS" /\ w.number \in DOMAIN s.nav.options
       THEN Say(k)
       ELSE Go(k, [s EXCEPT !.state = "WINNERS",
                            !.nav = [NoNav EXCEPT !.options =
                                       [i \in 1..n |-> [kind |-> "week", of |-> {}]]]])

HomeIntent(k, s, w) ==
  /\ s.state = "HOME"
  /\ \/ /\ w.intent = "REGISTER"
        /\ Go(k, [AtHome(s) EXCEPT !.state = "REG_FIRST",
                    !.got = IF Enrolled(turn[k].phone) THEN Names ELSE {}])
     \/ w.intent = "ENTER" /\ StartEntry(k, s)
     \/ w.intent = "WINNERS" /\ WinnersFlow(k, s, w, TRUE)
     \/ IsImage(w) /\ HomeImage(k, s, w)
     \/ w.intent \in {"GREETING", "BACK", "REF"} /\ Go(k, AtHome(s))
     \/ /\ w.intent \in Information \cup {"YES", "NO", "NUMBER", "TEXT", "ID", "SHORT", "MORE"}
        /\ Say(k)

InState(k, s, w) ==
  \/ HomeIntent(k, s, w)
  \/ RegistrationAnswer(k, s, w) \/ RegistrationBack(k, s, w)
  \/ RegistrationConfirm(k, s, w) \/ RegistrationTerms(k, s, w)
  \/ OutletFlow(k, s, w)
  \/ ReceiptFlow(k, s, w)

\* One call of handle(), up to its end or its await.
Turn(k) ==
  /\ Doing(k, "handle")
  /\ \E open \in BOOLEAN :
       LET s == Row(turn[k].phone)
           w == turn[k].word
           r == Route(s, w, open /\ person[turn[k].phone].status # "none")
       IN  \/ InHandoff(k, s, r)
           \/ /\ \/ ClaimTurn(k, r) \/ OptOut(k, s, r)
                 \/ AskSupport(k, s, r) \/ Navigate(k, s, r)
                 \/ r = "WINNERS" /\ WinnersFlow(k, s, w, FALSE)
                 \/ r \in States \ {"WINNERS"} /\ InState(k, s, w)
              /\ UNCHANGED held
  /\ UNCHANGED <<campaign, paused, collects, stored>>

-----------------------------------------------------------------------------
(* After the await: the session is saved with the version read before it;   *)
(* on a conflict the transition is applied to the row as it is now.         *)
AfterSubmit(s) == [AtHome(s) EXCEPT !.last = TRUE, !.active = TRUE]
\* Fault: the transition starts from a new row.
ReappliedFresh(s) == [Fresh EXCEPT !.last = TRUE, !.active = TRUE]
Reapplied(s) == [s EXCEPT !.state = "HOME", !.nav = NoNav, !.last = TRUE, !.active = TRUE]

Conflict(k, p) == turn[k].versioned /\ session[p] # NoRow /\ k \notin session[p].readers

\* Fault: a conflict is answered as a failure.
SaveSubmittedGivesUp(k) ==
  LET p == turn[k].phone
  IN  /\ Doing(k, "save")
      /\ session' = IF Conflict(k, p) THEN session ELSE Saved(p, AfterSubmit(Row(p)))
      /\ turn' = [turn EXCEPT ![k].at = "finish",
                              ![k].reply = IF Conflict(k, p) THEN "other" ELSE "reference"]
      /\ UNCHANGED <<person, campaign, paused, collects, held, stored>>

SaveSubmitted(k) ==
  LET p == turn[k].phone
  IN  /\ Doing(k, "save")
      /\ session' = Saved(p, IF Conflict(k, p) THEN Reapplied(Row(p)) ELSE AfterSubmit(Row(p)))
      /\ turn' = [turn EXCEPT ![k].at = "finish", ![k].reply = "reference"]
      /\ UNCHANGED <<person, campaign, paused, collects, held, stored>>

-----------------------------------------------------------------------------
(* Everybody else who writes a session.                                     *)

\* A receipt is decided: its outcome is queued, held while the conversation has
\* an owner (handoffHold), and the session stops waiting for it.
OnReceiptOutcome(p) ==
  /\ session[p] # NoRow /\ session[p].active
  /\ session' = Saved(p, [session[p] EXCEPT !.active = FALSE])
  /\ held' = IF session[p].owner # "none" THEN [held EXCEPT ![p] = "held"] ELSE held
  /\ UNCHANGED <<person, turn, campaign, paused, collects, stored>>

HoldExpires(p) ==
  /\ held[p] # "no" /\ held' = [held EXCEPT ![p] = "no"]
  /\ UNCHANGED <<session, person, turn, campaign, paused, collects, stored>>

\* 12 hours since handoff_since, which counts for the queue alone.
QueueTimesOut(p) ==
  /\ session[p] # NoRow /\ session[p].owner = "queue" /\ ~session[p].overdue
  /\ session' = [session EXCEPT ![p].overdue = TRUE]
  /\ UNCHANGED <<person, turn, campaign, paused, collects, held, stored>>

ClaimHandoff(o, p) ==
  /\ session' = Saved(p, [Row(p) EXCEPT !.owner = o, !.overdue = FALSE])
  /\ UNCHANGED <<person, turn, campaign, paused, collects, held, stored>>

ReleaseHandoff(p) ==
  /\ session' = Saved(p, [Row(p) EXCEPT !.state = "HOME", !.owner = "none", !.overdue = FALSE])
  /\ FlushHeld(p)
  /\ UNCHANGED <<person, turn, campaign, paused, collects, stored>>

WithdrawParticipant(p) ==
  /\ person[p].status # "none"
  /\ person' = [person EXCEPT ![p] = [status |-> "inactive", enrolled |-> FALSE]]
  /\ UNCHANGED <<session, turn, campaign, paused, collects, held, stored>>

\* setCampaignStatus, setPauseFlags, activateVersion.
Administer ==
  /\ \/ /\ campaign' \in Statuses \ {campaign}
        /\ UNCHANGED <<paused, collects>>
     \/ /\ paused' \in IntakePauses \ {paused}
        /\ UNCHANGED <<campaign, collects>>
     \/ /\ collects' \in IdentityStages \ {collects}
        /\ UNCHANGED <<campaign, paused>>
  /\ UNCHANGED <<session, person, turn, held, stored>>

\* A number is new, or its conversation stands outside registration and nobody owns it.
ASSUME BeginningsAssumption ==
  \A p \in Phones : \A b \in Beginnings[p] :
    \/ b.session = NoRow
    \/ \E st \in {"HOME", "ENTRY_RECEIPT"}, picked \in BOOLEAN, last \in BOOLEAN :
         b.session = [Fresh EXCEPT !.state = st, !.picked = picked, !.last = last]

ConversationInit ==
  /\ \E b \in [Phones -> UNION {Beginnings[p] : p \in Phones}] :
       /\ \A p \in Phones : b[p] \in Beginnings[p]
       /\ session = [p \in Addresses |-> IF p \in Phones THEN b[p].session ELSE NoRow]
       /\ person = [p \in Addresses |-> IF p \in Phones THEN b[p].person ELSE Nobody]
  /\ turn = [k \in Workers |-> Idle]
  /\ campaign = "active" /\ paused = FALSE /\ collects \in IdentityStages
  /\ held = [p \in Addresses |-> "no"]
  /\ stored = {}
=============================================================================
