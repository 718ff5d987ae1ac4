------------------------------ MODULE Console ------------------------------
(* The administration API (src/http.mjs, src/routes/admin.mjs): a request is *)
(* authenticated, its body is awaited, and its handler then runs to the end  *)
(* without a break, except for the production gate, which waits for the      *)
(* providers, and for the audit row, which another process can get ahead of. *)
EXTENDS Staff, Campaign, Audit, Eligibility

CONSTANTS
  Handlers,               \* requests under way at the same time
  Server, Worker,         \* the two processes
  Families,               \* bound: routes used together in one behaviour, with bounds
  WeekStates,             \* the statuses a request may give a week
  Readable,               \* what a receipt and its submission can read as
  RuleBook, PurchaseWindow \* the rules of a live version

ASSUME ConsoleAssumption == {Server, Worker} \subseteq Writers

(* A till is a list of lines: the catalogue keys that its description        *)
(* contains, the size it prints and the quantity (0: unread), whether voided.*)
TillLine == [has : SUBSET Keys, says : Nat, quantity : Nat, voided : BOOLEAN]
ASSUME ReadingAssumption ==
  /\ \A x \in Readable : x.till \in Seq(TillLine)
  /\ RuleBook \subseteq [minPacks : Nat, packGrams : Nat, minTotal : Nat, combinations : BOOLEAN, cap : Nat]

(* A line prints every size that a key found in it prints: an extractor reads*)
(* the size of a line off the description in which the keys are looked for,  *)
(* with the pattern that reads the size of a key.  A spelling that only      *)
(* norm() turns into a size, such as 2-KG, is outside of it.                 *)
PrintsItsKeys(line) == \A k \in line.has : KeySays[k] # 0 => line.says # 0
SizesArePrinted == \A x \in Readable : \A i \in DOMAIN x.till : PrintsItsKeys(x.till[i])

VARIABLES
  call,     \* the requests under way
  offers,   \* the family of this behaviour: [routes, rows, calls]
  verdict   \* what the live rules made of a receipt

vars == <<staffVars, campaignVars, auditVars, call, offers, verdict>>

NoCall == [at |-> "idle", user |-> Bootstrap, need |-> "any", about |-> First]
NoVerdict == [disposition |-> "none", till |-> <<>>, rules |-> CHOOSE r \in RuleBook : TRUE]

Init ==
  /\ StaffInit /\ CampaignInit /\ AuditInit
  /\ call = [h \in Handlers |-> NoCall]
  /\ offers \in Families
  /\ "campaign" \notin offers.routes => AllSettled
  /\ "staff" \notin offers.routes => \A u \in Admins \ {Bootstrap} : ~Known(u)
  /\ verdict = NoVerdict

\* ---- a request
(* Node runs one thing at a time: nothing else of the server while it writes *)
(* an audit row.                                                             *)
Free == writer[Server].at = "idle"

(* dispatch(): session, role, and the temporary password that opens nothing  *)
(* but its own replacement.                                                  *)
Admitted(t, need) ==
  /\ Free /\ Authentic(t)
  /\ LET u == session[t].user
     IN /\ HasRole(u, IF need = "self" THEN "any" ELSE need)
        /\ account[u].temp => need = "self"

(* Which routes a request may be for: those of the family.                   *)
Asked == {<<"staff", "platform_admin">>, <<"staff", "self">>, <<"factor", "self">>,
          <<"factor", "any">>, <<"campaign", "campaign_manager">>, <<"weeks", "campaign_manager">>}

Dispatch(h, t, need) ==
  /\ call[h].at = "idle"
  /\ Cardinality({g \in Handlers : call[g].at # "idle"}) < offers.calls
  /\ \E f \in offers.routes : <<f, need>> \in Asked
  /\ Admitted(t, need)
  /\ call' = [call EXCEPT ![h] = [@ EXCEPT !.at = "body", !.user = session[t].user, !.need = need]]
  /\ UNCHANGED <<staffVars, campaignVars, auditVars, offers, verdict>>

Serves(h, need) ==
  /\ Free /\ call[h].at = "body" /\ call[h].need = need
  /\ call' = [call EXCEPT ![h] = NoCall]
  /\ UNCHANGED <<offers, verdict>>

(* A bad body, a refusal, a provider that is down, a dropped connection.     *)
Refused(h) ==
  /\ Free /\ call[h].at # "idle"
  /\ call' = [call EXCEPT ![h] = NoCall]
  /\ UNCHANGED <<staffVars, campaignVars, auditVars, offers, verdict>>

(* Handlers that await nothing are served at once.                           *)
AtOnce(t, need) == Admitted(t, need) /\ UNCHANGED <<call, offers, verdict>>

(* Every change is recorded after it was made; the rows of one handler count *)
(* as one.                                                                   *)
Recorded == Len(chain) < offers.rows /\ Records(Server)
Unrecorded == UNCHANGED auditVars

In(f) == f \in offers.routes
StaffOnly == UNCHANGED campaignVars
CampaignOnly == UNCHANGED staffVars

\* ---- signing in
Public == Free /\ UNCHANGED <<call, offers, verdict>> /\ StaffOnly

PostLogin(s, u, t) == Public /\ LogIn(s, u, t) /\ Recorded
PostLoginOwesCode(s, u) == Public /\ LogInOwesCode(s, u) /\ Unrecorded
PostLoginFails(s, u, right) == In("logins") /\ Public /\ LogInFails(s, u, right) /\ Unrecorded
PostLoginMfa(u, code, t) == Public /\ VerifyMfa(u, code, t) /\ Unrecorded
PostLogout(t) == AtOnce(t, "self") /\ LogOut(t) /\ StaffOnly /\ Unrecorded
Expires(t) == Public /\ SessionExpires(t) /\ Unrecorded
ChallengeRunsOut(u) == Public /\ ChallengeEnds(u) /\ Unrecorded
TimePasses == In("logins") /\ Public /\ WindowMoves /\ Unrecorded
PostLoginDropsSource(s, u) == In("logins") /\ Public /\ SourceKeyForgotten(s, u) /\ Unrecorded
PostLoginDropsAccount(u) == In("logins") /\ Public /\ AccountKeyForgotten(u) /\ Unrecorded

\* ---- own account
PostPassword(h) ==
  /\ Serves(h, "self") /\ StaffOnly
  /\ ChangePassword(call[h].user) /\ Recorded
(* The route passes no code on to enrollMfa(), whatever the request carries. *)
NoCode == 0
PostEnroll(t) ==
  /\ In("factor") /\ AtOnce(t, "self") /\ StaffOnly
  /\ EnrollMfa(session[t].user, NoCode) /\ Recorded
PostEnable(h, code) ==
  /\ In("factor") /\ Serves(h, "self") /\ StaffOnly
  /\ EnableMfa(call[h].user, code) /\ Recorded
PostDisable(h, code) ==
  /\ In("factor") /\ Serves(h, "any") /\ StaffOnly
  /\ DisableMfa(call[h].user, code) /\ Recorded

\* ---- staff
Administers(h) == In("staff") /\ Serves(h, "platform_admin") /\ StaffOnly
PostUser(h, u, roles) == Administers(h) /\ CreateUser(u, roles) /\ Recorded
PatchRoles(h, u, roles) == Administers(h) /\ GiveRoles(call[h].user, u, roles) /\ Recorded
PatchClosed(h, u) == Administers(h) /\ Disable(call[h].user, u) /\ Recorded
PatchOpen(h, u) == Administers(h) /\ Activate(call[h].user, u) /\ Recorded
PostResetPassword(t, u) ==
  /\ In("staff") /\ AtOnce(t, "platform_admin") /\ StaffOnly
  /\ ResetPassword(u) /\ Recorded

\* ---- campaigns
Manages(h) == In("campaign") /\ Serves(h, "campaign_manager") /\ CampaignOnly
PostCampaign(h, c) == Manages(h) /\ CreateCampaign(c) /\ Recorded
PatchCampaign(h, c, clean) == Manages(h) /\ UpdateCampaign(c, clean) /\ Recorded
PostPause(h, c, paused) == Manages(h) /\ SetPauseFlags(c, paused) /\ Recorded
PostClone(h, from, c) == Manages(h) /\ CloneCampaign(from, c) /\ Recorded
PostVersion(h, c, v, sound) == Manages(h) /\ CreateVersion(c, v, sound) /\ Recorded
PatchVersion(h, c, v, sound) == Manages(h) /\ UpdateDraftVersion(c, v, sound) /\ Recorded
PostActivate(t, c, v) ==
  /\ In("campaign") /\ AtOnce(t, "campaign_manager") /\ CampaignOnly
  /\ ActivateVersion(c, v) /\ Recorded

(* POST .../status: everything but going live in production is immediate.    *)
PostStatus(h, c, status) ==
  /\ Manages(h)
  /\ ~(Production /\ status = "active")
  /\ SetCampaignStatus(c, status) /\ Recorded

(* Going live in production first asks the gate, which reads the campaign    *)
(* and then waits for the extractor and the CRM to answer.                   *)
GateStarts(h, c) ==
  /\ In("campaign") /\ Free /\ call[h].at = "body" /\ call[h].need = "campaign_manager"
  /\ Production /\ Exists(c) /\ Passes(c)
  /\ call' = [call EXCEPT ![h].at = "gate", ![h].about = c]
  /\ UNCHANGED <<staffVars, campaignVars, auditVars, offers, verdict>>

GateEnds(h) ==
  /\ Free /\ call[h].at = "gate" /\ evidence
  /\ call' = [call EXCEPT ![h] = NoCall]
  /\ CampaignOnly /\ UNCHANGED <<offers, verdict>>
  /\ SetCampaignStatus(call[h].about, "active") /\ Recorded

\* ---- weeks, branches, decisions, evidence
Plans(h) == In("weeks") /\ Serves(h, "campaign_manager") /\ CampaignOnly
PostPeriod(h, c, p, window, state) ==
  Plans(h) /\ UpsertPeriod(c, p, window[1], window[2], state) /\ Recorded
PutOutlets(h, c, members) == Plans(h) /\ SetCampaignOutlets(c, members) /\ Recorded
PostImport(h, c, rows) == Plans(h) /\ ImportOutlets(c, rows) /\ Recorded
PostOutlet(h, o, active) == Plans(h) /\ UpsertOutlet(o, active) /\ Recorded
PutDecision(h, c, approved) == Manages(h) /\ UpsertDecision(c, approved) /\ Recorded
PostEvidence(h) == Manages(h) /\ RecordEvidence /\ Recorded
DeleteOutlet(t, c, o) ==
  /\ In("weeks") /\ AtOnce(t, "campaign_manager") /\ CampaignOnly
  /\ RemoveCampaignOutlet(c, o) /\ Recorded

(* The draw service closes a week at a freeze or a void and marks it drawn   *)
(* when the draw is published.                                               *)
DrawMovesWeek(c, p, state) ==
  /\ In("weeks") /\ Free
  /\ SetPeriodStatus(c, p, state) /\ CampaignOnly /\ Recorded
  /\ UNCHANGED <<call, offers, verdict>>

\* ---- the rules, the audit row and a crash
Judge(f, till, rules) ==
  /\ In("receipts") /\ Free /\ verdict = NoVerdict
  /\ verdict' = [disposition |-> Evaluate(f, till, rules, PurchaseWindow), till |-> till, rules |-> rules]
  /\ UNCHANGED <<staffVars, campaignVars, auditVars, call, offers>>

Others == UNCHANGED <<staffVars, campaignVars, call, offers, verdict>>
RowAppended(w) == Appends(w) /\ Others
RowLosesRace(w) == LosesRace(w) /\ Others
WorkerRecords == In("trail") /\ Records(Worker) /\ Others
CheckpointTaken == In("trail") /\ Free /\ Checkpoint /\ Others

(* The server stops: requests, challenges and brakes are in memory, and a    *)
(* change whose row was not written yet stays without one.                   *)
Crash ==
  /\ \E f \in offers.routes : f \in {"staff", "factor", "trail"}
  /\ call' = [h \in Handlers |-> NoCall]
  /\ challenge' = [u \in Admins |-> FALSE]
  /\ sourceHits' = [s \in Sources |-> [u \in Admins |-> NoHits]]
  /\ accountHits' = [u \in Admins |-> NoHits]
  /\ swept' = 2
  /\ RecordLost(Server)
  /\ UNCHANGED <<account, session, secrets, campaignVars, offers, verdict>>

\* ---- next state
Codes == 0 .. MaxSecrets
Flag == BOOLEAN

SignIn ==
  \/ \E s \in Sources, u \in Admins :
       \/ \E t \in Sessions : PostLogin(s, u, t)
       \/ PostLoginOwesCode(s, u)
       \/ \E right \in Flag : PostLoginFails(s, u, right)
       \/ PostLoginDropsSource(s, u)
  \/ \E u \in Admins, code \in Codes, t \in Sessions : PostLoginMfa(u, code, t)
  \/ \E t \in Sessions : PostLogout(t) \/ Expires(t)
  \/ \E u \in Admins : ChallengeRunsOut(u) \/ PostLoginDropsAccount(u)
  \/ TimePasses

Staffing ==
  \/ \E h \in Handlers :
       \/ PostPassword(h)
       \/ \E code \in Codes : PostEnable(h, code) \/ PostDisable(h, code)
       \/ \E u \in Admins :
            \/ \E roles \in RoleSets : PostUser(h, u, roles) \/ PatchRoles(h, u, roles)
            \/ PatchClosed(h, u) \/ PatchOpen(h, u)
  \/ \E t \in Sessions :
       \/ PostEnroll(t)
       \/ \E u \in Admins : PostResetPassword(t, u)

Configuring ==
  \/ \E h \in Handlers, c \in Campaigns :
       \/ PostCampaign(h, c)
       \/ \E flag \in Flag : PatchCampaign(h, c, flag) \/ PostPause(h, c, flag) \/ PutDecision(h, c, flag)
       \/ \E from \in Campaigns : PostClone(h, from, c)
       \/ \E v \in Versions, sound \in Flag : PostVersion(h, c, v, sound) \/ PatchVersion(h, c, v, sound)
       \/ \E status \in {"active", "paused", "closed", "archived"} : PostStatus(h, c, status)
       \/ GateStarts(h, c)
  \/ \E t \in Sessions, c \in Campaigns, v \in Versions : PostActivate(t, c, v)
  \/ \E h \in Handlers : GateEnds(h) \/ PostEvidence(h)

Planning ==
  \/ \E h \in Handlers, c \in Campaigns :
       \/ \E p \in Weeks, w \in Windows, state \in WeekStates : PostPeriod(h, c, p, w, state)
       \/ \E members \in SUBSET Outlets : PutOutlets(h, c, members) \/ PostImport(h, c, members)
  \/ \E h \in Handlers, o \in Outlets, active \in Flag : PostOutlet(h, o, active)
  \/ \E t \in Sessions, c \in Campaigns, o \in Outlets : DeleteOutlet(t, c, o)
  \/ \E c \in Campaigns, p \in Weeks, state \in {"closed", "drawn"} : DrawMovesWeek(c, p, state)

Needs == {"self", "any", "platform_admin", "campaign_manager"}

Next ==
  \/ SignIn \/ Staffing \/ Configuring \/ Planning
  \/ \E h \in Handlers : Refused(h) \/ \E t \in Sessions, need \in Needs : Dispatch(h, t, need)
  \/ In("receipts") /\ verdict = NoVerdict
     /\ \E x \in Readable, rules \in RuleBook : Judge(x.facts, x.till, rules)
  \/ \E w \in {Server, Worker} : RowAppended(w) \/ RowLosesRace(w)
  \/ WorkerRecords \/ CheckpointTaken \/ Crash

Spec == Init /\ [][Next]_vars

\* ---- properties
(* A receipt is credited without a person only when the purchase meets the   *)
(* promotion's amount however the pack sizes its till did not print are      *)
(* filled in (the comments at eligibility.mjs:88-99 and 170-175).            *)
NoCreditOnAGuess ==
  verdict.disposition = "QUALIFIED" => CertainlyEnough(verdict.till, verdict.rules)
============================================================================
