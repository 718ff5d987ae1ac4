------------------------------ MODULE Campaign ------------------------------
(* Campaigns with their versions, weeks, branches and open decisions         *)
(* (src/services.mjs), and the production gate of src/activation.mjs.        *)
EXTENDS Naturals, FiniteSets

CONSTANTS
  Campaigns, First,     \* campaign ids, and the one that is being prepared
  Versions, FirstVersion, Weeks, FirstWeek, Outlets,
  Windows,              \* pairs <<from, to>> a week can be given
  Production            \* domain.environment() = "production"

ASSUME CampaignAssumption ==
  /\ First \in Campaigns /\ FirstVersion \in Versions /\ FirstWeek \in Weeks
  /\ \A w \in Windows : w[1] \in Nat /\ w[2] \in Nat
  /\ Production \in BOOLEAN

VARIABLES
  campaign,  \* campaigns with everything keyed by their id
  outlet,    \* the outlet master: which branches are active
  evidence   \* settings evidence.*: benchmark, restore and UAT are recorded

campaignVars == <<campaign, outlet, evidence>>

(* sound: terms, products and prizes are in order and nothing is a sample.   *)
NoVersion == [state |-> "none", sound |-> FALSE]
NoWeek == [state |-> "none", from |-> 0, to |-> 0]

(* A member branch has the default window until somebody sets another one.   *)
NoCampaign ==
  [status |-> "none", clean |-> TRUE, decided |-> FALSE, paused |-> FALSE,
   version |-> [v \in Versions |-> NoVersion],
   week |-> [p \in Weeks |-> NoWeek],
   member |-> [o \in Outlets |-> "out"]]

Exists(c) == campaign[c].status # "none"
LiveVersions(c) == {v \in Versions : campaign[c].version[v].state = "activated"}
Members(c) == {o \in Outlets : campaign[c].member[o] # "out" /\ outlet[o]}
Planned(c) == {p \in Weeks : campaign[c].week[p].state # "none"}
Covers(p, c, t) ==
  campaign[c].week[p].state # "none" /\ campaign[c].week[p].from <= t /\ t < campaign[c].week[p].to

(* periodAt(): the weeks that contain an instant of intake.                  *)
WeeksAt(c, t) == {p \in Weeks : Covers(p, c, t)}

SetCampaign(c, row) ==
  /\ campaign' = [campaign EXCEPT ![c] = row]
  /\ UNCHANGED <<outlet, evidence>>

\* ---- campaigns
CreateCampaign(c) ==
  /\ ~Exists(c)
  /\ SetCampaign(c, [NoCampaign EXCEPT !.status = "draft"])

(* PATCH: name and prizes may become samples or be put in order.             *)
UpdateCampaign(c, clean) ==
  /\ Exists(c) /\ campaign[c].status \notin {"closed", "archived"}
  /\ SetCampaign(c, [campaign[c] EXCEPT !.clean = clean])

AllowedMoves ==
  {<<"draft", "active">>, <<"active", "paused">>, <<"active", "closed">>,
   <<"paused", "active">>, <<"paused", "closed">>, <<"closed", "archived">>}

SetCampaignStatus(c, status) ==
  /\ <<campaign[c].status, status>> \in AllowedMoves
  /\ status = "active" => LiveVersions(c) # {}
  /\ SetCampaign(c, [campaign[c] EXCEPT !.status = status])

SetPauseFlags(c, paused) ==
  /\ Exists(c)
  /\ SetCampaign(c, [campaign[c] EXCEPT !.paused = paused])

(* The copy starts as a draft: the live or the last version as a draft, the  *)
(* branches with their windows, every decision open again, no weeks.         *)
Copied(c) ==
  LET last == {v \in Versions : campaign[c].version[v].state # "none"}
  IN IF LiveVersions(c) # {} THEN LiveVersions(c) ELSE last

CloneCampaign(from, c) ==
  /\ Exists(from) /\ ~Exists(c)
  /\ \E v \in Versions, w \in Copied(from) :
       SetCampaign(c, [NoCampaign EXCEPT
         !.status = "draft", !.clean = campaign[from].clean,
         !.version[v] = [state |-> "draft", sound |-> campaign[from].version[w].sound],
         !.member = [o \in Outlets |-> IF o \in Members(from) THEN campaign[from].member[o] ELSE "out"]])

\* ---- versions
(* createVersion() and newVersionFrom(): a patch may change the live rules.  *)
CreateVersion(c, v, sound) ==
  /\ Exists(c) /\ campaign[c].version[v].state = "none"
  /\ SetCampaign(c, [campaign[c] EXCEPT !.version[v] = [state |-> "draft", sound |-> sound]])

UpdateDraftVersion(c, v, sound) ==
  /\ campaign[c].version[v].state = "draft"
  /\ SetCampaign(c, [campaign[c] EXCEPT !.version[v].sound = sound])

(* POST .../activate: while the campaign is live in production the version   *)
(* being installed has to pass the content checks itself.                    *)
Swap(c, v) == campaign[c].status \in {"active", "paused"}
MayInstall(c, v) == (Production /\ Swap(c, v)) => campaign[c].version[v].sound /\ campaign[c].clean

ActivateVersion(c, v) ==
  /\ campaign[c].version[v].state = "draft"
  /\ MayInstall(c, v)
  /\ SetCampaign(c, [campaign[c] EXCEPT !.version = [w \in Versions |->
       IF w = v THEN [@[w] EXCEPT !.state = "activated"]
       ELSE IF @[w].state = "activated" THEN [@[w] EXCEPT !.state = "retired"] ELSE @[w]]])

\* ---- weeks
StartsInside(c, p, from, to) ==
  \E q \in Planned(c) \ {p} : Covers(q, c, from)
Overlaps(c, p, from, to) ==
  \E q \in Planned(c) \ {p} : from < campaign[c].week[q].to /\ to > campaign[c].week[q].from

(* upsertPeriod(): no overlap, and a drawn week is left alone; the status is *)
(* whatever the request says.                                                *)
UpsertPeriod(c, p, from, to, state) ==
  /\ Exists(c) /\ from < to
  /\ ~Overlaps(c, p, from, to)
  /\ campaign[c].week[p].state # "drawn"
  /\ SetCampaign(c, [campaign[c] EXCEPT !.week[p] = [state |-> state, from |-> from, to |-> to]])

(* setPeriodStatus(), called by the draw service: closed at a freeze and at  *)
(* a void, drawn when the draw is published.                                 *)
SetPeriodStatus(c, p, state) ==
  /\ campaign[c].week[p].state # "none"
  /\ SetCampaign(c, [campaign[c] EXCEPT !.week[p].state = state])

\* ---- branches
UpsertOutlet(o, active) ==
  /\ outlet' = [outlet EXCEPT ![o] = active]
  /\ UNCHANGED <<campaign, evidence>>

(* A full replacement carries the windows of the members that stay.          *)
SetCampaignOutlets(c, members) ==
  /\ Exists(c)
  /\ SetCampaign(c, [campaign[c] EXCEPT !.member = [o \in Outlets |->
       IF o \notin members THEN "out" ELSE IF @[o] = "out" THEN "default" ELSE @[o]]])

RemoveCampaignOutlet(c, o) ==
  /\ campaign[c].member[o] # "out"
  /\ SetCampaign(c, [campaign[c] EXCEPT !.member[o] = "out"])

(* importOutletsCsv(): all rows or none; new members only.                   *)
ImportOutlets(c, rows) ==
  /\ Exists(c) /\ rows # {}
  /\ outlet' = [o \in Outlets |-> outlet[o] \/ o \in rows]
  /\ campaign' = [campaign EXCEPT ![c].member = [o \in Outlets |->
       IF o \in rows /\ @[o] = "out" THEN "default" ELSE @[o]]]
  /\ UNCHANGED evidence

\* ---- decisions and evidence
UpsertDecision(c, approved) ==
  /\ Exists(c)
  /\ SetCampaign(c, [campaign[c] EXCEPT !.decided = approved])

RecordEvidence ==
  /\ evidence' = TRUE
  /\ UNCHANGED <<campaign, outlet>>

\* ---- the gate
(* validateActivation(): what it reads before it waits for the providers.    *)
Passes(c) ==
  /\ \E v \in LiveVersions(c) : campaign[c].version[v].sound
  /\ campaign[c].clean /\ campaign[c].decided
  /\ Members(c) # {} /\ Planned(c) # {}

(* One campaign is being prepared: its first version, its branches and one   *)
(* week are there, decisions and evidence may be open, and a second version  *)
(* may have been drafted.                                                    *)
Prepared(drafts, decided) ==
  [NoCampaign EXCEPT !.status = "draft", !.version = drafts, !.decided = decided,
     !.member = [o \in Outlets |-> "window"],
     !.week = [p \in Weeks |-> IF p = FirstWeek THEN [state |-> "scheduled", from |-> 0, to |-> 1] ELSE NoWeek]]

Draft(sound) == [state |-> "draft", sound |-> sound]

CampaignInit ==
  /\ \E decided \in BOOLEAN, others \in {NoVersion, Draft(FALSE)} :
       campaign = [c \in Campaigns |->
         IF c # First THEN NoCampaign
         ELSE Prepared([v \in Versions |-> IF v = FirstVersion THEN Draft(TRUE) ELSE others], decided)]
  /\ outlet = [o \in Outlets |-> TRUE]
  /\ evidence \in BOOLEAN

AllSettled == evidence /\ \A c \in Campaigns : campaign[c].status # "none" =>
  campaign[c].decided /\ \A v \in Versions \ {FirstVersion} : campaign[c].version[v] = NoVersion

\* ---- properties
(* An instant that falls in a week whose draw is published falls in that     *)
(* week only and for good, however the weeks around it are created, moved or *)
(* renamed: its entries were drawn under that code (upsertPeriod).           *)
DrawnWeeksStayPut ==
  [][\A c \in Campaigns, p \in Weeks, t \in 0 .. 3 :
       campaign[c].week[p].state = "drawn" /\ Covers(p, c, t)
         => WeeksAt(c, t)' = {p}]_campaignVars

=============================================================================
