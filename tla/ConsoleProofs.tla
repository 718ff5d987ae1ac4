---------------------------- MODULE ConsoleProofs ---------------------------
(* Proofs about the requests of the administration API: the audit chain they *)
(* write to, the staff accounts and their brakes, and the weeks of a         *)
(* campaign, for any number of requests, accounts, sources and processes.    *)
EXTENDS Server, FiniteSetTheorems, WellFoundedInduction, TLAPS

\* ---- what a step of the console is to its parts
AuditStep ==
  \/ UNCHANGED auditVars
  \/ \E w \in {Server, Worker} : Records(w) \/ Appends(w) \/ LosesRace(w) \/ RecordLost(w)
  \/ Checkpoint

(* Sessions and brakes are all a sign-in touches; a crash forgets the brakes.*)
ForgetsAll ==
  /\ sourceHits' = [s \in Sources |-> [u \in Admins |-> NoHits]]
  /\ accountHits' = [u \in Admins |-> NoHits]
  /\ swept' = 2
  /\ UNCHANGED <<account, session>>
SignInStep ==
  \/ \E s \in Sources, u \in Admins :
       \/ \E t \in Sessions : LogIn(s, u, t)
       \/ LogInOwesCode(s, u)
       \/ \E right \in BOOLEAN : LogInFails(s, u, right)
       \/ SourceKeyForgotten(s, u)
  \/ \E u \in Admins, code \in Codes, t \in Sessions : VerifyMfa(u, code, t)
  \/ \E t \in Sessions : LogOut(t)
  \/ \E u \in Admins : ChallengeEnds(u) \/ AccountKeyForgotten(u)
  \/ WindowMoves
AccountStep ==
  \/ \E u : ChangePassword(u) \/ \E code \in Codes : EnableMfa(u, code) \/ DisableMfa(u, code)
  \/ \E t \in Sessions : Authentic(t) /\ EnrollMfa(session[t].user, NoCode)
  \/ \E u \in Admins :
       \/ \E roles \in RoleSets : CreateUser(u, roles) \/ \E by : GiveRoles(by, u, roles)
       \/ \E by : Disable(by, u) \/ Activate(by, u)
       \/ ResetPassword(u)
StaffStep == UNCHANGED staffVars \/ ForgetsAll \/ SignInStep \/ AccountStep

CampaignStep ==
  \/ UNCHANGED campaignVars
  \/ \E o \in Outlets, active \in Flag : UpsertOutlet(o, active)
  \/ RecordEvidence
  \/ \E c \in Campaigns :
       \/ CreateCampaign(c)
       \/ \E flag \in Flag : UpdateCampaign(c, flag) \/ SetPauseFlags(c, flag) \/ UpsertDecision(c, flag)
       \/ \E from \in Campaigns : CloneCampaign(from, c)
       \/ \E v \in Versions : \/ ActivateVersion(c, v)
                              \/ \E sound \in Flag : CreateVersion(c, v, sound) \/ UpdateDraftVersion(c, v, sound)
       \/ \E p \in Weeks, w \in Windows, state \in WeekStates : UpsertPeriod(c, p, w[1], w[2], state)
       \/ \E p \in Weeks, state \in {"closed", "drawn"} : SetPeriodStatus(c, p, state)
       \/ \E members : SetCampaignOutlets(c, members) \/ ImportOutlets(c, members)
       \/ \E o \in Outlets : RemoveCampaignOutlet(c, o)
  \/ \E c : \E status \in {"active", "paused", "closed", "archived"} : SetCampaignStatus(c, status)

VerdictStep ==
  UNCHANGED verdict \/ \E x \in Readable, rules \in RuleBook : Judge(x.facts, x.till, rules)

Steps == AuditStep /\ StaffStep /\ CampaignStep /\ VerdictStep

LEMMA SignInSteps == SignIn => Steps
<1> SUFFICES ASSUME SignIn PROVE Steps  OBVIOUS
<1>1. AuditStep
  BY DEF SignIn, AuditStep, PostLogin, PostLoginOwesCode, PostLoginFails, PostLoginMfa, PostLogout,
         Expires, ChallengeRunsOut, TimePasses, PostLoginDropsSource,
         PostLoginDropsAccount, Recorded, Unrecorded
<1>2. UNCHANGED campaignVars
  BY DEF SignIn, PostLogin, PostLoginOwesCode, PostLoginFails, PostLoginMfa, PostLogout,
         Expires, ChallengeRunsOut, TimePasses, PostLoginDropsSource,
         PostLoginDropsAccount, Public, StaffOnly
<1>3. SignInStep
  BY DEF SignIn, SignInStep, PostLogin, PostLoginOwesCode, PostLoginFails, PostLoginMfa, PostLogout,
         Expires, ChallengeRunsOut, TimePasses, PostLoginDropsSource,
         PostLoginDropsAccount, SessionExpires, Flag
<1>4. UNCHANGED verdict
  BY DEF SignIn, PostLogin, PostLoginOwesCode, PostLoginFails, PostLoginMfa, PostLogout,
         Expires, ChallengeRunsOut, TimePasses, PostLoginDropsSource,
         PostLoginDropsAccount, Public, AtOnce
<1>5. QED BY <1>1, <1>2, <1>3, <1>4 DEF Steps, StaffStep, CampaignStep, VerdictStep

LEMMA StaffingSteps == Staffing => Steps
<1> SUFFICES ASSUME Staffing PROVE Steps  OBVIOUS
<1>1. AuditStep
  BY DEF Staffing, AuditStep, PostPassword, PostEnable, PostDisable, PostUser, PatchRoles,
         PatchClosed, PatchOpen, PostEnroll, PostResetPassword, Recorded
<1>2. UNCHANGED campaignVars
  BY DEF Staffing, PostPassword, PostEnable, PostDisable, PostUser, PatchRoles,
         PatchClosed, PatchOpen, PostEnroll, PostResetPassword, Administers, StaffOnly
<1>3. AccountStep
  BY DEF Staffing, AccountStep, PostPassword, PostEnable, PostDisable, PostUser, PatchRoles,
         PatchClosed, PatchOpen, PostEnroll, PostResetPassword, AtOnce, Admitted
<1>4. UNCHANGED verdict
  BY DEF Staffing, PostPassword, PostEnable, PostDisable, PostUser, PatchRoles, PatchClosed,
         PatchOpen, PostEnroll, PostResetPassword, Administers, Serves, AtOnce
<1>5. QED BY <1>1, <1>2, <1>3, <1>4 DEF Steps, StaffStep, CampaignStep, VerdictStep

LEMMA ConfiguringSteps == Configuring => Steps
<1> SUFFICES ASSUME Configuring PROVE Steps  OBVIOUS
<1>1. AuditStep
  BY DEF Configuring, AuditStep, PostCampaign, PatchCampaign, PostPause, PutDecision, PostClone,
         PostVersion, PatchVersion, PostStatus, GateStarts, PostActivate, GateEnds, PostEvidence,
         Recorded
<1>2. UNCHANGED staffVars
  BY DEF Configuring, PostCampaign, PatchCampaign, PostPause, PutDecision, PostClone,
         PostVersion, PatchVersion, PostStatus, GateStarts, PostActivate, GateEnds, PostEvidence,
         Manages, CampaignOnly
<1>3. CampaignStep
  <2>1. ASSUME NEW h \in Handlers, NEW c \in Campaigns,
               \/ PostCampaign(h, c) \/ GateStarts(h, c)
               \/ \E flag \in Flag :
                    PatchCampaign(h, c, flag) \/ PostPause(h, c, flag) \/ PutDecision(h, c, flag)
        PROVE  CampaignStep
    BY <2>1 DEF CampaignStep, PostCampaign, GateStarts, PatchCampaign, PostPause, PutDecision
  <2>2. ASSUME NEW h \in Handlers, NEW c \in Campaigns,
               \/ \E from \in Campaigns : PostClone(h, from, c)
               \/ \E v \in Versions, sound \in Flag :
                    PostVersion(h, c, v, sound) \/ PatchVersion(h, c, v, sound)
        PROVE  CampaignStep
    BY <2>2 DEF CampaignStep, PostClone, PostVersion, PatchVersion
  <2>3. ASSUME NEW h \in Handlers, NEW c \in Campaigns,
               \E status \in {"active", "paused", "closed", "archived"} : PostStatus(h, c, status)
        PROVE  CampaignStep
    BY <2>3 DEF CampaignStep, PostStatus
  <2>4. ASSUME NEW h \in Handlers, GateEnds(h) \/ PostEvidence(h) PROVE CampaignStep
    BY <2>4 DEF CampaignStep, GateEnds, PostEvidence
  <2>5. ASSUME NEW t \in Sessions, NEW c \in Campaigns, NEW v \in Versions, PostActivate(t, c, v)
        PROVE  CampaignStep
    BY <2>5 DEF CampaignStep, PostActivate
  <2>6. QED BY <2>1, <2>2, <2>3, <2>4, <2>5 DEF Configuring
<1>4. UNCHANGED verdict
  BY DEF Configuring, PostCampaign, PatchCampaign, PostPause, PutDecision, PostClone, PostVersion,
         PatchVersion, PostStatus, GateStarts, PostActivate, GateEnds, PostEvidence, Manages, Serves,
         AtOnce
<1>5. QED BY <1>1, <1>2, <1>3, <1>4 DEF Steps, StaffStep, VerdictStep

LEMMA PlanningSteps == Planning => Steps
<1> SUFFICES ASSUME Planning PROVE Steps  OBVIOUS
<1>1. AuditStep
  BY DEF Planning, AuditStep, PostPeriod, PutOutlets, PostImport, PostOutlet, DeleteOutlet,
         DrawMovesWeek, Recorded
<1>2. UNCHANGED staffVars
  BY DEF Planning, PostPeriod, PutOutlets, PostImport, PostOutlet, DeleteOutlet,
         DrawMovesWeek, Plans, CampaignOnly
<1>3. CampaignStep
  BY DEF Planning, CampaignStep, PostPeriod, PutOutlets, PostImport, PostOutlet, DeleteOutlet,
         DrawMovesWeek
<1>4. UNCHANGED verdict
  BY DEF Planning, PostPeriod, PutOutlets, PostImport, PostOutlet, DeleteOutlet, DrawMovesWeek,
         Plans, Serves, AtOnce
<1>5. QED BY <1>1, <1>2, <1>3, <1>4 DEF Steps, StaffStep, VerdictStep

LEMMA ServerSteps == [ServerNext]_serverVars => Steps
<1>1. ASSUME Next PROVE Steps
  <2>1. CASE \/ \E h \in Handlers : Refused(h) \/ \E t \in Sessions, need \in Needs : Dispatch(h, t, need)
             \/ \E x \in Readable, rules \in RuleBook : Judge(x.facts, x.till, rules)
    BY <2>1 DEF Refused, Dispatch, Judge, Steps, AuditStep, StaffStep, CampaignStep, VerdictStep
  <2>2. CASE \/ \E w \in {Server, Worker} : RowAppended(w) \/ RowLosesRace(w)
             \/ WorkerRecords \/ CheckpointTaken
    <3>1. UNCHANGED <<staffVars, campaignVars, verdict>>
      BY <2>2 DEF RowAppended, RowLosesRace, WorkerRecords, CheckpointTaken, Others
    <3>2. AuditStep
      BY <2>2 DEF RowAppended, RowLosesRace, WorkerRecords, CheckpointTaken, AuditStep
    <3>3. QED BY <3>1, <3>2 DEF Steps, StaffStep, CampaignStep, VerdictStep
  <2>3. CASE Crash
    BY <2>3 DEF Crash, Steps, AuditStep, StaffStep, ForgetsAll, CampaignStep, VerdictStep
  <2>4. QED
    BY <1>1, <2>1, <2>2, <2>3, SignInSteps, StaffingSteps, ConfiguringSteps, PlanningSteps DEF Next
<1>2. UNCHANGED vars => Steps
  BY DEF vars, Steps, AuditStep, StaffStep, CampaignStep, VerdictStep
<1>3. QED
  BY <1>1, <1>2 DEF ServerNext, serverVars, Requests, KeepsRows, Deploys, KeepsPhotos, KeepsPeople,
                    KeepsLink, Works

\* ---- the audit chain
(* Row i carries hash i and follows row i - 1; whoever has read a head read  *)
(* one that was there, and so appends to the last row or finds it taken.     *)
WriterRow == [at : {"idle", "read"}, head : Nat, left : Nat]
AuditTypes ==
  /\ chain \in Seq([prev : Nat, hash : Nat])
  /\ writer \in [Writers -> WriterRow]
AuditInv ==
  /\ AuditTypes
  /\ \A i \in 1 .. Len(chain) : chain[i].hash = i /\ chain[i].prev = i - 1
  /\ \A w \in Writers : writer[w].head <= Len(chain)
  /\ \A c \in kept : c.upto \in 1 .. Len(chain) /\ c.head = c.upto

\* ---- accounts and sessions
IsAccount(a) ==
  a \in [status : {"none", "active", "disabled"}, roles : {a.roles}, temp : BOOLEAN, pw : {a.pw},
         factor : BOOLEAN, secret : {a.secret}, pending : {a.pending}]
IsToken(s) ==
  s \in [user : Admins, roles : {s.roles}, pw : {s.pw}, at : {"unused", "live", "ended"}]

(* A live session is of a known account that has not changed since.  A       *)
(* second factor that is on has no other secret waiting to replace it, and   *)
(* an account nobody made has none at all.                                   *)
AsIssued(s) ==
  s.at = "live" =>
    Known(s.user) /\ s.roles = account[s.user].roles /\ s.pw = account[s.user].pw
Settles(a) ==
  /\ a.status = "none" => a.secret = 0 /\ a.pending = 0
  /\ (a.factor = TRUE) => a.pending = 0
AccountsInv ==
  /\ account = [u \in Admins |-> account[u]] /\ session = [t \in Sessions |-> session[t]]
  /\ \A u \in Admins : IsAccount(account[u]) /\ Settles(account[u])
  /\ \A t \in Sessions : IsToken(session[t]) /\ AsIssued(session[t])

\* ---- brakes
(* When only one source has tried an account in a half window, the account   *)
(* has not been charged more in it than that source has, for each half since *)
(* the throttle last dropped a source's key.                                 *)
HitRow == [now : Nat, before : Nat]
BrakesInv ==
  /\ sourceHits \in [Sources -> [Admins -> HitRow]] /\ accountHits \in [Admins -> HitRow]
  /\ swept \in 0 .. 2
  /\ \A s \in Sources, u \in Admins :
       /\ Hits(sourceHits[s][u]) <= SourceHard
       /\ swept >= 1 /\ (\A other \in Sources \ {s} : sourceHits[other][u].now = 0)
            => accountHits[u].now <= sourceHits[s][u].now
       /\ swept = 2 /\ (\A other \in Sources \ {s} : sourceHits[other][u].before = 0)
            => accountHits[u].before <= sourceHits[s][u].before

\* ---- weeks
IsCampaign(r) ==
  r \in [status : {r.status}, clean : {r.clean}, decided : {r.decided}, paused : {r.paused},
         version : {r.version}, week : {r.week}, member : {r.member}]
IsWeek(w) == w \in [state : {w.state}, from : Nat, to : Nat]
Apart(v, w) == ~(v.from < w.to /\ v.to > w.from)

(* The planned weeks of a campaign do not overlap, and one that is not there *)
(* has none.                                                                 *)
WeeksInv ==
  /\ campaign = [c \in Campaigns |-> campaign[c]]
  /\ \A c \in Campaigns :
       /\ IsCampaign(campaign[c])
       /\ campaign[c].week = [p \in Weeks |-> campaign[c].week[p]]
       /\ \A p \in Weeks : IsWeek(campaign[c].week[p])
       /\ ~Exists(c) => Planned(c) = {}
       /\ \A p, q \in Planned(c) : p # q => Apart(campaign[c].week[p], campaign[c].week[q])

\* ---- the audit chain, step by step
LEMMA AuditStarts == AuditInit => AuditInv
BY DEF AuditInit, AuditInv, AuditTypes, WriterRow, Idle

LEMMA LastIsLength == ASSUME AuditInv PROVE LastHash = Len(chain) /\ Len(chain) \in Nat
<1>1. Len(chain) \in Nat /\ (chain = <<>> <=> Len(chain) = 0)  BY DEF AuditInv, AuditTypes
<1>2. CASE chain = <<>>  BY <1>1, <1>2 DEF LastHash
<1>3. CASE chain # <<>>
  <2>1. Len(chain) \in 1 .. Len(chain)  BY <1>1, <1>3
  <2>2. chain[Len(chain)].hash = Len(chain)  BY <2>1 DEF AuditInv
  <2>3. QED BY <1>1, <1>3, <2>2 DEF LastHash
<1>4. QED BY <1>2, <1>3

\* A writer's row changes, to a head that is there.
LEMMA WriterMoves ==
  ASSUME AuditInv, NEW w \in Writers, NEW r \in WriterRow, r.head <= Len(chain),
         writer' = [writer EXCEPT ![w] = r], UNCHANGED <<chain, kept>>
  PROVE  AuditInv'
<1>1. AuditTypes'  BY DEF AuditInv, AuditTypes
<1>2. ASSUME NEW v \in Writers PROVE writer'[v].head <= Len(chain)
  BY DEF AuditInv, AuditTypes
<1>3. QED BY <1>1, <1>2 DEF AuditInv

LEMMA RowAppends ==
  ASSUME AuditInv, NEW w \in Writers, Appends(w)
  PROVE  AuditInv'
<1> DEFINE n == Len(chain)
           row == [prev |-> writer[w].head, hash |-> Fresh]
<1>1. n \in Nat /\ writer[w] \in WriterRow /\ writer[w].head \in Nat /\ writer[w].head <= n
  BY LastIsLength DEF AuditInv, AuditTypes, WriterRow
<1>2. writer[w].head = n
  <2>1. SUFFICES ASSUME writer[w].head # n PROVE FALSE  OBVIOUS
  <2> DEFINE i == writer[w].head + 1
  <2>2. i \in 1 .. n /\ i - 1 = writer[w].head  BY <1>1, <2>1
  <2> HIDE DEF i
  <2>3. i \in DOMAIN chain /\ chain[i].prev = i - 1  BY <2>2 DEF AuditInv, AuditTypes
  <2>4. QED BY <2>2, <2>3 DEF Appends, Follows, Taken
<1>3. chain' = Append(chain, row) /\ writer' = [writer EXCEPT ![w] = Idle] /\ UNCHANGED kept
  BY DEF Appends
<1>4. row \in [prev : Nat, hash : Nat] /\ row.hash = n + 1 /\ row.prev = n
  BY <1>1, <1>2 DEF Fresh
<1> HIDE DEF row
<1>5. /\ chain' \in Seq([prev : Nat, hash : Nat]) /\ Len(chain') = n + 1
      /\ chain'[n + 1] = row /\ \A i \in 1 .. n : chain'[i] = chain[i]
  BY <1>3, <1>4 DEF AuditInv, AuditTypes
<1>6. Idle \in WriterRow /\ Idle.head = 0  BY DEF Idle, WriterRow
<1>7. AuditTypes'  BY <1>3, <1>5, <1>6 DEF AuditInv, AuditTypes
<1>8. ASSUME NEW i \in 1 .. n + 1 PROVE chain'[i].hash = i /\ chain'[i].prev = i - 1
  <2>1. CASE i \in 1 .. n  BY <1>5, <2>1 DEF AuditInv
  <2>2. CASE i = n + 1  BY <1>1, <1>4, <1>5, <2>2
  <2>3. QED BY <1>1, <2>1, <2>2
<1>9. ASSUME NEW v \in Writers PROVE writer'[v].head <= n + 1
  <2>1. writer[v].head <= n /\ writer[v].head \in Nat  BY DEF AuditInv, AuditTypes, WriterRow
  <2>2. writer'[v].head = 0 \/ writer'[v].head = writer[v].head
    BY <1>3, <1>6 DEF AuditInv, AuditTypes
  <2>3. QED BY <1>1, <2>1, <2>2
<1>10. ASSUME NEW c \in kept PROVE c.upto \in 1 .. n + 1 /\ c.head = c.upto
  BY <1>1 DEF AuditInv
<1>11. QED BY <1>3, <1>5, <1>7, <1>8, <1>9, <1>10 DEF AuditInv

LEMMA AuditKeeps == ASSUME AuditInv, AuditStep PROVE AuditInv'
<1> USE ConsoleAssumption
<1>1. LastHash = Len(chain) /\ Len(chain) \in Nat  BY LastIsLength
<1>2. CASE UNCHANGED auditVars  BY <1>2 DEF auditVars, AuditInv, AuditTypes
<1>3. ASSUME NEW w \in Writers, Records(w) PROVE AuditInv'
  <2> DEFINE r == [at |-> "read", head |-> LastHash, left |-> Tries]
  <2>1. r \in WriterRow /\ r.head <= Len(chain)  BY <1>1, AuditAssumption DEF WriterRow
  <2>2. writer' = [writer EXCEPT ![w] = r] /\ UNCHANGED <<chain, kept>>
    BY <1>3 DEF Records, Reads
  <2> HIDE DEF r
  <2>3. QED BY <2>1, <2>2, WriterMoves
<1>4. ASSUME NEW w \in Writers, LosesRace(w) PROVE AuditInv'
  <2> DEFINE row == writer[w]
             left == row.left - 1
             again == [at |-> "read", head |-> LastHash, left |-> left]
  <2>1. row \in WriterRow /\ UNCHANGED <<chain, kept>>  BY <1>4 DEF LosesRace, AuditInv, AuditTypes
  <2>2. CASE row.left > 0
    <3>1. writer' = [writer EXCEPT ![w] = again]  BY <1>4, <2>2 DEF LosesRace
    <3>2. left \in Nat  BY <2>1, <2>2 DEF WriterRow
    <3> HIDE DEF row, left
    <3>3. again \in WriterRow /\ again.head <= Len(chain)  BY <1>1, <2>1, <3>2 DEF WriterRow
    <3> HIDE DEF again
    <3>4. QED BY <2>1, <3>1, <3>3, WriterMoves
  <2>3. CASE ~(row.left > 0)
    <3>1. writer' = [writer EXCEPT ![w] = Idle]  BY <1>4, <2>3 DEF LosesRace
    <3>2. Idle \in WriterRow /\ Idle.head <= Len(chain)  BY <1>1 DEF Idle, WriterRow
    <3>3. QED BY <2>1, <3>1, <3>2, WriterMoves
  <2>4. QED BY <2>2, <2>3
<1>5. ASSUME NEW w \in Writers, RecordLost(w) PROVE AuditInv'
  <2>1. Idle \in WriterRow /\ Idle.head <= Len(chain)  BY <1>1 DEF Idle, WriterRow
  <2>2. QED BY <1>5, <2>1, WriterMoves DEF RecordLost
<1>6. CASE Checkpoint
  <2>1. Len(chain) # 0  BY <1>6 DEF Checkpoint, AuditInv, AuditTypes
  <2>2. QED BY <1>1, <1>6, <2>1 DEF Checkpoint, AuditInv, AuditTypes
<1>7. QED BY <1>2, <1>3, <1>4, <1>5, <1>6, RowAppends DEF AuditStep

\* Whatever the server and the worker record at the same time, one of them dying or
\* losing the race any number of times, verify() finds an unbroken chain with every
\* retained checkpoint on it (audit.mjs, migration 008).
THEOREM ChainVerifies == ServerSpec => []AuditChainVerifies
<1>1. ServerInit => AuditInv  BY AuditStarts DEF ServerInit, Init
<1>2. AuditInv /\ [ServerNext]_serverVars => AuditInv'  BY ServerSteps, AuditKeeps DEF Steps
<1>3. AuditInv => AuditChainVerifies
  <2> SUFFICES ASSUME AuditInv PROVE AuditChainVerifies  OBVIOUS
  <2>1. DOMAIN chain = 1 .. Len(chain) /\ Len(chain) \in Nat  BY DEF AuditInv, AuditTypes
  <2>2. ASSUME NEW i \in DOMAIN chain PROVE Linked(i)
    <3>1. CASE i = 1  BY <2>1, <3>1 DEF Linked, Before, AuditInv
    <3>2. CASE i # 1
      <4>1. i - 1 \in 1 .. Len(chain)  BY <2>1, <3>2
      <4>2. QED BY <2>1, <3>2, <4>1 DEF Linked, Before, AuditInv
    <3>3. QED BY <3>1, <3>2
  <2>3. ASSUME NEW c \in kept PROVE HeadMatches(c)  BY <2>1 DEF HeadMatches, AuditInv
  <2>4. QED BY <2>2, <2>3 DEF AuditChainVerifies
<1>4. QED BY <1>1, <1>2, <1>3, PTL DEF ServerSpec

\* ---- accounts and sessions, step by step
LEMMA NewAccountIs ==
  ASSUME NEW roles, NEW temp \in BOOLEAN
  PROVE  LET a == NewAccount(roles, temp)
         IN  IsAccount(a) /\ Settles(a) /\ a.pending = 0 /\ a.status = "active" /\ a.factor = FALSE
BY DEF NewAccount, NoAccount, IsAccount, Settles

LEMMA AccountsStart == StaffInit => AccountsInv
<1> SUFFICES ASSUME StaffInit PROVE AccountsInv  OBVIOUS
<1>1. PICK others \in {NoAccount, Enrolled} :
        account = [u \in Admins |->
          IF u = Bootstrap THEN NewAccount({"platform_admin"}, FALSE) ELSE others]
  BY DEF StaffInit
<1>2. session = [t \in Sessions |-> NoSession]  BY DEF StaffInit
<1>3. \A a \in {NoAccount, NewAccount({"platform_admin"}, FALSE), Enrolled} : IsAccount(a) /\ Settles(a)
  <2>1. IsAccount(NoAccount) /\ Settles(NoAccount)  BY DEF NoAccount, IsAccount, Settles
  <2> DEFINE first == NewAccount({"platform_admin"}, FALSE)
  <2>2. IsAccount(first) /\ Settles(first) /\ first.pending = 0  BY NewAccountIs
  <2> HIDE DEF first
  <2>3. IsAccount(Enrolled) /\ Settles(Enrolled)
    <3>1. Enrolled = [first EXCEPT !.factor = TRUE, !.secret = 1]  BY DEF Enrolled, first
    <3>2. first.status = "active"  BY NewAccountIs DEF first
    <3>3. QED BY <2>2, <3>1, <3>2 DEF IsAccount, Settles
  <2>4. QED BY <2>1, <2>2, <2>3 DEF first
<1>4. IsToken(NoSession) /\ AsIssued(NoSession)
  BY StaffAssumption DEF NoSession, IsToken, AsIssued
<1>5. \A u \in Admins : IsAccount(account[u]) /\ Settles(account[u])  BY <1>1, <1>3
<1>6. \A t \in Sessions : IsToken(session[t]) /\ AsIssued(session[t])  BY <1>2, <1>4
<1>7. account = [u \in Admins |-> account[u]] /\ session = [t \in Sessions |-> session[t]]
  BY <1>1, <1>2
<1>8. QED BY <1>5, <1>6, <1>7 DEF AccountsInv

\* A session is issued or ended while the accounts stay as they are.
LEMMA SessionMoves ==
  ASSUME AccountsInv, UNCHANGED account, NEW t \in Sessions, NEW s, IsToken(s), AsIssued(s),
         session' = [session EXCEPT ![t] = s]
  PROVE  AccountsInv'
<1>1. \A x \in Sessions : session'[x] = s \/ session'[x] = session[x]  BY DEF AccountsInv
<1>2. ASSUME NEW x \in Sessions PROVE (IsToken(session[x]) /\ AsIssued(session[x]))'
  <2>1. IsToken(session[x]) /\ AsIssued(session[x])  BY DEF AccountsInv
  <2>2. IsToken(session'[x])  BY <1>1, <2>1
  <2>3. AsIssued(session[x])'  BY <1>1, <2>1 DEF AsIssued, Known
  <2>4. QED BY <2>2, <2>3
<1>3. session' = [x \in Sessions |-> session'[x]]  BY DEF AccountsInv
<1>4. QED BY <1>2, <1>3 DEF AccountsInv

LEMMA IssuedIs ==
  ASSUME AccountsInv, NEW t \in Sessions, NEW u \in Admins, Known(u), UNCHANGED account,
         session' = Issued(t, u)
  PROVE  AccountsInv'
<1> DEFINE s == [user |-> u, roles |-> account[u].roles, pw |-> account[u].pw, at |-> "live"]
<1>1. IsToken(s) /\ AsIssued(s)  BY DEF IsToken, AsIssued
<1>2. session' = [session EXCEPT ![t] = s]  BY DEF Issued
<1> HIDE DEF s
<1>3. QED BY <1>1, <1>2, SessionMoves

\* An ended session, and what ending it leaves.
Over(s) == [s EXCEPT !.at = IF @ = "live" THEN "ended" ELSE @]
LEMMA OverIs ==
  ASSUME NEW s, IsToken(s) PROVE IsToken(Over(s)) /\ Over(s).at # "live" /\ AsIssued(Over(s))
<1> DEFINE at == IF s.at = "live" THEN "ended" ELSE s.at
<1>1. Over(s) = [s EXCEPT !.at = at]  BY DEF Over
<1>2. at \in {"unused", "ended"}  BY DEF IsToken
<1> HIDE DEF at
<1>3. IsToken([s EXCEPT !.at = at]) /\ [s EXCEPT !.at = at].at = at  BY <1>2 DEF IsToken
<1>4. QED BY <1>1, <1>2, <1>3 DEF AsIssued

LEMMA SignInKeepsAccounts == ASSUME AccountsInv, SignInStep PROVE AccountsInv'
<1>1. ASSUME NEW s, NEW u \in Admins, NEW t \in Sessions, LogIn(s, u, t) PROVE AccountsInv'
  BY <1>1, IssuedIs DEF LogIn, Known
<1>2. ASSUME NEW u \in Admins, NEW code, NEW t \in Sessions, VerifyMfa(u, code, t)
      PROVE  AccountsInv'
  <2>1. Known(u)
    <3>1. account[u].secret # 0  BY <1>2 DEF VerifyMfa, Proves
    <3>2. QED BY <3>1 DEF AccountsInv, Settles, Known
  <2>2. QED BY <1>2, <2>1, IssuedIs DEF VerifyMfa
<1>3. ASSUME NEW t \in Sessions, LogOut(t) PROVE AccountsInv'
  <2>1. session' = [session EXCEPT ![t] = Over(session[t])] /\ UNCHANGED account
    BY <1>3 DEF LogOut, Ended, Over
  <2>2. IsToken(Over(session[t])) /\ AsIssued(Over(session[t]))  BY OverIs DEF AccountsInv
  <2>3. QED BY <2>1, <2>2, SessionMoves
<1>4. ASSUME UNCHANGED <<account, session>> PROVE AccountsInv'
  BY <1>4 DEF AccountsInv, AsIssued, Known
<1>5. QED
  BY <1>1, <1>2, <1>3, <1>4 DEF SignInStep, LogInOwesCode, LogInFails, ChallengeEnds, WindowMoves,
         SourceKeyForgotten, AccountKeyForgotten

\* One account is written; its sessions are ended, or stay because what they were issued
\* for stayed.
LEMMA AccountMoves ==
  ASSUME AccountsInv, NEW u, NEW a, u \in Admins => IsAccount(a) /\ Settles(a),
         account' = [account EXCEPT ![u] = a],
         \/ session' = RevokedFor(u)
         \/ /\ UNCHANGED session
            /\ u \in Admins /\ Known(u) =>
                 a.status # "none" /\ a.roles = account[u].roles /\ a.pw = account[u].pw
  PROVE  AccountsInv'
<1>1. /\ account' = [v \in Admins |-> account'[v]]
      /\ \A v \in Admins : account'[v] = IF v = u THEN a ELSE account[v]
  BY DEF AccountsInv
<1>2. \A v \in Admins : IsAccount(account'[v]) /\ Settles(account'[v])  BY <1>1 DEF AccountsInv
<1>3. CASE session' = RevokedFor(u)
  <2>1. /\ session' = [t \in Sessions |-> session'[t]]
        /\ \A t \in Sessions :
             session'[t] = IF session[t].user = u THEN Over(session[t]) ELSE session[t]
    BY <1>3 DEF RevokedFor, Ended, Over, AccountsInv
  <2>2. ASSUME NEW t \in Sessions PROVE (IsToken(session[t]) /\ AsIssued(session[t]))'
    <3>1. IsToken(session[t]) /\ AsIssued(session[t])  BY DEF AccountsInv
    <3>2. CASE session[t].user = u
      BY <2>1, <3>1, <3>2, OverIs DEF AsIssued
    <3>3. CASE session[t].user # u
      <4>1. session[t].user \in Admins  BY <3>1 DEF IsToken
      <4>2. account'[session[t].user] = account[session[t].user]  BY <1>1, <3>3, <4>1
      <4>3. QED BY <2>1, <3>1, <3>3, <4>2 DEF AsIssued, Known
    <3>4. QED BY <3>2, <3>3
  <2>3. QED BY <1>1, <1>2, <2>1, <2>2 DEF AccountsInv
<1>4. CASE /\ UNCHANGED session
           /\ u \in Admins /\ Known(u) =>
                a.status # "none" /\ a.roles = account[u].roles /\ a.pw = account[u].pw
  <2>1. ASSUME NEW t \in Sessions PROVE AsIssued(session[t])'
    <3>1. IsToken(session[t]) /\ AsIssued(session[t])  BY DEF AccountsInv
    <3>2. session[t].user \in Admins  BY <3>1 DEF IsToken
    <3>3. account'[session[t].user] = IF session[t].user = u THEN a ELSE account[session[t].user]
      BY <1>1, <3>2
    <3>4. QED BY <1>4, <3>1, <3>2, <3>3 DEF AsIssued, Known
  <2>2. QED BY <1>1, <1>2, <1>4, <2>1 DEF AccountsInv
<1>5. QED BY <1>3, <1>4

\* What each service call writes to a row keeps it an account.
LEMMA PasswordRow ==
  ASSUME NEW a, IsAccount(a), Settles(a), NEW x, NEW temp \in BOOLEAN
  PROVE  LET n == [a EXCEPT !.pw = x, !.temp = temp] IN IsAccount(n) /\ Settles(n)
BY DEF IsAccount, Settles

LEMMA SecretRow ==
  ASSUME NEW a, IsAccount(a), NEW x
  PROVE  LET n == [a EXCEPT !.secret = x, !.pending = 0, !.factor = TRUE]
         IN  /\ IsAccount(n) /\ n.pending = 0 /\ n.secret = x
             /\ n.status = a.status /\ n.roles = a.roles /\ n.pw = a.pw
BY DEF IsAccount

LEMMA FactorOffRow ==
  ASSUME NEW a, IsAccount(a), Settles(a)
  PROVE  LET n == [a EXCEPT !.factor = FALSE]
         IN  /\ IsAccount(n) /\ Settles(n) /\ n.factor = FALSE
             /\ n.status = a.status /\ n.roles = a.roles /\ n.pw = a.pw
BY DEF IsAccount, Settles

LEMMA PendingRow ==
  ASSUME NEW a, IsAccount(a), NEW x
  PROVE  LET n == [a EXCEPT !.pending = x]
         IN  /\ IsAccount(n) /\ n.factor = a.factor
             /\ n.status = a.status /\ n.roles = a.roles /\ n.pw = a.pw
BY DEF IsAccount

LEMMA PasswordKeeps ==
  ASSUME AccountsInv, NEW u, NEW temp \in BOOLEAN, NewPassword(u, temp) PROVE AccountsInv'
<1> DEFINE x == account[u].pw + 1
           a == [account[u] EXCEPT !.pw = x, !.temp = temp]
<1>1. account' = [account EXCEPT ![u] = a] /\ session' = RevokedFor(u)  BY DEF NewPassword
<1>2. ASSUME u \in Admins PROVE IsAccount(a) /\ Settles(a)
  <2>1. IsAccount(account[u]) /\ Settles(account[u])  BY <1>2 DEF AccountsInv
  <2> HIDE DEF x
  <2>2. QED BY <2>1, PasswordRow
<1> HIDE DEF a
<1>3. QED BY <1>1, <1>2, AccountMoves

LEMMA EnableKeeps == ASSUME AccountsInv, NEW u, NEW code, EnableMfa(u, code) PROVE AccountsInv'
<1> DEFINE a == [account[u] EXCEPT !.secret = code, !.pending = 0, !.factor = TRUE]
<1>1. account' = [account EXCEPT ![u] = a] /\ UNCHANGED session  BY DEF EnableMfa
<1>2. ASSUME u \in Admins
      PROVE  /\ IsAccount(a) /\ Settles(a)
             /\ a.status # "none" /\ a.roles = account[u].roles /\ a.pw = account[u].pw
  <2>1. IsAccount(account[u]) /\ Settles(account[u])  BY <1>2 DEF AccountsInv
  <2>2. account[u].status # "none"
    BY <2>1 DEF Settles, EnableMfa, Proves, Confirmed
  <2>3. IsAccount(a) /\ a.pending = 0 /\ a.status = account[u].status
        /\ a.roles = account[u].roles /\ a.pw = account[u].pw
    BY <2>1, SecretRow
  <2>4. QED BY <2>2, <2>3 DEF Settles
<1> HIDE DEF a
<1>3. QED BY <1>1, <1>2, AccountMoves

LEMMA DisableKeeps == ASSUME AccountsInv, NEW u, NEW code, DisableMfa(u, code) PROVE AccountsInv'
<1> DEFINE a == [account[u] EXCEPT !.factor = FALSE]
<1>1. account' = [account EXCEPT ![u] = a] /\ UNCHANGED session  BY DEF DisableMfa
<1>2. ASSUME u \in Admins
      PROVE  /\ IsAccount(a) /\ Settles(a) /\ a.status = account[u].status
             /\ a.roles = account[u].roles /\ a.pw = account[u].pw
  <2>1. IsAccount(account[u]) /\ Settles(account[u])  BY <1>2 DEF AccountsInv
  <2>2. QED BY <2>1, FactorOffRow
<1> HIDE DEF a
<1>3. QED BY <1>1, <1>2, AccountMoves DEF Known

LEMMA EnrollKeeps ==
  ASSUME AccountsInv, NEW t \in Sessions, Authentic(t), EnrollMfa(session[t].user, NoCode)
  PROVE  AccountsInv'
<1>1. PICK u \in Admins : u = session[t].user  BY DEF AccountsInv, IsToken
<1> DEFINE n == secrets + 1
           a == [account[u] EXCEPT !.pending = n]
<1>2. account' = [account EXCEPT ![u] = a] /\ UNCHANGED session  BY <1>1 DEF EnrollMfa
<1>3. IsAccount(account[u]) /\ account[u].status = "active" /\ account[u].factor = FALSE
  BY <1>1 DEF AccountsInv, IsAccount, Authentic, EnrollMfa, MayEnrol, Proves, NoCode
<1> HIDE DEF n
<1>4. /\ IsAccount(a) /\ a.factor = FALSE /\ a.status = "active"
      /\ a.roles = account[u].roles /\ a.pw = account[u].pw
  BY <1>3, PendingRow
<1>5. Settles(a)  BY <1>4 DEF Settles
<1> HIDE DEF a
<1>6. QED BY <1>2, <1>4, <1>5, AccountMoves

LEMMA CreateKeeps ==
  ASSUME AccountsInv, NEW u \in Admins, NEW roles, CreateUser(u, roles) PROVE AccountsInv'
<1> DEFINE a == NewAccount(roles, TRUE)
<1>1. account' = [account EXCEPT ![u] = a] /\ UNCHANGED session /\ ~Known(u)  BY DEF CreateUser
<1>2. IsAccount(a) /\ Settles(a)  BY NewAccountIs
<1> HIDE DEF a
<1>3. QED BY <1>1, <1>2, AccountMoves

LEMMA PrivilegesKeep ==
  ASSUME AccountsInv, NEW by, NEW u \in Admins, NEW roles,
         NEW status, status \in {"active", "disabled"} \/ status = account[u].status,
         Privileges(by, u, roles, status),
         session' = RevokedFor(u) \/ (UNCHANGED session /\ roles = account[u].roles)
  PROVE  AccountsInv'
<1> DEFINE a == [account[u] EXCEPT !.roles = roles, !.status = status]
<1>1. account' = [account EXCEPT ![u] = a] /\ Known(u)  BY DEF Privileges
<1>2. IsAccount(account[u]) /\ Settles(account[u])  BY DEF AccountsInv
<1>3. status \in {"active", "disabled"}  BY <1>1, <1>2 DEF Known, IsAccount
<1>4. IsAccount(a) /\ Settles(a) /\ a.status # "none" /\ a.roles = roles /\ a.pw = account[u].pw
  <2> DEFINE old == account[u]
  <2>1. IsAccount(old) /\ Settles(old)  BY <1>2
  <2>2. a = [old EXCEPT !.roles = roles, !.status = status]  OBVIOUS
  <2> HIDE DEF old, a
  <2>3. /\ IsAccount(a) /\ Settles(a) /\ a.status # "none"
        /\ a.roles = roles /\ a.pw = old.pw
    BY <1>3, <2>1, <2>2 DEF IsAccount, Settles
  <2>4. QED BY <2>3 DEF old
<1> HIDE DEF a
<1>5. QED BY <1>1, <1>4, AccountMoves

LEMMA AccountsKeep == ASSUME AccountsInv, StaffStep PROVE AccountsInv'
<1>1. ASSUME UNCHANGED <<account, session>> PROVE AccountsInv'
  BY <1>1 DEF AccountsInv, AsIssued, Known
<1>2. UNCHANGED staffVars \/ ForgetsAll => UNCHANGED <<account, session>>
  BY DEF staffVars, ForgetsAll
<1>3. ASSUME NEW u \in Admins,
             \/ \E roles \in RoleSets : \E by : GiveRoles(by, u, roles)
             \/ \E by : Disable(by, u) \/ Activate(by, u)
      PROVE  AccountsInv'
  BY <1>3, PrivilegesKeep DEF GiveRoles, Disable, Activate
<1>4. CASE AccountStep
  <2>1. ASSUME NEW u, ChangePassword(u) \/ ResetPassword(u) PROVE AccountsInv'
    BY <2>1, PasswordKeeps DEF ChangePassword, ResetPassword
  <2>2. QED
    BY <1>3, <1>4, <2>1, EnableKeeps, DisableKeeps, EnrollKeeps, CreateKeeps DEF AccountStep
<1>5. QED BY <1>1, <1>2, <1>4, SignInKeepsAccounts DEF StaffStep

\* A session never outlives the roles and the password it was issued under (auth.mjs).
THEOREM SessionsMatch == ServerSpec => []SessionsMatchTheAccount
<1>1. ServerInit => AccountsInv  BY AccountsStart DEF ServerInit, Init
<1>2. AccountsInv /\ [ServerNext]_serverVars => AccountsInv'  BY ServerSteps, AccountsKeep DEF Steps
<1>3. AccountsInv => SessionsMatchTheAccount
  BY DEF AccountsInv, AsIssued, SessionsMatchTheAccount
<1>4. QED BY <1>1, <1>2, <1>3, PTL DEF ServerSpec

\* A step that leaves the secret alone, or leaves the factor off, replaces no secret; the
\* only one that writes a secret finds none waiting while the factor is on.
LEMMA SecretStays ==
  ASSUME AccountsInv, NEW v, NEW a,
         account' = [account EXCEPT ![v] = a],
         v \in Admins => a.secret = account[v].secret \/ a.factor = FALSE \/ account[v].factor = FALSE
  PROVE  \A u \in Admins :
           account[u].factor /\ account'[u].factor => account'[u].secret = account[u].secret
<1>1. \A u \in Admins : account'[u] = IF u = v THEN a ELSE account[u]  BY DEF AccountsInv
<1>2. QED BY <1>1

LEMMA SecretsKeep ==
  ASSUME AccountsInv, StaffStep
  PROVE  \A u \in Admins :
           account[u].factor /\ account'[u].factor => account'[u].secret = account[u].secret
<1> DEFINE Stand == \A u \in Admins :
                      account[u].factor /\ account'[u].factor => account'[u].secret = account[u].secret
<1> SUFFICES Stand  OBVIOUS
<1>1. ASSUME UNCHANGED account PROVE Stand  BY <1>1
<1>2. UNCHANGED staffVars \/ ForgetsAll \/ SignInStep => UNCHANGED account
  BY DEF staffVars, ForgetsAll, SignInStep, LogIn, LogInOwesCode, LogInFails, VerifyMfa, LogOut,
         ChallengeEnds, WindowMoves, SourceKeyForgotten, AccountKeyForgotten
<1>3. ASSUME NEW u \in Admins PROVE IsAccount(account[u]) /\ Settles(account[u])  BY DEF AccountsInv
<1>4. ASSUME NEW v, NEW temp, NewPassword(v, temp) PROVE Stand
  <2> DEFINE x == account[v].pw + 1
             a == [account[v] EXCEPT !.pw = x, !.temp = temp]
  <2>1. account' = [account EXCEPT ![v] = a]  BY <1>4 DEF NewPassword
  <2> HIDE DEF x
  <2>2. v \in Admins => a.secret = account[v].secret  BY <1>3 DEF IsAccount
  <2> HIDE DEF a
  <2>3. QED BY <2>1, <2>2, SecretStays
<1>5. ASSUME NEW v, NEW code, EnableMfa(v, code) PROVE Stand
  <2> DEFINE a == [account[v] EXCEPT !.secret = code, !.pending = 0, !.factor = TRUE]
  <2>1. account' = [account EXCEPT ![v] = a]  BY <1>5 DEF EnableMfa
  <2>2. ASSUME v \in Admins, account[v].factor = TRUE PROVE a.secret = account[v].secret
    <3>1. IsAccount(account[v]) /\ account[v].pending = 0  BY <1>3, <2>2 DEF Settles
    <3>2. a.secret = code  BY <3>1, SecretRow
    <3>3. QED BY <1>5, <3>1, <3>2 DEF EnableMfa, Proves, Confirmed
  <2>3. v \in Admins => account[v].factor \in BOOLEAN  BY <1>3 DEF IsAccount
  <2> HIDE DEF a
  <2>4. QED BY <2>1, <2>2, <2>3, SecretStays
<1>6. ASSUME NEW v, NEW code, DisableMfa(v, code) PROVE Stand
  <2> DEFINE a == [account[v] EXCEPT !.factor = FALSE]
  <2>1. account' = [account EXCEPT ![v] = a]  BY <1>6 DEF DisableMfa
  <2>2. v \in Admins => a.factor = FALSE  BY <1>3, FactorOffRow
  <2> HIDE DEF a
  <2>3. QED BY <2>1, <2>2, SecretStays
<1>7. ASSUME NEW v, EnrollMfa(v, NoCode) PROVE Stand
  <2> DEFINE n == secrets + 1
             a == [account[v] EXCEPT !.pending = n]
  <2>1. account' = [account EXCEPT ![v] = a]  BY <1>7 DEF EnrollMfa
  <2> HIDE DEF n
  <2>2. v \in Admins => a.secret = account[v].secret  BY <1>3 DEF IsAccount
  <2> HIDE DEF a
  <2>3. QED BY <2>1, <2>2, SecretStays
<1>8. ASSUME NEW v \in Admins, NEW roles, CreateUser(v, roles) PROVE Stand
  <2> DEFINE a == NewAccount(roles, TRUE)
  <2>1. account' = [account EXCEPT ![v] = a]  BY <1>8 DEF CreateUser
  <2>2. a.factor = FALSE  BY NewAccountIs
  <2> HIDE DEF a
  <2>3. QED BY <2>1, <2>2, SecretStays
<1>9. ASSUME NEW v \in Admins, NEW by, NEW roles, NEW status, Privileges(by, v, roles, status)
      PROVE  Stand
  <2> DEFINE a == [account[v] EXCEPT !.roles = roles, !.status = status]
  <2>1. account' = [account EXCEPT ![v] = a]  BY <1>9 DEF Privileges
  <2>2. a.secret = account[v].secret  BY <1>3 DEF IsAccount
  <2> HIDE DEF a
  <2>3. QED BY <2>1, <2>2, SecretStays
<1> HIDE DEF Stand
<1>10. CASE AccountStep
  <2>1. ASSUME NEW u, \/ ChangePassword(u) \/ ResetPassword(u)
                     \/ \E code \in Codes : EnableMfa(u, code) \/ DisableMfa(u, code)
        PROVE  Stand
    BY <1>4, <1>5, <1>6, <2>1 DEF ChangePassword, ResetPassword
  <2>2. ASSUME NEW u \in Admins,
               \/ \E roles \in RoleSets : CreateUser(u, roles) \/ \E by : GiveRoles(by, u, roles)
               \/ \E by : Disable(by, u) \/ Activate(by, u)
        PROVE  Stand
    BY <1>8, <1>9, <2>2 DEF GiveRoles, Disable, Activate
  <2>3. QED BY <1>7, <1>10, <2>1, <2>2 DEF AccountStep
<1>11. QED BY <1>1, <1>2, <1>10 DEF StaffStep

\* While a second factor is on no request replaces it, in whatever order enrolments,
\* confirmations and deactivations are sent (auth.mjs:65-76).
THEOREM FactorStands == ServerSpec => FactorStandsWhileOn
<1> DEFINE Stands(u) ==
             account[u].factor /\ account'[u].factor => account'[u].secret = account[u].secret
<1>1. ServerInit => AccountsInv  BY AccountsStart DEF ServerInit, Init
<1>2. AccountsInv /\ [ServerNext]_serverVars => AccountsInv'  BY ServerSteps, AccountsKeep DEF Steps
<1>3. AccountsInv /\ [ServerNext]_serverVars => [\A u \in Admins : Stands(u)]_staffVars
  <2> SUFFICES ASSUME AccountsInv, StaffStep PROVE \A u \in Admins : Stands(u)
    BY ServerSteps DEF Steps
  <2>1. QED BY SecretsKeep, AccountsKeep
<1>4. QED BY <1>1, <1>2, <1>3, PTL DEF ServerSpec, FactorStandsWhileOn

\* ---- brakes, step by step
LEMMA NoHitsIs == NoHits \in HitRow /\ NoHits.now = 0 /\ NoHits.before = 0 /\ Hits(NoHits) = 0
BY DEF NoHits, HitRow, Hits

LEMMA HitsAreNat == ASSUME NEW c \in HitRow PROVE c.now \in Nat /\ c.before \in Nat /\ Hits(c) = c.now + c.before
BY DEF HitRow, Hits

LEMMA NoBrakes ==
  ASSUME sourceHits = [s \in Sources |-> [u \in Admins |-> NoHits]],
         accountHits = [u \in Admins |-> NoHits], swept = 2
  PROVE  BrakesInv
<1>1. \A s \in Sources, u \in Admins : sourceHits[s][u] = NoHits /\ accountHits[u] = NoHits
  OBVIOUS
<1>2. sourceHits \in [Sources -> [Admins -> HitRow]] /\ accountHits \in [Admins -> HitRow]
  BY NoHitsIs
<1>3. QED BY <1>1, <1>2, NoHitsIs, StaffAssumption DEF BrakesInv

\* One attempt from s on u: what it writes, and where.
LEMMA BrakesMove ==
  ASSUME BrakesInv, NEW s \in Sources, NEW u \in Admins, NEW c \in HitRow, NEW d \in HitRow,
         sourceHits' = [sourceHits EXCEPT ![s][u] = c], accountHits' = [accountHits EXCEPT ![u] = d]
  PROVE  /\ sourceHits' \in [Sources -> [Admins -> HitRow]] /\ accountHits' \in [Admins -> HitRow]
         /\ \A r \in Sources, v \in Admins :
              sourceHits'[r][v] = IF r = s /\ v = u THEN c ELSE sourceHits[r][v]
         /\ \A v \in Admins : accountHits'[v] = IF v = u THEN d ELSE accountHits[v]
BY DEF BrakesInv

LEMMA ForgetKeeps ==
  ASSUME BrakesInv, NEW s \in Sources, NEW u \in Admins, Forget(s, u) PROVE BrakesInv'
<1> DEFINE c == NoHits
<1>1. c \in HitRow /\ c.now = 0 /\ c.before = 0 /\ Hits(c) = 0  BY NoHitsIs
<1>2. sourceHits' = [sourceHits EXCEPT ![s][u] = c] /\ accountHits' = [accountHits EXCEPT ![u] = c]
  BY DEF Forget
<1> HIDE DEF c
<1>3. /\ sourceHits' \in [Sources -> [Admins -> HitRow]] /\ accountHits' \in [Admins -> HitRow]
      /\ \A r \in Sources, v \in Admins :
           sourceHits'[r][v] = IF r = s /\ v = u THEN c ELSE sourceHits[r][v]
      /\ \A v \in Admins : accountHits'[v] = IF v = u THEN c ELSE accountHits[v]
  BY <1>1, <1>2, BrakesMove
<1>4. ASSUME NEW r \in Sources, NEW v \in Admins
      PROVE  /\ Hits(sourceHits'[r][v]) <= SourceHard
             /\ swept >= 1 /\ (\A other \in Sources \ {r} : sourceHits'[other][v].now = 0)
                  => accountHits'[v].now <= sourceHits'[r][v].now
             /\ swept = 2 /\ (\A other \in Sources \ {r} : sourceHits'[other][v].before = 0)
                  => accountHits'[v].before <= sourceHits'[r][v].before
  <2>1. sourceHits'[r][v] \in HitRow  BY <1>3
  <2>2. Hits(sourceHits'[r][v]) <= SourceHard  BY <1>1, <1>3, StaffAssumption DEF BrakesInv
  <2>3. CASE v = u
    BY <1>1, <1>3, <2>1, <2>2, <2>3, HitsAreNat
  <2>4. CASE v # u
    BY <1>3, <2>2, <2>4 DEF BrakesInv
  <2>5. QED BY <2>3, <2>4
<1>5. \A r \in Sources, v \in Admins : Hits(sourceHits[r][v])' = Hits(sourceHits'[r][v])
  BY DEF Hits
<1>6. UNCHANGED swept  BY DEF Forget
<1>7. QED BY <1>3, <1>4, <1>5, <1>6 DEF BrakesInv

LEMMA ChargeKeeps ==
  ASSUME BrakesInv, NEW s \in Sources, NEW u \in Admins, Charge(s, u) PROVE BrakesInv'
<1> DEFINE old == sourceHits[s][u]
           mine == accountHits[u]
           c == AddHit(old, SourceHard)
           d == IF Hits(old) >= SourceHard THEN mine ELSE AddHit(mine, AccountHard)
<1>1. old \in HitRow /\ mine \in HitRow  BY DEF BrakesInv
<1>2. ASSUME NEW h \in HitRow, NEW hard \in Nat
      PROVE  /\ AddHit(h, hard) \in HitRow /\ AddHit(h, hard).before = h.before
             /\ Hits(h) >= hard => AddHit(h, hard) = h
             /\ Hits(h) < hard => AddHit(h, hard).now = h.now + 1
             /\ AddHit(h, hard).now \in {h.now, h.now + 1}
             /\ Hits(h) <= hard => Hits(AddHit(h, hard)) <= hard
  <2>1. CASE Hits(h) < hard
    <3> DEFINE n == h.now + 1
    <3>1. n \in Nat /\ h.now \in Nat /\ h.before \in Nat  BY <1>2 DEF HitRow
    <3>2. AddHit(h, hard) = [h EXCEPT !.now = n]  BY <2>1 DEF AddHit
    <3>3. [h EXCEPT !.now = n] \in HitRow /\ [h EXCEPT !.now = n].now = n
          /\ [h EXCEPT !.now = n].before = h.before
      <4> HIDE DEF n
      <4>1. QED BY <3>1 DEF HitRow
    <3>4. QED BY <2>1, <3>1, <3>2, <3>3, <1>2 DEF Hits
  <2>2. CASE ~(Hits(h) < hard)
    <3>1. AddHit(h, hard) = h  BY <2>2 DEF AddHit
    <3>2. h.now \in Nat /\ h.before \in Nat  BY DEF HitRow
    <3>3. QED BY <2>2, <3>1, <3>2
  <2>3. QED BY <2>1, <2>2
<1>3. sourceHits' = [sourceHits EXCEPT ![s][u] = c]  BY DEF Charge
<1>4. accountHits' = [accountHits EXCEPT ![u] = d]
  BY DEF Charge, AccountCharged, SourceIsSpent, AccountAlwaysCharged, BrakesInv
<1>5. Hits(old) <= SourceHard /\ Hits(old) \in Nat  BY <1>1, HitsAreNat DEF BrakesInv
<1>6. /\ c \in HitRow /\ c.before = old.before /\ Hits(c) <= SourceHard
      /\ d \in HitRow /\ d.before = mine.before
      /\ \/ c = old /\ d = mine
         \/ c.now = old.now + 1 /\ d.now \in {mine.now, mine.now + 1}
  <2> DEFINE more == AddHit(mine, AccountHard)
  <2>1. more \in HitRow /\ more.before = mine.before /\ more.now \in {mine.now, mine.now + 1}
    BY <1>1, <1>2, StaffAssumption
  <2>2. /\ c \in HitRow /\ c.before = old.before /\ Hits(c) <= SourceHard
        /\ Hits(old) >= SourceHard => c = old
        /\ Hits(old) < SourceHard => c.now = old.now + 1
    BY <1>1, <1>2, <1>5, StaffAssumption
  <2>3. d = IF Hits(old) >= SourceHard THEN mine ELSE more  OBVIOUS
  <2> HIDE DEF c, d, more, old, mine
  <2>4. QED BY <1>1, <1>5, <2>1, <2>2, <2>3, StaffAssumption
<1> HIDE DEF c, d
<1>7. /\ sourceHits' \in [Sources -> [Admins -> HitRow]] /\ accountHits' \in [Admins -> HitRow]
      /\ \A r \in Sources, v \in Admins :
           sourceHits'[r][v] = IF r = s /\ v = u THEN c ELSE sourceHits[r][v]
      /\ \A v \in Admins : accountHits'[v] = IF v = u THEN d ELSE accountHits[v]
  BY <1>3, <1>4, <1>6, BrakesMove
<1>8. ASSUME NEW r \in Sources, NEW v \in Admins
      PROVE  /\ Hits(sourceHits'[r][v]) <= SourceHard
             /\ swept >= 1 /\ (\A other \in Sources \ {r} : sourceHits'[other][v].now = 0)
                  => accountHits'[v].now <= sourceHits'[r][v].now
             /\ swept = 2 /\ (\A other \in Sources \ {r} : sourceHits'[other][v].before = 0)
                  => accountHits'[v].before <= sourceHits'[r][v].before
  <2>1. Hits(sourceHits'[r][v]) <= SourceHard  BY <1>6, <1>7 DEF BrakesInv
  <2>2. CASE v # u
    BY <1>7, <2>1, <2>2 DEF BrakesInv
  <2>3. CASE c = old /\ d = mine
    <3>1. \A x \in Sources : sourceHits'[x][v] = sourceHits[x][v]  BY <1>7, <2>3
    <3>2. accountHits'[v] = accountHits[v]  BY <1>7, <2>3
    <3>3. QED BY <2>1, <3>1, <3>2 DEF BrakesInv
  <2>4. CASE v = u /\ c.now = old.now + 1 /\ d.now \in {mine.now, mine.now + 1}
    <3>1. old.now \in Nat /\ mine.now \in Nat /\ old.before \in Nat /\ mine.before \in Nat
      BY <1>1, HitsAreNat
    <3>2. ASSUME swept >= 1, \A other \in Sources \ {r} : sourceHits'[other][v].now = 0
          PROVE  accountHits'[v].now <= sourceHits'[r][v].now
      <4>1. r = s
        <5>1. SUFFICES ASSUME r # s PROVE FALSE  OBVIOUS
        <5>2. sourceHits'[s][u].now = 0  BY <2>4, <3>2, <5>1
        <5>3. sourceHits'[s][u] = c  BY <1>7
        <5>4. QED BY <2>4, <3>1, <5>2, <5>3
      <4>2. \A other \in Sources \ {s} : sourceHits[other][u].now = 0  BY <1>7, <2>4, <3>2, <4>1
      <4>3. mine.now <= old.now  BY <3>2, <4>2 DEF BrakesInv
      <4>4. d.now <= c.now
        <5> HIDE DEF old, mine
        <5>1. QED BY <2>4, <3>1, <4>3
      <4>5. QED BY <1>7, <2>4, <4>1, <4>4
    <3>3. ASSUME swept = 2, \A other \in Sources \ {r} : sourceHits'[other][v].before = 0
          PROVE  accountHits'[v].before <= sourceHits'[r][v].before
      <4>1. \A x \in Sources : sourceHits'[x][v].before = sourceHits[x][v].before
        BY <1>6, <1>7, <2>4
      <4>2. accountHits'[v].before = accountHits[v].before  BY <1>6, <1>7, <2>4
      <4>3. QED BY <3>3, <4>1, <4>2 DEF BrakesInv
    <3>4. QED BY <2>1, <3>2, <3>3
  <2>5. QED BY <1>6, <2>2, <2>3, <2>4
<1>9. \A r \in Sources, v \in Admins : Hits(sourceHits[r][v])' = Hits(sourceHits'[r][v])
  BY DEF Hits
<1>10. UNCHANGED swept  BY DEF Charge
<1>11. QED BY <1>7, <1>8, <1>9, <1>10 DEF BrakesInv

LEMMA WindowKeeps == ASSUME BrakesInv, WindowMoves PROVE BrakesInv'
<1>1. ASSUME NEW c \in HitRow
      PROVE  /\ Aged(c) \in HitRow /\ Aged(c).now = 0 /\ Aged(c).before = c.now
             /\ Hits(Aged(c)) <= Hits(c)
  <2>1. c.now \in Nat /\ c.before \in Nat  BY DEF HitRow
  <2>2. Aged(c) \in HitRow /\ Aged(c).now = 0 /\ Aged(c).before = c.now  BY <2>1 DEF Aged, HitRow
  <2>3. QED BY <2>1, <2>2 DEF Hits
<1>2. ASSUME NEW s \in Sources, NEW u \in Admins
      PROVE  /\ sourceHits'[s][u] = Aged(sourceHits[s][u]) /\ accountHits'[u] = Aged(accountHits[u])
             /\ sourceHits[s][u] \in HitRow /\ accountHits[u] \in HitRow
             /\ Hits(sourceHits[s][u])' = Hits(sourceHits'[s][u])
  BY DEF WindowMoves, BrakesInv, Hits
<1>3. sourceHits' \in [Sources -> [Admins -> HitRow]] /\ accountHits' \in [Admins -> HitRow]
  <2>1. \A u \in Admins : accountHits[u] \in HitRow  BY DEF BrakesInv
  <2>2. QED BY <1>1, <1>2, <2>1 DEF WindowMoves
<1>4. ASSUME NEW s \in Sources, NEW u \in Admins
      PROVE  /\ Hits(sourceHits'[s][u]) <= SourceHard
             /\ accountHits'[u].now <= sourceHits'[s][u].now
             /\ swept' = 2 /\ (\A other \in Sources \ {s} : sourceHits'[other][u].before = 0)
                  => accountHits'[u].before <= sourceHits'[s][u].before
  <2>1. Hits(sourceHits[s][u]) <= SourceHard /\ Hits(sourceHits[s][u]) \in Nat
    BY <1>2, HitsAreNat DEF BrakesInv
  <2>2. Hits(sourceHits'[s][u]) <= SourceHard
    BY <1>1, <1>2, <2>1, StaffAssumption, HitsAreNat
  <2>3. accountHits'[u].now = 0 /\ sourceHits'[s][u].now = 0
    BY <1>1, <1>2
  <2>4. ASSUME swept' = 2, \A other \in Sources \ {s} : sourceHits'[other][u].before = 0
        PROVE  accountHits'[u].before <= sourceHits'[s][u].before
    <3>1. \A r \in Sources : sourceHits'[r][u].before = sourceHits[r][u].now
      BY <1>1, <1>2
    <3>2. accountHits'[u].before = accountHits[u].now  BY <1>1, <1>2
    <3>3. \A other \in Sources \ {s} : sourceHits[other][u].now = 0  BY <2>4, <3>1
    <3>4. swept >= 1  BY <2>4 DEF WindowMoves, BrakesInv
    <3>5. accountHits[u].now <= sourceHits[s][u].now  BY <3>3, <3>4 DEF BrakesInv
    <3>6. QED BY <3>1, <3>2, <3>5
  <2>5. QED BY <2>2, <2>3, <2>4
<1>5. swept' \in 0 .. 2  BY DEF WindowMoves, BrakesInv
<1>6. QED BY <1>2, <1>3, <1>4, <1>5 DEF BrakesInv

\* What is left of a dropped key is less than it was; of an account's nothing.
LEMMA DropsKeep ==
  ASSUME BrakesInv, NEW u \in Admins,
         AccountKeyForgotten(u) \/ \E s \in Sources : SourceKeyForgotten(s, u)
  PROVE  BrakesInv'
<1>1. CASE AccountKeyForgotten(u)
  <2>1. /\ UNCHANGED <<sourceHits, swept>> /\ accountHits' \in [Admins -> HitRow]
        /\ \A v \in Admins : accountHits'[v] = IF v = u THEN NoHits ELSE accountHits[v]
    BY <1>1, NoHitsIs DEF AccountKeyForgotten, BrakesInv
  <2>2. ASSUME NEW s \in Sources, NEW v \in Admins
        PROVE  /\ Hits(sourceHits[s][v])' = Hits(sourceHits[s][v])
               /\ sourceHits[s][v].now \in Nat /\ sourceHits[s][v].before \in Nat
    BY <2>1 DEF BrakesInv, HitRow, Hits
  <2>3. \A v \in Admins :
          \/ accountHits'[v] = accountHits[v]
          \/ accountHits'[v].now = 0 /\ accountHits'[v].before = 0
    BY <2>1, NoHitsIs
  <2>4. QED BY <2>1, <2>2, <2>3 DEF BrakesInv
<1>2. ASSUME NEW s \in Sources, SourceKeyForgotten(s, u) PROVE BrakesInv'
  <2>1. /\ UNCHANGED accountHits /\ swept' = 0 /\ sourceHits' \in [Sources -> [Admins -> HitRow]]
        /\ \A r \in Sources, v \in Admins :
             sourceHits'[r][v] = IF r = s /\ v = u THEN NoHits ELSE sourceHits[r][v]
    BY <1>2, NoHitsIs DEF SourceKeyForgotten, BrakesInv
  <2>2. ASSUME NEW r \in Sources, NEW v \in Admins
        PROVE  Hits(sourceHits[r][v])' = Hits(sourceHits'[r][v]) /\ Hits(sourceHits'[r][v]) <= SourceHard
    BY <2>1, NoHitsIs, StaffAssumption DEF BrakesInv, Hits
  <2>3. QED BY <2>1, <2>2 DEF BrakesInv
<1>3. QED BY <1>1, <1>2

LEMMA BrakesKeep == ASSUME BrakesInv, StaffStep PROVE BrakesInv'
<1>1. ASSUME UNCHANGED <<sourceHits, accountHits, swept>> PROVE BrakesInv'  BY <1>1 DEF BrakesInv, Hits
<1>2. UNCHANGED staffVars => UNCHANGED <<sourceHits, accountHits, swept>>  BY DEF staffVars
<1>3. AccountStep => UNCHANGED <<sourceHits, accountHits, swept>>
  BY DEF AccountStep, ChangePassword, ResetPassword, NewPassword, EnableMfa, DisableMfa, EnrollMfa,
         CreateUser, GiveRoles, Disable, Activate, Privileges
<1>4. ForgetsAll => BrakesInv'
  <2> SUFFICES ASSUME ForgetsAll PROVE BrakesInv'  OBVIOUS
  <2>1. \A s \in Sources, u \in Admins : sourceHits'[s][u] = NoHits /\ accountHits'[u] = NoHits
    BY DEF ForgetsAll
  <2>2. sourceHits' \in [Sources -> [Admins -> HitRow]] /\ accountHits' \in [Admins -> HitRow]
    BY NoHitsIs DEF ForgetsAll
  <2>3. \A s \in Sources, u \in Admins : Hits(sourceHits[s][u])' = Hits(NoHits)
    BY <2>1 DEF Hits
  <2>4. swept' = 2  BY DEF ForgetsAll
  <2>5. QED BY <2>1, <2>2, <2>3, <2>4, NoHitsIs, StaffAssumption DEF BrakesInv
<1>5. SignInStep => BrakesInv'
  <2>1. ASSUME NEW s \in Sources, NEW u \in Admins,
               \/ \E t \in Sessions : LogIn(s, u, t)
               \/ LogInOwesCode(s, u)
        PROVE  BrakesInv'
    BY <2>1, ForgetKeeps DEF LogIn, LogInOwesCode
  <2>2. ASSUME NEW s \in Sources, NEW u \in Admins, NEW right, LogInFails(s, u, right)
        PROVE  BrakesInv'
    BY <2>2, ChargeKeeps DEF LogInFails
  <2>3. ASSUME \/ \E u \in Admins, code \in Codes, t \in Sessions : VerifyMfa(u, code, t)
               \/ \E t \in Sessions : LogOut(t)
               \/ \E u \in Admins : ChallengeEnds(u)
        PROVE  BrakesInv'
    BY <1>1, <2>3 DEF VerifyMfa, LogOut, ChallengeEnds
  <2>4. QED BY <2>1, <2>2, <2>3, WindowKeeps, DropsKeep DEF SignInStep
<1>6. QED BY <1>1, <1>2, <1>3, <1>4, <1>5 DEF StaffStep

\* One source alone never uses up an account's budget, for any ceilings of which the
\* source's is the lower, any number of sources and any order of attempts, unless the
\* throttle dropped a source's key in the last window (server.mjs:44-85, 209-214).
THEOREM OneSourceIsNotEnough == ServerSpec => []OneSourceCannotLockOut
<1>1. ServerInit => BrakesInv  BY NoBrakes DEF ServerInit, Init, StaffInit
<1>2. BrakesInv /\ [ServerNext]_serverVars => BrakesInv'  BY ServerSteps, BrakesKeep DEF Steps
<1>3. BrakesInv => OneSourceCannotLockOut
  <2> SUFFICES ASSUME BrakesInv, swept = 2, NEW u \in Admins, NEW s \in Sources,
                      \A other \in Sources \ {s} : Hits(sourceHits[other][u]) = 0
               PROVE  ~AccountIsSpent(u)
    BY DEF OneSourceCannotLockOut
  <2>1. \A r \in Sources : sourceHits[r][u] \in HitRow  BY DEF BrakesInv
  <2>2. accountHits[u] \in HitRow  BY DEF BrakesInv
  <2>3. \A other \in Sources \ {s} : sourceHits[other][u].now = 0 /\ sourceHits[other][u].before = 0
    BY <2>1, HitsAreNat
  <2>4. /\ accountHits[u].now <= sourceHits[s][u].now
        /\ accountHits[u].before <= sourceHits[s][u].before
        /\ Hits(sourceHits[s][u]) <= SourceHard
    BY <2>3 DEF BrakesInv
  <2>5. QED BY <2>1, <2>2, <2>4, HitsAreNat, StaffAssumption DEF AccountIsSpent
<1>4. QED BY <1>1, <1>2, <1>3, PTL DEF ServerSpec

\* ---- weeks, step by step
LEMMA NoCampaignIs ==
  /\ IsCampaign(NoCampaign)
  /\ NoCampaign.week = [p \in Weeks |-> NoWeek] /\ IsWeek(NoWeek) /\ NoWeek.state = "none"
  /\ NoCampaign.status = "none"
BY DEF NoCampaign, IsCampaign, NoWeek, IsWeek

LEMMA PreparedIs ==
  ASSUME NEW drafts, NEW decided
  PROVE  LET r == Prepared(drafts, decided)
         IN  /\ IsCampaign(r) /\ r.status = "draft"
             /\ r.week = [p \in Weeks |->
                  IF p = FirstWeek THEN [state |-> "scheduled", from |-> 0, to |-> 1] ELSE NoWeek]
BY DEF Prepared, NoCampaign, IsCampaign

LEMMA WeeksStart == CampaignInit => WeeksInv
<1> SUFFICES ASSUME CampaignInit PROVE WeeksInv  OBVIOUS
<1>1. PICK decided, others :
        campaign = [c \in Campaigns |->
          IF c # First THEN NoCampaign
          ELSE Prepared([v \in Versions |-> IF v = FirstVersion THEN Draft(TRUE) ELSE others], decided)]
  BY DEF CampaignInit
<1> DEFINE first == Prepared([v \in Versions |-> IF v = FirstVersion THEN Draft(TRUE) ELSE others], decided)
           only == [state |-> "scheduled", from |-> 0, to |-> 1]
<1>2. /\ IsCampaign(first) /\ first.status = "draft"
      /\ first.week = [p \in Weeks |-> IF p = FirstWeek THEN only ELSE NoWeek]
  BY PreparedIs
<1> HIDE DEF first
<1>3. IsWeek(only)  BY DEF IsWeek
<1> HIDE DEF only
<1>4. campaign = [c \in Campaigns |-> IF c # First THEN NoCampaign ELSE first]  BY <1>1 DEF first
<1>5. ASSUME NEW c \in Campaigns
      PROVE  /\ IsCampaign(campaign[c])
             /\ campaign[c].week = [p \in Weeks |-> campaign[c].week[p]]
             /\ \A p \in Weeks : IsWeek(campaign[c].week[p])
             /\ ~Exists(c) => Planned(c) = {}
             /\ \A p, q \in Planned(c) : p # q => Apart(campaign[c].week[p], campaign[c].week[q])
  <2>1. CASE c # First
    <3>1. campaign[c] = NoCampaign  BY <1>4, <2>1
    <3>2. Planned(c) = {}  BY <3>1, NoCampaignIs DEF Planned
    <3>3. QED BY <3>1, <3>2, NoCampaignIs
  <2>2. CASE c = First
    <3>1. campaign[c] = first  BY <1>4, <2>2
    <3>2. Planned(c) \subseteq {FirstWeek}  BY <1>2, <3>1, NoCampaignIs DEF Planned
    <3>3. Exists(c)  BY <1>2, <3>1 DEF Exists
    <3>4. QED BY <1>2, <1>3, <3>1, <3>2, <3>3, NoCampaignIs
  <2>3. QED BY <2>1, <2>2
<1>6. campaign = [c \in Campaigns |-> campaign[c]]  BY <1>4
<1>7. QED BY <1>5, <1>6 DEF WeeksInv

\* A drawn week keeps its instants to itself through a step.
DrawnStay ==
  \A c \in Campaigns, p \in Weeks, t \in 0 .. 3 :
    campaign[c].week[p].state = "drawn" /\ Covers(p, c, t) => WeeksAt(c, t)' = {p}

\* An instant is in at most one planned week.
LEMMA AloneAt ==
  ASSUME WeeksInv, NEW c \in Campaigns, NEW p \in Weeks, NEW t \in Nat, Covers(p, c, t)
  PROVE  WeeksAt(c, t) = {p}
<1>1. ASSUME NEW q \in Weeks, Covers(q, c, t), q # p PROVE FALSE
  <2>1. p \in Planned(c) /\ q \in Planned(c)  BY <1>1 DEF Covers, Planned
  <2>2. IsWeek(campaign[c].week[p]) /\ IsWeek(campaign[c].week[q])  BY DEF WeeksInv
  <2>3. Apart(campaign[c].week[p], campaign[c].week[q])  BY <1>1, <2>1 DEF WeeksInv
  <2>4. QED BY <1>1, <2>2, <2>3 DEF Covers, IsWeek, Apart
<1>2. QED BY <1>1 DEF WeeksAt

\* The weeks stay apart and the drawn ones in place when a campaign is written with the
\* weeks it has ...
LEMMA RowWritten ==
  ASSUME WeeksInv, NEW c, NEW row, campaign' = [campaign EXCEPT ![c] = row],
         c \in Campaigns => IsCampaign(row) /\ row.week = campaign[c].week /\ (Exists(c) => row.status # "none")
  PROVE  WeeksInv' /\ DrawnStay
<1>1. \A d \in Campaigns : campaign'[d] = IF d = c THEN row ELSE campaign[d]  BY DEF WeeksInv
<1>2. \A d \in Campaigns : campaign'[d].week = campaign[d].week  BY <1>1
<1>3. \A d \in Campaigns : Planned(d)' = Planned(d)  BY <1>2 DEF Planned
<1>4. \A d \in Campaigns : IsCampaign(campaign'[d]) /\ (Exists(d) => Exists(d)')
  BY <1>1 DEF WeeksInv, Exists
<1>5. campaign' = [d \in Campaigns |-> campaign'[d]]  BY DEF WeeksInv
<1>6. WeeksInv'  BY <1>2, <1>3, <1>4, <1>5 DEF WeeksInv
<1>7. ASSUME NEW d \in Campaigns, NEW p \in Weeks, NEW t \in Nat, Covers(p, d, t)
      PROVE  WeeksAt(d, t)' = {p}
  <2>1. WeeksAt(d, t)' = WeeksAt(d, t)  BY <1>2 DEF WeeksAt, Covers
  <2>2. QED BY <1>7, <2>1, AloneAt
<1>8. DrawnStay  BY <1>7 DEF DrawnStay
<1>9. QED BY <1>6, <1>8

\* ... when one is made, without weeks ...
LEMMA RowMade ==
  ASSUME WeeksInv, NEW c \in Campaigns, NEW row, campaign' = [campaign EXCEPT ![c] = row],
         ~Exists(c), IsCampaign(row), row.week = [p \in Weeks |-> NoWeek], row.status # "none"
  PROVE  WeeksInv' /\ DrawnStay
<1>1. \A d \in Campaigns : campaign'[d] = IF d = c THEN row ELSE campaign[d]  BY DEF WeeksInv
<1>2. campaign' = [d \in Campaigns |-> campaign'[d]]  BY DEF WeeksInv
<1>3. Planned(c)' = {}  BY <1>1, NoCampaignIs DEF Planned
<1>4. \A d \in Campaigns : d # c => Planned(d)' = Planned(d) /\ (Exists(d)' <=> Exists(d))
  BY <1>1 DEF Planned, Exists
<1>5. ASSUME NEW d \in Campaigns
      PROVE  /\ IsCampaign(campaign'[d])
             /\ campaign'[d].week = [p \in Weeks |-> campaign'[d].week[p]]
             /\ \A p \in Weeks : IsWeek(campaign'[d].week[p])
             /\ ~Exists(d)' => Planned(d)' = {}
             /\ \A p, q \in Planned(d)' :
                  p # q => Apart(campaign'[d].week[p], campaign'[d].week[q])
  <2>1. CASE d = c  BY <1>1, <1>3, <2>1, NoCampaignIs
  <2>2. CASE d # c
    <3>1. campaign'[d] = campaign[d]  BY <1>1, <2>2
    <3>2. QED BY <1>4, <2>2, <3>1 DEF WeeksInv
  <2>3. QED BY <2>1, <2>2
<1>6. WeeksInv'  BY <1>2, <1>5 DEF WeeksInv
<1>7. ASSUME NEW d \in Campaigns, NEW p \in Weeks, NEW t \in Nat, Covers(p, d, t)
      PROVE  WeeksAt(d, t)' = {p}
  <2>1. d # c  BY <1>7 DEF WeeksInv, Covers, Planned
  <2>2. campaign'[d] = campaign[d]  BY <1>1, <2>1
  <2>3. WeeksAt(d, t)' = WeeksAt(d, t)  BY <2>2 DEF WeeksAt, Covers
  <2>4. QED BY <1>7, <2>3, AloneAt
<1>8. QED BY <1>6, <1>7 DEF DrawnStay

\* ... and when one week is written, apart from the others, that is not drawn or keeps
\* its bounds.
LEMMA WeekWritten ==
  ASSUME WeeksInv, NEW c \in Campaigns, NEW row, campaign' = [campaign EXCEPT ![c] = row],
         NEW p \in Weeks, NEW w, row.week = [campaign[c].week EXCEPT ![p] = w],
         Exists(c), IsCampaign(row), row.status # "none", IsWeek(w),
         \A q \in Planned(c) \ {p} :
           Apart(w, campaign[c].week[q]) /\ Apart(campaign[c].week[q], w),
         \/ campaign[c].week[p].state # "drawn"
         \/ w.state # "none" /\ w.from = campaign[c].week[p].from /\ w.to = campaign[c].week[p].to
  PROVE  WeeksInv' /\ DrawnStay
<1>1. \A d \in Campaigns : campaign'[d] = IF d = c THEN row ELSE campaign[d]  BY DEF WeeksInv
<1>2. campaign' = [d \in Campaigns |-> campaign'[d]]  BY DEF WeeksInv
<1>3. /\ row.week = [q \in Weeks |-> row.week[q]]
      /\ \A q \in Weeks : row.week[q] = IF q = p THEN w ELSE campaign[c].week[q]
  BY DEF WeeksInv
<1>4. \A q \in Planned(c)' : q # p => q \in Planned(c)  BY <1>1, <1>3 DEF Planned
<1>5. \A d \in Campaigns : d # c => Planned(d)' = Planned(d) /\ (Exists(d)' <=> Exists(d))
  BY <1>1 DEF Planned, Exists
<1>6. ASSUME NEW d \in Campaigns
      PROVE  /\ IsCampaign(campaign'[d])
             /\ campaign'[d].week = [q \in Weeks |-> campaign'[d].week[q]]
             /\ \A q \in Weeks : IsWeek(campaign'[d].week[q])
             /\ ~Exists(d)' => Planned(d)' = {}
             /\ \A q, r \in Planned(d)' :
                  q # r => Apart(campaign'[d].week[q], campaign'[d].week[r])
  <2>1. CASE d = c
    <3>1. campaign'[d] = row  BY <1>1, <2>1
    <3>2. Exists(d)'  BY <3>1 DEF Exists
    <3>3. \A q \in Weeks : IsWeek(row.week[q])  BY <1>3 DEF WeeksInv
    <3>4. ASSUME NEW q \in Planned(d)', NEW r \in Planned(d)', q # r
          PROVE  Apart(row.week[q], row.week[r])
      <4>1. q \in Weeks /\ r \in Weeks  BY DEF Planned
      <4>2. CASE q = p
        <5>1. r \in Planned(c) \ {p}  BY <1>4, <2>1, <3>4, <4>2
        <5>2. Apart(w, campaign[c].week[r])  BY <5>1
        <5>3. QED BY <1>3, <4>1, <4>2, <5>1, <5>2
      <4>3. CASE r = p
        <5>1. q \in Planned(c) \ {p}  BY <1>4, <2>1, <3>4, <4>3
        <5>2. Apart(campaign[c].week[q], w)  BY <5>1
        <5>3. QED BY <1>3, <4>1, <4>3, <5>1, <5>2
      <4>4. CASE q # p /\ r # p
        <5>1. q \in Planned(c) /\ r \in Planned(c)  BY <1>4, <2>1, <4>4
        <5>2. Apart(campaign[c].week[q], campaign[c].week[r])  BY <3>4, <5>1 DEF WeeksInv
        <5>3. QED BY <1>3, <4>1, <4>4, <5>2
      <4>5. QED BY <4>2, <4>3, <4>4
    <3>5. QED BY <1>3, <3>1, <3>2, <3>3, <3>4
  <2>2. CASE d # c
    <3>1. campaign'[d] = campaign[d]  BY <1>1, <2>2
    <3>2. QED BY <1>5, <2>2, <3>1 DEF WeeksInv
  <2>3. QED BY <2>1, <2>2
<1>7. WeeksInv'  BY <1>2, <1>6 DEF WeeksInv
<1>8. ASSUME NEW d \in Campaigns, NEW q \in Weeks, NEW t \in Nat, Covers(q, d, t),
             campaign[d].week[q].state = "drawn"
      PROVE  WeeksAt(d, t)' = {q}
  <2>1. Covers(q, d, t)'
    <3>1. CASE d = c /\ q = p  BY <1>1, <1>3, <1>8, <3>1 DEF Covers
    <3>2. CASE d # c \/ q # p  BY <1>1, <1>3, <1>8, <3>2 DEF Covers
    <3>3. QED BY <3>1, <3>2
  <2>2. ASSUME NEW r \in Weeks, Covers(r, d, t)', r # q PROVE FALSE
    <3>1. q \in Planned(d)' /\ r \in Planned(d)'  BY <2>1, <2>2 DEF Covers, Planned
    <3>2. Apart(campaign'[d].week[q], campaign'[d].week[r])
          /\ IsWeek(campaign'[d].week[q]) /\ IsWeek(campaign'[d].week[r])
      BY <1>6, <2>2, <3>1
    <3>3. QED BY <2>1, <2>2, <3>2 DEF Covers, IsWeek, Apart
  <2>3. QED BY <2>1, <2>2 DEF WeeksAt
<1>9. QED BY <1>7, <1>8 DEF DrawnStay

\* What the services write to a campaign row apart from its weeks.
LEMMA FieldWritten ==
  ASSUME NEW r, IsCampaign(r), NEW x, NEW row,
         \/ row = [r EXCEPT !.clean = x] \/ row = [r EXCEPT !.decided = x]
         \/ row = [r EXCEPT !.paused = x] \/ row = [r EXCEPT !.version = x]
         \/ row = [r EXCEPT !.member = x]
  PROVE  IsCampaign(row) /\ row.week = r.week /\ row.status = r.status
BY DEF IsCampaign

LEMMA StatusWritten ==
  ASSUME NEW r, IsCampaign(r), NEW x
  PROVE  LET row == [r EXCEPT !.status = x]
         IN  IsCampaign(row) /\ row.week = r.week /\ row.status = x
BY DEF IsCampaign

LEMMA WeekFieldWritten ==
  ASSUME NEW r, IsCampaign(r), NEW x
  PROVE  LET row == [r EXCEPT !.week = x]
         IN  IsCampaign(row) /\ row.week = x /\ row.status = r.status
BY DEF IsCampaign

LEMMA FieldKeeps ==
  ASSUME WeeksInv, NEW c \in Campaigns, NEW x, NEW row,
         campaign' = [campaign EXCEPT ![c] = row],
         \/ row = [campaign[c] EXCEPT !.clean = x] \/ row = [campaign[c] EXCEPT !.decided = x]
         \/ row = [campaign[c] EXCEPT !.paused = x] \/ row = [campaign[c] EXCEPT !.version = x]
         \/ row = [campaign[c] EXCEPT !.member = x]
  PROVE  WeeksInv' /\ DrawnStay
<1> DEFINE r == campaign[c]
<1>1. IsCampaign(r) /\ (Exists(c) <=> r.status # "none")  BY DEF WeeksInv, Exists
<1>2. \/ row = [r EXCEPT !.clean = x] \/ row = [r EXCEPT !.decided = x]
      \/ row = [r EXCEPT !.paused = x] \/ row = [r EXCEPT !.version = x]
      \/ row = [r EXCEPT !.member = x]
  OBVIOUS
<1> HIDE DEF r
<1>3. IsCampaign(row) /\ row.week = r.week /\ row.status = r.status  BY <1>1, <1>2, FieldWritten
<1>4. QED BY <1>1, <1>3, RowWritten DEF r

LEMMA CampaignFieldSteps ==
  ASSUME WeeksInv, NEW c \in Campaigns,
         \/ \E flag \in Flag : UpdateCampaign(c, flag) \/ SetPauseFlags(c, flag) \/ UpsertDecision(c, flag)
         \/ \E members : SetCampaignOutlets(c, members) \/ ImportOutlets(c, members)
         \/ \E o \in Outlets : RemoveCampaignOutlet(c, o)
         \/ \E v \in Versions :
              \/ ActivateVersion(c, v)
              \/ \E sound \in Flag : CreateVersion(c, v, sound) \/ UpdateDraftVersion(c, v, sound)
  PROVE  WeeksInv' /\ DrawnStay
<1>1. ASSUME NEW flag, UpdateCampaign(c, flag) \/ SetPauseFlags(c, flag) \/ UpsertDecision(c, flag)
      PROVE  WeeksInv' /\ DrawnStay
  BY <1>1, FieldKeeps DEF UpdateCampaign, SetPauseFlags, UpsertDecision, SetCampaign
<1>2. ASSUME NEW members, SetCampaignOutlets(c, members) \/ ImportOutlets(c, members)
      PROVE  WeeksInv' /\ DrawnStay
  <2>1. PICK x : campaign' = [campaign EXCEPT ![c] = [campaign[c] EXCEPT !.member = x]]
    BY <1>2 DEF SetCampaignOutlets, ImportOutlets, SetCampaign
  <2>2. QED BY <2>1, FieldKeeps
<1>3. ASSUME NEW o, RemoveCampaignOutlet(c, o) PROVE WeeksInv' /\ DrawnStay
  <2>1. PICK x : campaign' = [campaign EXCEPT ![c] = [campaign[c] EXCEPT !.member = x]]
    BY <1>3 DEF RemoveCampaignOutlet, SetCampaign
  <2>2. QED BY <2>1, FieldKeeps
<1>4. ASSUME NEW v, NEW sound, CreateVersion(c, v, sound) PROVE WeeksInv' /\ DrawnStay
  <2>1. PICK x : campaign' = [campaign EXCEPT ![c] = [campaign[c] EXCEPT !.version = x]]
    BY <1>4 DEF CreateVersion, SetCampaign
  <2>2. QED BY <2>1, FieldKeeps
<1>5. ASSUME NEW v, NEW sound, UpdateDraftVersion(c, v, sound) PROVE WeeksInv' /\ DrawnStay
  <2>1. PICK x : campaign' = [campaign EXCEPT ![c] = [campaign[c] EXCEPT !.version = x]]
    BY <1>5 DEF UpdateDraftVersion, SetCampaign
  <2>2. QED BY <2>1, FieldKeeps
<1>6. ASSUME NEW v, ActivateVersion(c, v) PROVE WeeksInv' /\ DrawnStay
  <2>1. PICK x : campaign' = [campaign EXCEPT ![c] = [campaign[c] EXCEPT !.version = x]]
    BY <1>6 DEF ActivateVersion, SetCampaign
  <2>2. QED BY <2>1, FieldKeeps
<1>7. QED BY <1>1, <1>2, <1>3, <1>4, <1>5, <1>6

LEMMA PeriodKeeps ==
  ASSUME WeeksInv, NEW c \in Campaigns, NEW p \in Weeks, NEW w \in Windows, NEW state,
         UpsertPeriod(c, p, w[1], w[2], state)
  PROVE  WeeksInv' /\ DrawnStay
<1> DEFINE r == campaign[c]
           new == [state |-> state, from |-> w[1], to |-> w[2]]
           weeks == [r.week EXCEPT ![p] = new]
           row == [r EXCEPT !.week = weeks]
<1>1. IsCampaign(r) /\ r.status # "none" /\ Exists(c)  BY DEF WeeksInv, Exists, UpsertPeriod
<1>2. campaign' = [campaign EXCEPT ![c] = row]  BY DEF UpsertPeriod, SetCampaign
<1>3. IsWeek(new)  BY CampaignAssumption DEF IsWeek
<1>4. \A q \in Planned(c) \ {p} : Apart(new, r.week[q]) /\ Apart(r.week[q], new)
  BY DEF UpsertPeriod, Overlaps, Apart
<1>5. r.week[p].state # "drawn"  BY DEF UpsertPeriod
<1> HIDE DEF new
<1>6. weeks = [r.week EXCEPT ![p] = new]  OBVIOUS
<1> HIDE DEF weeks
<1>7. IsCampaign(row) /\ row.week = weeks /\ row.status = r.status  BY <1>1, WeekFieldWritten
<1> HIDE DEF row
<1>8. QED BY <1>1, <1>2, <1>3, <1>4, <1>5, <1>6, <1>7, WeekWritten

LEMMA PeriodStatusKeeps ==
  ASSUME WeeksInv, NEW c \in Campaigns, NEW p \in Weeks, NEW state \in {"closed", "drawn"},
         SetPeriodStatus(c, p, state)
  PROVE  WeeksInv' /\ DrawnStay
<1> DEFINE r == campaign[c]
           old == r.week[p]
           new == [old EXCEPT !.state = state]
           weeks == [r.week EXCEPT ![p] = new]
           row == [r EXCEPT !.week = weeks]
<1>1. IsCampaign(r) /\ IsWeek(old) /\ p \in Planned(c)  BY DEF WeeksInv, Planned, SetPeriodStatus
<1>2. r.status # "none" /\ Exists(c)  BY <1>1 DEF WeeksInv, Exists
<1>3. campaign' = [campaign EXCEPT ![c] = row]  BY DEF SetPeriodStatus, SetCampaign
<1>4. IsWeek(new) /\ new.state = state /\ new.from = old.from /\ new.to = old.to
  <2> HIDE DEF old
  <2>1. QED BY <1>1 DEF IsWeek
<1>5. \A q \in Planned(c) \ {p} : Apart(old, r.week[q]) /\ Apart(r.week[q], old)
  BY <1>1 DEF WeeksInv
<1> HIDE DEF new
<1>6. \A q \in Planned(c) \ {p} : Apart(new, r.week[q]) /\ Apart(r.week[q], new)
  BY <1>4, <1>5 DEF Apart
<1>7. weeks = [r.week EXCEPT ![p] = new]  OBVIOUS
<1> HIDE DEF weeks
<1>8. IsCampaign(row) /\ row.week = weeks /\ row.status = r.status  BY <1>1, WeekFieldWritten
<1> HIDE DEF row
<1>9. QED BY <1>1, <1>2, <1>3, <1>4, <1>6, <1>7, <1>8, WeekWritten

\* A campaign is made with no week, from nothing or as a copy.
LEMMA MadeKeeps ==
  ASSUME WeeksInv, NEW c \in Campaigns,
         CreateCampaign(c) \/ \E from \in Campaigns : CloneCampaign(from, c)
  PROVE  WeeksInv' /\ DrawnStay
<1>1. CASE CreateCampaign(c)
  <2> DEFINE row == [NoCampaign EXCEPT !.status = "draft"]
  <2>1. IsCampaign(row) /\ row.week = [p \in Weeks |-> NoWeek] /\ row.status = "draft"
    BY NoCampaignIs, StatusWritten
  <2>2. campaign' = [campaign EXCEPT ![c] = row] /\ ~Exists(c)  BY <1>1 DEF CreateCampaign, SetCampaign
  <2> HIDE DEF row
  <2>3. QED BY <2>1, <2>2, RowMade
<1>2. ASSUME NEW from, CloneCampaign(from, c) PROVE WeeksInv' /\ DrawnStay
  <2>1. PICK clean, version, member :
          campaign' = [campaign EXCEPT ![c] =
            [NoCampaign EXCEPT !.status = "draft", !.clean = clean, !.version = version, !.member = member]]
    <3>1. PICK v, w :
            SetCampaign(c, [NoCampaign EXCEPT
              !.status = "draft", !.clean = campaign[from].clean,
              !.version[v] = [state |-> "draft", sound |-> campaign[from].version[w].sound],
              !.member = [o \in Outlets |-> IF o \in Members(from) THEN campaign[from].member[o] ELSE "out"]])
      BY <1>2 DEF CloneCampaign
    <3>2. QED BY <3>1 DEF SetCampaign
  <2> DEFINE row == [NoCampaign EXCEPT !.status = "draft", !.clean = clean, !.version = version, !.member = member]
  <2>2. IsCampaign(row) /\ row.week = [p \in Weeks |-> NoWeek] /\ row.status = "draft"
    <3>1. IsCampaign(NoCampaign) /\ NoCampaign.week = [p \in Weeks |-> NoWeek]  BY NoCampaignIs
    <3>2. QED BY <3>1 DEF IsCampaign
  <2>3. ~Exists(c)  BY <1>2 DEF CloneCampaign
  <2>4. campaign' = [campaign EXCEPT ![c] = row]  BY <2>1
  <2> HIDE DEF row
  <2>5. QED BY <2>2, <2>3, <2>4, RowMade
<1>3. QED BY <1>1, <1>2

LEMMA StatusKeeps ==
  ASSUME WeeksInv, NEW c, NEW status \in {"active", "paused", "closed", "archived"},
         SetCampaignStatus(c, status)
  PROVE  WeeksInv' /\ DrawnStay
<1> DEFINE r == campaign[c]
           row == [r EXCEPT !.status = status]
<1>1. campaign' = [campaign EXCEPT ![c] = row]  BY DEF SetCampaignStatus, SetCampaign
<1>2. c \in Campaigns => IsCampaign(r)  BY DEF WeeksInv
<1>3. c \in Campaigns => IsCampaign(row) /\ row.week = r.week /\ row.status = status
  BY <1>2, StatusWritten
<1> HIDE DEF row
<1>4. QED BY <1>1, <1>3, RowWritten

LEMMA WeeksKeep == ASSUME WeeksInv, CampaignStep PROVE WeeksInv' /\ DrawnStay
<1>1. ASSUME UNCHANGED campaign PROVE WeeksInv' /\ DrawnStay
  <2>1. WeeksInv'  BY <1>1 DEF WeeksInv, Exists, Planned
  <2>2. \A c \in Campaigns, t \in Nat : WeeksAt(c, t)' = WeeksAt(c, t)  BY <1>1 DEF WeeksAt, Covers
  <2>3. QED BY <2>1, <2>2, AloneAt DEF DrawnStay
<1>2. ASSUME \/ UNCHANGED campaignVars \/ RecordEvidence
             \/ \E o \in Outlets, active \in Flag : UpsertOutlet(o, active)
      PROVE  WeeksInv' /\ DrawnStay
  BY <1>1, <1>2 DEF campaignVars, RecordEvidence, UpsertOutlet
<1>3. ASSUME NEW c \in Campaigns,
             \/ \E p \in Weeks, w \in Windows, state \in WeekStates : UpsertPeriod(c, p, w[1], w[2], state)
             \/ \E p \in Weeks, state \in {"closed", "drawn"} : SetPeriodStatus(c, p, state)
      PROVE  WeeksInv' /\ DrawnStay
  BY <1>3, PeriodKeeps, PeriodStatusKeeps
<1>4. ASSUME NEW c, \E status \in {"active", "paused", "closed", "archived"} : SetCampaignStatus(c, status)
      PROVE  WeeksInv' /\ DrawnStay
  BY <1>4, StatusKeeps
<1>5. QED
  BY <1>2, <1>3, <1>4, MadeKeeps, CampaignFieldSteps DEF CampaignStep, Flag

\* An instant of a published week stays in that week alone, however the weeks around it
\* are created, moved or renamed, for any weeks and windows (upsertPeriod).
THEOREM DrawnWeeksStay == ServerSpec => DrawnWeeksStayPut
<1>1. ServerInit => WeeksInv  BY WeeksStart DEF ServerInit, Init
<1>2. WeeksInv /\ [ServerNext]_serverVars => WeeksInv' /\ DrawnStay
  BY ServerSteps, WeeksKeep DEF Steps
<1>3. DrawnStay =>
        [\A c \in Campaigns, p \in Weeks, t \in 0 .. 3 :
           campaign[c].week[p].state = "drawn" /\ Covers(p, c, t) => WeeksAt(c, t)' = {p}]_campaignVars
  BY DEF DrawnStay
<1>4. QED BY <1>1, <1>2, <1>3, PTL DEF ServerSpec, DrawnWeeksStayPut

\* ---- sums over finite sets
LEMMA LeastNumber ==
  ASSUME NEW T \in SUBSET Nat, T # {}
  PROVE  \E x \in T : \A y \in T : x <= y
<1> DEFINE R == OpToRel(<, Nat)
<1>1. PICK x \in T : \A y \in T : ~ (<<y, x>> \in R)
  <2>1. IsWellFoundedOn(R, Nat)  BY NatLessThanWellFounded
  <2> HIDE DEF R
  <2>2. QED BY <2>1, WFMin
<1>2. ASSUME NEW y \in T PROVE x <= y
  <2>1. ~ (<<y, x>> \in {ss \in Nat \X Nat : ss[1] < ss[2]})  BY <1>1 DEF OpToRel
  <2>2. QED BY <2>1
<1>3. QED BY <1>2

\* A family of finite sets has a smallest one: what fails of some set fails of one whose
\* smaller sets it holds of. The proofs about sums argue by it.
LEMMA SmallestSet ==
  ASSUME NEW W, W # {}, \A s \in W : IsFiniteSet(s)
  PROVE  \E s \in W : \A t \in W : Cardinality(s) <= Cardinality(t)
<1> DEFINE sizes == {Cardinality(s) : s \in W}
<1>1. sizes \in SUBSET Nat /\ sizes # {}  BY FS_CardinalityType
<1>2. PICK n \in sizes : \A m \in sizes : n <= m
  <2> HIDE DEF sizes
  <2>1. QED BY <1>1, LeastNumber
<1>3. QED BY <1>2

LEMMA Smaller ==
  ASSUME NEW S, IsFiniteSet(S), NEW x \in S
  PROVE  /\ IsFiniteSet(S \ {x}) /\ Cardinality(S \ {x}) < Cardinality(S)
         /\ Cardinality(S \ {x}) = Cardinality(S) - 1 /\ Cardinality(S) \in Nat
<1>1. Cardinality(S) \in Nat /\ Cardinality(S \ {x}) \in Nat /\ IsFiniteSet(S \ {x})
      /\ Cardinality(S \ {x}) = Cardinality(S) - 1
  BY FS_RemoveElement, FS_CardinalityType
<1>2. QED BY <1>1

\* What SumFunctionOnSet adds up: the element it takes from a set, and the equation of
\* the function it defines on a set of sets.
FirstOf(s) == CHOOSE x \in s : TRUE
AddedUp(f, T, F) == [s \in T |-> IF s = {} THEN 0 ELSE f[FirstOf(s)] + F[s \ {FirstOf(s)}]]

LEMMA TakenIsIn == ASSUME NEW s, s # {} PROVE FirstOf(s) \in s
BY DEF FirstOf

\* Such a function exists on the subsets of at most n elements, for every n.
Upto(S, n) == {s \in SUBSET S : Cardinality(s) <= n}
Summed(f, S, n) == \E F : F = AddedUp(f, Upto(S, n), F)

LEMMA SummedStarts == ASSUME NEW f, NEW S, IsFiniteSet(S) PROVE Summed(f, S, 0)
<1>1. \A s \in Upto(S, 0) : s = {}
  <2> SUFFICES ASSUME NEW s \in Upto(S, 0) PROVE s = {}  OBVIOUS
  <2>1. s \in SUBSET S /\ Cardinality(s) <= 0  BY DEF Upto
  <2>2. IsFiniteSet(s) /\ Cardinality(s) \in Nat  BY <2>1, FS_Subset, FS_CardinalityType
  <2>3. QED BY <2>1, <2>2, FS_EmptySet
<1> DEFINE F == [s \in Upto(S, 0) |-> 0]
<1>2. F = AddedUp(f, Upto(S, 0), F)  BY <1>1 DEF AddedUp
<1>3. QED BY <1>2 DEF Summed

LEMMA SummedGoesOn ==
  ASSUME NEW f, NEW S, IsFiniteSet(S), NEW n \in Nat, Summed(f, S, n)
  PROVE  Summed(f, S, n + 1)
<1>1. PICK F : F = AddedUp(f, Upto(S, n), F)  BY DEF Summed
<1>2. PICK G : G = AddedUp(f, Upto(S, n + 1), F)  OBVIOUS
<1>3. \A s \in Upto(S, n) : s \in Upto(S, n + 1) /\ G[s] = F[s]
  <2> SUFFICES ASSUME NEW s \in Upto(S, n) PROVE s \in Upto(S, n + 1) /\ G[s] = F[s]  OBVIOUS
  <2>1. s \in SUBSET S /\ Cardinality(s) <= n  BY DEF Upto
  <2>2. Cardinality(s) \in Nat  BY <2>1, FS_Subset, FS_CardinalityType
  <2>3. s \in Upto(S, n + 1)  BY <2>1, <2>2 DEF Upto
  <2>4. F[s] = IF s = {} THEN 0 ELSE f[FirstOf(s)] + F[s \ {FirstOf(s)}]  BY <1>1 DEF AddedUp
  <2>5. G[s] = IF s = {} THEN 0 ELSE f[FirstOf(s)] + F[s \ {FirstOf(s)}]  BY <1>2, <2>3 DEF AddedUp
  <2>6. QED BY <2>3, <2>4, <2>5
<1>4. \A s \in Upto(S, n + 1) : s # {} => s \ {FirstOf(s)} \in Upto(S, n)
  <2> SUFFICES ASSUME NEW s \in Upto(S, n + 1), s # {} PROVE s \ {FirstOf(s)} \in Upto(S, n)  OBVIOUS
  <2>1. s \in SUBSET S /\ Cardinality(s) <= n + 1 /\ IsFiniteSet(s)  BY FS_Subset DEF Upto
  <2>2. FirstOf(s) \in s  BY TakenIsIn
  <2>3. Cardinality(s \ {FirstOf(s)}) = Cardinality(s) - 1 /\ Cardinality(s) \in Nat
    BY <2>1, <2>2, Smaller
  <2>4. Cardinality(s \ {FirstOf(s)}) <= n  BY <2>1, <2>3
  <2>5. QED BY <2>1, <2>4 DEF Upto
<1>5. G = AddedUp(f, Upto(S, n + 1), G)
  <2>1. \A s \in Upto(S, n + 1) : s # {} => F[s \ {FirstOf(s)}] = G[s \ {FirstOf(s)}]
    BY <1>3, <1>4
  <2>2. QED BY <1>2, <2>1 DEF AddedUp
<1>6. QED BY <1>5 DEF Summed

LEMMA SummedAll == ASSUME NEW f, NEW S, IsFiniteSet(S), NEW n \in Nat PROVE Summed(f, S, n)
<1> DEFINE missing == {m \in Nat : ~Summed(f, S, m)}
<1> SUFFICES ASSUME missing # {} PROVE FALSE  OBVIOUS
<1>1. PICK m \in missing : \A k \in missing : m <= k
  <2>1. missing \in SUBSET Nat  OBVIOUS
  <2> HIDE DEF missing
  <2>2. QED BY <2>1, LeastNumber
<1>2. m \in Nat /\ ~Summed(f, S, m)  OBVIOUS
<1>3. m # 0  BY <1>2, SummedStarts
<1>4. m - 1 \in Nat /\ m = (m - 1) + 1 /\ ~(m <= m - 1)  BY <1>2, <1>3
<1>5. Summed(f, S, m - 1)  BY <1>1, <1>4
<1>6. Summed(f, S, (m - 1) + 1)  BY <1>4, <1>5, SummedGoesOn
<1>7. QED BY <1>2, <1>4, <1>6

\* So the one that the sum over S is taken from obeys its equation.
Sums(f, S) == CHOOSE F : F = AddedUp(f, SUBSET S, F)

LEMMA SumsUnfold ==
  ASSUME NEW f, NEW S, IsFiniteSet(S)
  PROVE  Sums(f, S) = AddedUp(f, SUBSET S, Sums(f, S))
<1>1. Cardinality(S) \in Nat  BY FS_CardinalityType
<1>2. Upto(S, Cardinality(S)) = SUBSET S
  <2>1. \A s \in SUBSET S : Cardinality(s) <= Cardinality(S)  BY FS_Subset
  <2>2. QED BY <2>1 DEF Upto
<1>3. \E F : F = AddedUp(f, SUBSET S, F)  BY <1>1, <1>2, SummedAll DEF Summed
<1>4. QED BY <1>3 DEF Sums

LEMMA SumIs == ASSUME NEW f, NEW S PROVE SumFunctionOnSet(f, S) = Sums(f, S)[S]
BY DEF SumFunctionOnSet, FoldFunctionOnSet, MapThenFoldSet, Sums, AddedUp, FirstOf

LEMMA SumsOf ==
  ASSUME NEW f, NEW S, IsFiniteSet(S), NEW s \in SUBSET S
  PROVE  Sums(f, S)[s] = IF s = {} THEN 0 ELSE f[FirstOf(s)] + Sums(f, S)[s \ {FirstOf(s)}]
<1> DEFINE F == Sums(f, S)
<1>1. F = AddedUp(f, SUBSET S, F)  BY SumsUnfold
<1> HIDE DEF F
<1>2. F[s] = IF s = {} THEN 0 ELSE f[FirstOf(s)] + F[s \ {FirstOf(s)}]  BY <1>1 DEF AddedUp
<1>3. QED BY <1>2 DEF F

\* It does not matter in which larger set a set's sum is taken.
LEMMA SumsAgree ==
  ASSUME NEW f, NEW S, IsFiniteSet(S), NEW T \in SUBSET S, NEW s \in SUBSET T
  PROVE  Sums(f, S)[s] = Sums(f, T)[s]
<1>1. IsFiniteSet(T)  BY FS_Subset
<1> DEFINE bad == {t \in SUBSET T : Sums(f, S)[t] # Sums(f, T)[t]}
<1> SUFFICES ASSUME bad # {} PROVE FALSE  OBVIOUS
<1>2. \A t \in bad : IsFiniteSet(t)  BY <1>1, FS_Subset
<1>3. PICK t \in bad : \A u \in bad : Cardinality(t) <= Cardinality(u)
  <2> HIDE DEF bad
  <2>1. QED BY <1>2, SmallestSet
<1>4. t \in SUBSET T /\ t \in SUBSET S /\ Sums(f, S)[t] # Sums(f, T)[t] /\ IsFiniteSet(t)  BY <1>2
<1>5. Sums(f, S)[t] = IF t = {} THEN 0 ELSE f[FirstOf(t)] + Sums(f, S)[t \ {FirstOf(t)}]
  BY <1>4, SumsOf
<1>6. Sums(f, T)[t] = IF t = {} THEN 0 ELSE f[FirstOf(t)] + Sums(f, T)[t \ {FirstOf(t)}]
  BY <1>1, <1>4, SumsOf
<1>7. t # {} /\ FirstOf(t) \in t  BY <1>4, <1>5, <1>6, TakenIsIn
<1> DEFINE v == t \ {FirstOf(t)}
<1>8. /\ v \in SUBSET T /\ Cardinality(v) \in Nat /\ Cardinality(t) \in Nat
      /\ Cardinality(v) < Cardinality(t)
  BY <1>4, <1>7, Smaller, FS_CardinalityType
<1>9. v \notin bad
  <2> HIDE DEF bad, v
  <2>1. ~(Cardinality(t) <= Cardinality(v))  BY <1>8
  <2>2. QED BY <1>3, <2>1
<1>10. Sums(f, S)[v] = Sums(f, T)[v]  BY <1>8, <1>9
<1>11. QED BY <1>4, <1>5, <1>6, <1>7, <1>10

LEMMA SumOfNone == ASSUME NEW f PROVE SumFunctionOnSet(f, {}) = 0
BY SumIs, SumsOf, FS_EmptySet

LEMMA SumTakesChosen ==
  ASSUME NEW f, NEW S, IsFiniteSet(S), S # {}
  PROVE  /\ FirstOf(S) \in S
         /\ SumFunctionOnSet(f, S) = f[FirstOf(S)] + SumFunctionOnSet(f, S \ {FirstOf(S)})
<1> DEFINE v == S \ {FirstOf(S)}
<1>1. Sums(f, S)[S] = f[FirstOf(S)] + Sums(f, S)[v]  BY SumsOf
<1>2. Sums(f, S)[v] = Sums(f, v)[v]  BY SumsAgree
<1>3. QED BY <1>1, <1>2, SumIs, TakenIsIn

LEMMA SumIsNat ==
  ASSUME NEW f, NEW S, IsFiniteSet(S), \A x \in S : f[x] \in Nat
  PROVE  SumFunctionOnSet(f, S) \in Nat
<1> DEFINE bad == {t \in SUBSET S : SumFunctionOnSet(f, t) \notin Nat}
<1> SUFFICES ASSUME bad # {} PROVE FALSE  OBVIOUS
<1>1. \A t \in bad : IsFiniteSet(t)  BY FS_Subset
<1>2. PICK t \in bad : \A u \in bad : Cardinality(t) <= Cardinality(u)
  <2> HIDE DEF bad
  <2>1. QED BY <1>1, SmallestSet
<1>3. t \in SUBSET S /\ IsFiniteSet(t) /\ SumFunctionOnSet(f, t) \notin Nat  BY <1>1
<1>4. t # {}  BY <1>3, SumOfNone
<1>5. /\ FirstOf(t) \in t
      /\ SumFunctionOnSet(f, t) = f[FirstOf(t)] + SumFunctionOnSet(f, t \ {FirstOf(t)})
  BY <1>3, <1>4, SumTakesChosen
<1> DEFINE v == t \ {FirstOf(t)}
<1>6. v \in SUBSET S /\ Cardinality(v) < Cardinality(t) /\ Cardinality(v) \in Nat /\ Cardinality(t) \in Nat
  BY <1>3, <1>5, Smaller, FS_CardinalityType
<1>7. v \notin bad
  <2> HIDE DEF bad, v
  <2>1. ~(Cardinality(t) <= Cardinality(v))  BY <1>6
  <2>2. QED BY <1>2, <2>1
<1>8. SumFunctionOnSet(f, v) \in Nat  BY <1>6, <1>7
<1>9. f[FirstOf(t)] \in Nat  BY <1>3, <1>5
<1>10. QED BY <1>3, <1>5, <1>8, <1>9

LEMMA Reorders == ASSUME NEW a \in Nat, NEW b \in Nat, NEW c \in Nat PROVE a + (b + c) = b + (a + c)
OBVIOUS

\* Any element may be taken first.
LEMMA SumTakes ==
  ASSUME NEW f, NEW S, IsFiniteSet(S), \A y \in S : f[y] \in Nat, NEW x \in S
  PROVE  SumFunctionOnSet(f, S) = f[x] + SumFunctionOnSet(f, S \ {x})
<1> DEFINE Sum(t) == SumFunctionOnSet(f, t)
           bad == {t \in SUBSET S : \E y \in t : Sum(t) # f[y] + Sum(t \ {y})}
<1> SUFFICES ASSUME bad # {} PROVE FALSE  OBVIOUS
<1>1. \A t \in bad : IsFiniteSet(t)  BY FS_Subset
<1>2. PICK t \in bad : \A u \in bad : Cardinality(t) <= Cardinality(u)
  <2> HIDE DEF bad
  <2>1. QED BY <1>1, SmallestSet
<1>3. t \in SUBSET S /\ IsFiniteSet(t)  BY <1>1
<1>4. PICK y \in t : Sum(t) # f[y] + Sum(t \ {y})  OBVIOUS
<1>5. PICK c : c = FirstOf(t)  OBVIOUS
<1>6. c \in t /\ Sum(t) = f[c] + Sum(t \ {c})  BY <1>3, <1>4, <1>5, SumTakesChosen
<1>7. c # y  BY <1>4, <1>6
<1>8. ASSUME NEW z \in t, NEW w \in t \ {z}
      PROVE  Sum(t \ {z}) = f[w] + Sum((t \ {z}) \ {w})
  <2>1. t \ {z} \in SUBSET S  BY <1>3
  <2>2. Cardinality(t \ {z}) < Cardinality(t) /\ Cardinality(t \ {z}) \in Nat /\ Cardinality(t) \in Nat
    BY <1>3, Smaller, FS_CardinalityType
  <2>3. t \ {z} \notin bad
    <3> HIDE DEF bad
    <3>1. ~(Cardinality(t) <= Cardinality(t \ {z}))  BY <2>2
    <3>2. QED BY <1>2, <3>1
  <2>4. QED BY <2>1, <2>3
<1> DEFINE rest == (t \ {c}) \ {y}
<1>9. rest = (t \ {y}) \ {c}  OBVIOUS
<1>10. Sum(t \ {c}) = f[y] + Sum(rest)  BY <1>6, <1>7, <1>8
<1>11. Sum(t \ {y}) = f[c] + Sum(rest)  BY <1>6, <1>7, <1>8, <1>9
<1>12. f[c] \in Nat /\ f[y] \in Nat  BY <1>3, <1>6
<1>13. Sum(rest) \in Nat
  <2>1. rest \in SUBSET S /\ IsFiniteSet(rest)  BY <1>3, FS_Subset
  <2> HIDE DEF rest
  <2>2. \A u \in rest : f[u] \in Nat  BY <2>1
  <2>3. QED BY <2>1, <2>2, SumIsNat
<1> HIDE DEF rest, Sum, bad
<1>14. f[c] + (f[y] + Sum(rest)) = f[y] + (f[c] + Sum(rest))  BY <1>12, <1>13, Reorders
<1>15. QED BY <1>4, <1>6, <1>10, <1>11, <1>14

\* A sum does not shrink when its set grows and what is added up does.
LEMMA SumGrows ==
  ASSUME NEW f, NEW g, NEW T, IsFiniteSet(T), NEW S \in SUBSET T,
         \A x \in S : f[x] \in Nat /\ f[x] <= g[x], \A x \in T : g[x] \in Nat
  PROVE  SumFunctionOnSet(f, S) <= SumFunctionOnSet(g, T)
<1> DEFINE F(t) == SumFunctionOnSet(f, t)
           G(t) == SumFunctionOnSet(g, t)
           bad == {t \in SUBSET T : \E s \in SUBSET S : s \subseteq t /\ ~(F(s) <= G(t))}
<1> SUFFICES ASSUME bad # {} PROVE FALSE  OBVIOUS
<1>1. \A t \in bad : IsFiniteSet(t)  BY FS_Subset
<1>2. PICK t \in bad : \A u \in bad : Cardinality(t) <= Cardinality(u)
  <2> HIDE DEF bad
  <2>1. QED BY <1>1, SmallestSet
<1>3. t \in SUBSET T /\ IsFiniteSet(t)  BY <1>1
<1>4. PICK s \in SUBSET S : s \subseteq t /\ ~(F(s) <= G(t))  OBVIOUS
<1>5. CASE t = {}
  <2>1. F({}) = 0 /\ G({}) = 0  BY SumOfNone
  <2>2. s = {}  BY <1>4, <1>5
  <2>3. F(s) = 0 /\ G(t) = 0  BY <1>5, <2>1, <2>2
  <2> HIDE DEF F, G
  <2>4. QED BY <1>4, <2>3
<1>6. CASE t # {}
  <2>1. PICK x : x \in t  BY <1>6
  <2>2. PICK u : u = t \ {x}  OBVIOUS
  <2>3. Cardinality(u) < Cardinality(t) /\ Cardinality(u) \in Nat /\ Cardinality(t) \in Nat /\ IsFiniteSet(u)
    BY <1>3, <2>1, <2>2, Smaller, FS_CardinalityType
  <2>4. u \notin bad
    <3> HIDE DEF bad
    <3>1. ~(Cardinality(t) <= Cardinality(u))  BY <2>3
    <3>2. QED BY <1>2, <3>1
  <2>5. u \in SUBSET T  BY <1>3, <2>2
  <2>6. \A v \in SUBSET S : v \subseteq u => F(v) <= G(u)  BY <2>4, <2>5
  <2>7. \A y \in t : g[y] \in Nat  BY <1>3
  <2>8. G(t) = g[x] + G(u)  BY <1>3, <2>1, <2>2, <2>7, SumTakes
  <2>9. \A y \in u : g[y] \in Nat  BY <2>2, <2>7
  <2>10. G(u) \in Nat /\ g[x] \in Nat  BY <2>1, <2>3, <2>7, <2>9, SumIsNat
  <2>11. CASE x \in s
    <3>1. PICK v : v = s \ {x}  OBVIOUS
    <3>2. IsFiniteSet(s)  BY <1>3, <1>4, FS_Subset
    <3>3. IsFiniteSet(v)  BY <3>1, <3>2, FS_Subset
    <3>4. \A y \in s : f[y] \in Nat  BY <1>4
    <3>5. \A y \in v : f[y] \in Nat  BY <3>1, <3>4
    <3>6. F(s) = f[x] + F(v)  BY <2>11, <3>1, <3>2, <3>4, SumTakes
    <3>7. F(v) \in Nat  BY <3>3, <3>5, SumIsNat
    <3>8. F(v) <= G(u)  BY <1>4, <2>2, <2>6, <3>1
    <3>9. f[x] <= g[x] /\ f[x] \in Nat  BY <1>4, <2>11
    <3> HIDE DEF F, G, bad
    <3>10. f[x] + F(v) <= g[x] + G(u)  BY <2>10, <3>7, <3>8, <3>9
    <3>11. QED BY <1>4, <2>8, <3>6, <3>10
  <2>12. CASE x \notin s
    <3>1. F(s) <= G(u)  BY <1>4, <2>2, <2>6, <2>12
    <3>2. IsFiniteSet(s)  BY <1>3, <1>4, FS_Subset
    <3>3. F(s) \in Nat  BY <1>4, <3>2, SumIsNat
    <3> HIDE DEF F, G, bad
    <3>4. F(s) <= g[x] + G(u)  BY <2>10, <3>1, <3>3
    <3>5. QED BY <1>4, <2>8, <3>4
  <2>13. QED BY <2>11, <2>12
<1>7. QED BY <1>5, <1>6

\* ---- the rules
\* Among finitely many things with a number there is one with the largest.
LEMMA LargestNumber ==
  ASSUME NEW T, IsFiniteSet(T), T # {}, NEW size, \A x \in T : size[x] \in Nat
  PROVE  \E x \in T : \A y \in T : size[y] <= size[x]
<1> DEFINE bad == {t \in SUBSET T : t # {} /\ ~\E x \in t : \A y \in t : size[y] <= size[x]}
<1> SUFFICES ASSUME bad # {} PROVE FALSE  OBVIOUS
<1>1. \A t \in bad : IsFiniteSet(t)  BY FS_Subset
<1>2. PICK t \in bad : \A u \in bad : Cardinality(t) <= Cardinality(u)
  <2> HIDE DEF bad
  <2>1. QED BY <1>1, SmallestSet
<1>3. t \in SUBSET T /\ IsFiniteSet(t) /\ t # {}  BY <1>1
<1>4. PICK z : z \in t  BY <1>3
<1>5. PICK u : u = t \ {z}  OBVIOUS
<1>6. u \notin bad
  <2>1. Cardinality(u) < Cardinality(t) /\ Cardinality(u) \in Nat /\ Cardinality(t) \in Nat
    BY <1>3, <1>4, <1>5, Smaller, FS_CardinalityType
  <2> HIDE DEF bad
  <2>2. ~(Cardinality(t) <= Cardinality(u))  BY <2>1
  <2>3. QED BY <1>2, <2>2
<1>7. \A x \in t : size[x] \in Nat  BY <1>3
<1>8. CASE u = {}
  <2>1. \A y \in t : size[y] <= size[z]  BY <1>4, <1>5, <1>7, <1>8
  <2>2. QED BY <1>4, <2>1
<1>9. CASE u # {}
  <2>1. PICK x \in u : \A y \in u : size[y] <= size[x]  BY <1>3, <1>5, <1>6, <1>9
  <2>2. x \in t /\ size[x] \in Nat /\ size[z] \in Nat  BY <1>4, <1>5, <1>7
  <2>3. CASE size[z] <= size[x]
    <3>1. \A y \in t : size[y] <= size[x]  BY <1>5, <2>1, <2>3
    <3>2. QED BY <2>2, <3>1
  <2>4. CASE ~(size[z] <= size[x])
    <3>1. \A y \in t : size[y] <= size[z]
      <4> SUFFICES ASSUME NEW y \in t PROVE size[y] <= size[z]  OBVIOUS
      <4>1. size[y] \in Nat  BY <1>7
      <4>2. y = z \/ size[y] <= size[x]  BY <1>5, <2>1
      <4>3. QED BY <2>2, <2>4, <4>1, <4>2
    <3>2. QED BY <1>4, <3>1
  <2>5. QED BY <2>3, <2>4
<1>10. QED BY <1>8, <1>9

LEMMA CatalogueIsFinite == IsFiniteSet(Skus \X Keys) /\ IsFiniteSet(PackSizes)
<1> DEFINE keysOf == [p \in Skus |-> KeysOf[p]]
<1>1. keysOf \in Surjection(Skus, {KeysOf[p] : p \in Skus})  BY DEF Surjection
<1>2. IsFiniteSet({KeysOf[p] : p \in Skus})
  <2> HIDE DEF keysOf
  <2>1. QED BY <1>1, EligibilityAssumption, FS_Surjection
<1>3. IsFiniteSet(Keys)  BY <1>2, EligibilityAssumption, FS_UNION DEF Keys
<1>4. Grams \in Surjection(Skus, PackSizes)  BY EligibilityAssumption DEF Surjection, PackSizes
<1>5. IsFiniteSet(PackSizes)  BY <1>4, EligibilityAssumption, FS_Surjection
<1>6. QED BY <1>3, <1>5, EligibilityAssumption, FS_Product

LEMMA BestIsACandidate ==
  ASSUME NEW line, Matches(line)
  PROVE  Best(line) \in Candidates(line)
<1> DEFINE length == [c \in Candidates(line) |-> KeyLength[c[2]]]
<1>1. IsFiniteSet(Candidates(line))
  <2>1. Candidates(line) \in SUBSET (Skus \X Keys)  BY DEF Candidates
  <2>2. QED BY <2>1, CatalogueIsFinite, FS_Subset
<1>2. \A c \in Candidates(line) : length[c] \in Nat  BY EligibilityAssumption DEF Candidates
<1>3. PICK c \in Candidates(line) : \A d \in Candidates(line) : length[d] <= length[c]
  <2> HIDE DEF length
  <2>1. QED BY <1>1, <1>2, LargestNumber DEF Matches
<1>4. \A d \in Candidates(line) : KeyLength[d[2]] <= KeyLength[c[2]]  BY <1>3
<1>5. QED BY <1>4 DEF Best

\* Where only one pack size is sold.
LEMMA OnlySize ==
  ASSUME NEW p \in Skus, ~(Cardinality(PackSizes) > 1)
  PROVE  PackSizes = {Grams[p]}
<1>1. Grams[p] \in PackSizes /\ IsFiniteSet(PackSizes)  BY CatalogueIsFinite DEF PackSizes
<1>2. ASSUME NEW q \in PackSizes, q # Grams[p] PROVE FALSE
  <2>1. IsFiniteSet({q}) /\ Cardinality({q}) = 1  BY FS_Singleton
  <2>2. IsFiniteSet({q} \cup {Grams[p]}) /\ Cardinality({q} \cup {Grams[p]}) = Cardinality({q}) + 1
    BY <1>2, <2>1, FS_AddElement
  <2>3. {q} \cup {Grams[p]} \in SUBSET PackSizes  BY <1>1
  <2>4. Cardinality({q} \cup {Grams[p]}) <= Cardinality(PackSizes)  BY <1>1, <2>3, FS_Subset
  <2>5. Cardinality(PackSizes) \in Nat  BY <1>1, FS_CardinalityType
  <2>6. QED BY <2>1, <2>2, <2>4, <2>5
<1>3. QED BY <1>1, <1>2

\* A size the rules settle on is the only one the line can have been of.
LEMMA SettledSize ==
  ASSUME NEW line \in TillLine, PrintsItsKeys(line), Matches(line), PackOf(line) # 0
  PROVE  Readings(line) = {PackOf(line)}
<1>1. CASE line.says # 0  BY <1>1 DEF Readings, PackOf
<1>2. CASE line.says = 0
  <2>1. PICK b : b = Best(line)  OBVIOUS
  <2>2. b \in Skus \X Keys /\ b[2] \in line.has  BY <2>1, BestIsACandidate DEF Candidates
  <2>3. KeySays[b[2]] = 0  BY <1>2, <2>2 DEF PrintsItsKeys
  <2>4. ~PackAmbiguous(b) /\ PackOf(line) = Grams[b[1]]  BY <1>2, <2>1 DEF PackOf
  <2>5. ~(Cardinality(PackSizes) > 1)  BY <2>3, <2>4 DEF PackAmbiguous
  <2>6. b[1] \in Skus  BY <2>2
  <2>7. PackSizes = {Grams[b[1]]}  BY <2>5, <2>6, OnlySize
  <2>8. QED BY <1>2, <2>4, <2>7 DEF Readings
<1>3. QED BY <1>1, <1>2

LEMMA ReadingsAreNat == ASSUME NEW line \in TillLine PROVE Readings(line) \subseteq Nat
BY EligibilityAssumption DEF Readings, TillLine, PackSizes

LEMMA ProductsGrow ==
  ASSUME NEW a \in Nat, NEW b \in Nat, NEW c \in Nat, a <= b
  PROVE  a * c <= b * c
<1>1. PICK d \in Nat : b = a + d
  <2>1. b - a \in Nat /\ b = a + (b - a)  OBVIOUS
  <2>2. QED BY <2>1
<1>2. (a + d) * c = a * c + d * c /\ a * c \in Nat /\ d * c \in Nat  OBVIOUS
<1>3. QED BY <1>1, <1>2

\* More packs and more grams are still enough.
Amounts == [minPacks : Nat, packGrams : Nat, minTotal : Nat, combinations : BOOLEAN, cap : Nat]
LEMMA EnoughGrows ==
  ASSUME NEW r \in Amounts, NEW a \in Nat, NEW b \in Nat, a <= b, NEW c \in Nat, NEW d \in Nat, c <= d,
         Enough(a, c, r)
  PROVE  Enough(b, d, r)
<1>1. r.minPacks \in Nat /\ r.packGrams \in Nat /\ r.minTotal \in Nat  BY DEF Amounts
<1>2. a * r.packGrams <= b * r.packGrams  BY <1>1, ProductsGrow
<1>3. a * r.packGrams \in Nat /\ b * r.packGrams \in Nat  BY <1>1
<1>4. CASE a >= r.minPacks /\ a * r.packGrams >= r.minTotal
  <2>1. b >= r.minPacks  BY <1>1, <1>4
  <2>2. b * r.packGrams >= r.minTotal
    <3>1. PICK x \in Nat : x = a * r.packGrams  BY <1>3
    <3>2. PICK y \in Nat : y = b * r.packGrams  BY <1>3
    <3>3. x <= y /\ x >= r.minTotal  BY <1>2, <1>4, <3>1, <3>2
    <3>4. y >= r.minTotal  BY <1>1, <3>3
    <3>5. QED BY <3>2, <3>4
  <2>3. QED BY <2>1, <2>2 DEF Enough
<1>5. CASE r.combinations /\ c >= r.minTotal
  <2>1. d >= r.minTotal  BY <1>1, <1>5
  <2>2. QED BY <1>5, <2>1 DEF Enough
<1>6. QED BY <1>4, <1>5 DEF Enough

LEMMA CreditIsCertain ==
  ASSUME NEW lines \in Seq(TillLine), \A i \in DOMAIN lines : PrintsItsKeys(lines[i]),
         NEW r \in Amounts, Enough(PrimaryPacks(lines, r), TotalGrams(lines), r)
  PROVE  CertainlyEnough(lines, r)
<1> SUFFICES ASSUME NEW size, \A i \in DOMAIN lines : size[i] \in Readings(lines[i])
             PROVE  BoughtEnough(lines, size, r)
  BY DEF CertainlyEnough
<1>1. \A i \in DOMAIN lines : lines[i] \in TillLine  OBVIOUS
<1>2. IsFiniteSet(DOMAIN lines)
  <2>1. DOMAIN lines = 1 .. Len(lines) /\ Len(lines) \in Nat  OBVIOUS
  <2>2. 1 \in Int /\ Len(lines) \in Int  BY <2>1
  <2>3. QED BY <2>1, <2>2, FS_Interval
<1>3. \A i \in DOMAIN lines : size[i] \in Nat /\ lines[i].quantity \in Nat
  BY <1>1, ReadingsAreNat DEF TillLine
<1>4. ASSUME NEW i \in Settled(lines)
      PROVE  i \in DOMAIN lines /\ i \in Counted(lines) /\ size[i] = PackOf(lines[i])
  <2>1. i \in DOMAIN lines /\ i \in Counted(lines) /\ Matches(lines[i]) /\ PackOf(lines[i]) # 0
    BY DEF Settled, Counted, Unsettled
  <2>2. size[i] \in {PackOf(lines[i])}  BY <1>1, <2>1, SettledSize
  <2>3. QED BY <2>1, <2>2
<1>5. Counted(lines) \in SUBSET DOMAIN lines /\ IsFiniteSet(Counted(lines))
  <2>1. Counted(lines) \in SUBSET DOMAIN lines  BY DEF Counted
  <2>2. QED BY <1>2, <2>1, FS_Subset
<1> DEFINE few == {i \in Settled(lines) : PackOf(lines[i]) = r.packGrams}
           all == {i \in Counted(lines) : size[i] = r.packGrams}
           q == Packs(lines)
           f == [i \in Settled(lines) |-> lines[i].quantity * PackOf(lines[i])]
           g == [i \in Counted(lines) |-> lines[i].quantity * size[i]]
<1>6. /\ SumFunctionOnSet(q, few) <= SumFunctionOnSet(q, all)
      /\ SumFunctionOnSet(q, few) \in Nat /\ SumFunctionOnSet(q, all) \in Nat
  <2>1. few \in SUBSET all /\ all \in SUBSET Counted(lines)  BY <1>4
  <2>2. IsFiniteSet(all) /\ IsFiniteSet(few)  BY <1>5, <2>1, FS_Subset
  <2>3. \A i \in all : q[i] \in Nat /\ q[i] <= q[i]  BY <1>3, <1>5 DEF Packs
  <2>4. \A i \in few : q[i] \in Nat /\ q[i] <= q[i]  BY <2>1, <2>3
  <2> HIDE DEF few, all, q
  <2>5. QED BY <2>1, <2>2, <2>3, <2>4, SumGrows, SumIsNat
<1>7. /\ SumFunctionOnSet(f, Settled(lines)) <= SumFunctionOnSet(g, Counted(lines))
      /\ SumFunctionOnSet(f, Settled(lines)) \in Nat /\ SumFunctionOnSet(g, Counted(lines)) \in Nat
  <2>1. Settled(lines) \in SUBSET Counted(lines)  BY DEF Settled
  <2>2. IsFiniteSet(Settled(lines))  BY <1>5, <2>1, FS_Subset
  <2>3. \A i \in Counted(lines) : g[i] \in Nat  BY <1>3, <1>5
  <2>4. \A i \in Settled(lines) : f[i] = g[i]  BY <1>4
  <2>5. ASSUME NEW i \in Settled(lines) PROVE f[i] \in Nat /\ f[i] <= g[i]
    <3>1. i \in Counted(lines)  BY <2>1
    <3>2. g[i] \in Nat /\ f[i] = g[i]  BY <2>3, <2>4, <3>1
    <3> HIDE DEF f, g
    <3>3. QED BY <3>2
  <2> HIDE DEF f, g
  <2>6. QED BY <1>5, <2>1, <2>2, <2>3, <2>5, SumGrows, SumIsNat
<1>8. Enough(SumFunctionOnSet(q, few), SumFunctionOnSet(f, Settled(lines)), r)
  BY DEF PrimaryPacks, TotalGrams
<1> HIDE DEF few, all, q, f, g
<1>9. Enough(SumFunctionOnSet(q, all), SumFunctionOnSet(g, Counted(lines)), r)
  BY <1>6, <1>7, <1>8, EnoughGrows
<1>10. QED BY <1>9 DEF BoughtEnough, q, all, g

LEMMA QualifiedPasses ==
  ASSUME NEW f, NEW lines, NEW r, NEW w, Evaluate(f, lines, r, w) = "QUALIFIED"
  PROVE  Enough(PrimaryPacks(lines, r), TotalGrams(lines), r)
<1> DEFINE rs == Rules(f, lines, r, w)
<1>1. Outcomes(rs, "fail") = {} /\ Outcomes(rs, "unknown") = {}  BY DEF Evaluate, Disposition
<1>2. 11 \in DOMAIN rs /\ rs[11] = ProductRule(lines, r)  BY DEF Rules
<1> HIDE DEF rs
<1>3. ProductRule(lines, r) # "fail" /\ ProductRule(lines, r) # "unknown"  BY <1>1, <1>2 DEF Outcomes
<1>4. QED BY <1>3 DEF ProductRule

\* A verdict is what the live rules made of a receipt, and stays what they made of it.
Judged(f, till, r) == [disposition |-> Evaluate(f, till, r, PurchaseWindow), till |-> till, rules |-> r]
VerdictInv ==
  verdict = NoVerdict \/ \E x \in Readable, r \in RuleBook : verdict = Judged(x.facts, x.till, r)

LEMMA VerdictsStay == VerdictInv /\ VerdictStep => VerdictInv'
BY DEF VerdictInv, VerdictStep, Judge, Judged

(* No receipt is credited on a guess of a pack size: when the till prints    *)
(* every size that a key of the line prints, a purchase that the rules       *)
(* credit without a person meets the promotion's amount however the sizes    *)
(* the till left out are filled in (evaluateEligibility(), packAmbiguous).   *)
THEOREM NoGuessIsCredited == SizesArePrinted => (ServerSpec => []NoCreditOnAGuess)
<1> SUFFICES ASSUME SizesArePrinted PROVE ServerSpec => []NoCreditOnAGuess  OBVIOUS
<1>1. ServerInit => VerdictInv  BY DEF ServerInit, Init, VerdictInv
<1>2. VerdictInv /\ [ServerNext]_serverVars => VerdictInv'  BY ServerSteps, VerdictsStay DEF Steps
<1>3. VerdictInv => NoCreditOnAGuess
  <2> SUFFICES ASSUME VerdictInv, verdict.disposition = "QUALIFIED"
               PROVE  CertainlyEnough(verdict.till, verdict.rules)
    BY DEF NoCreditOnAGuess
  <2>1. verdict # NoVerdict  BY DEF NoVerdict
  <2>2. PICK x \in Readable, r \in RuleBook : verdict = Judged(x.facts, x.till, r)
    BY <2>1 DEF VerdictInv
  <2>3. /\ verdict.till = x.till /\ verdict.rules = r
        /\ Evaluate(x.facts, x.till, r, PurchaseWindow) = "QUALIFIED"
    BY <2>2 DEF Judged
  <2>4. Enough(PrimaryPacks(x.till, r), TotalGrams(x.till), r)  BY <2>3, QualifiedPasses
  <2>5. x.till \in Seq(TillLine) /\ r \in Amounts  BY ReadingAssumption DEF Amounts
  <2>6. \A i \in DOMAIN x.till : PrintsItsKeys(x.till[i])  BY DEF SizesArePrinted
  <2>7. QED BY <2>3, <2>4, <2>5, <2>6, CreditIsCertain
<1>4. QED BY <1>1, <1>2, <1>3, PTL DEF ServerSpec

=============================================================================
