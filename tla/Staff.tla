------------------------------- MODULE Staff -------------------------------
(* Named staff accounts (src/auth.mjs), their second factor (src/mfa.mjs)    *)
(* and the login brakes of src/server.mjs.  The operators of this module are *)
(* the service calls; Console authenticates, calls them and records them.    *)
EXTENDS Naturals, FiniteSets

CONSTANTS
  Admins, Bootstrap,       \* accounts, and the one made at the first start
  Sessions,                \* token ids, each issued at most once
  RoleSets,                \* the role lists administrators give
  Sources,                 \* client addresses a login comes from
  SourceHard, AccountHard, \* LOGIN_LIMITS, at which a login is refused
  MaxSecrets, MaxPasswords \* bounds: TOTP secrets, password changes

ASSUME StaffAssumption ==
  /\ Bootstrap \in Admins
  /\ SourceHard \in Nat /\ AccountHard \in Nat
  /\ SourceHard < AccountHard

VARIABLES
  account,    \* admin_users
  session,    \* auth_tokens, with what their holder was when they were issued
  challenge,  \* pendingMfa: who has shown a password and owes a code
  sourceHits, accountHits, \* the throttle: attempts in this and the last half window
  swept,      \* half windows since it last dropped a source's key, 2: a window or more
  secrets     \* how many secrets were generated

staffVars == <<account, session, challenge, sourceHits, accountHits, swept, secrets>>

Role == {"platform_admin", "campaign_manager", "draw_officer", "draw_approver"}
NoHits == [now |-> 0, before |-> 0]
NoSession == [user |-> Bootstrap, roles |-> {}, pw |-> 0, at |-> "unused"]

(* Secret 0 is none.                                                         *)
NoAccount ==
  [status |-> "none", roles |-> {}, temp |-> FALSE, pw |-> 0,
   factor |-> FALSE, secret |-> 0, pending |-> 0]
NewAccount(roles, temp) ==
  [NoAccount EXCEPT !.status = "active", !.roles = roles, !.temp = temp]

(* Another administrator may be there already, with a second factor.         *)
Enrolled == [NewAccount({"platform_admin"}, FALSE) EXCEPT !.factor = TRUE, !.secret = 1]

StaffInit ==
  /\ \E others \in {NoAccount, Enrolled} :
       account = [u \in Admins |->
         IF u = Bootstrap THEN NewAccount({"platform_admin"}, FALSE) ELSE others]
  /\ session = [t \in Sessions |-> NoSession]
  /\ challenge = [u \in Admins |-> FALSE]
  /\ sourceHits = [s \in Sources |-> [u \in Admins |-> NoHits]]
  /\ accountHits = [u \in Admins |-> NoHits]
  /\ swept = 2
  /\ secrets = 1

Known(u) == account[u].status # "none"

\* ---- sessions
(* authenticate(): the token is live and its account active.                 *)
Authentic(t) ==
  /\ session[t].at = "live"
  /\ account[session[t].user].status = "active"

(* hasRole(): the technical administrator stands in for the manager, never   *)
(* for a draw role.                                                          *)
HasRole(u, need) ==
  \/ need = "any"
  \/ need \in account[u].roles
  \/ need = "campaign_manager" /\ "platform_admin" \in account[u].roles

Issued(t, u) ==
  [session EXCEPT ![t] = [user |-> u, roles |-> account[u].roles, pw |-> account[u].pw, at |-> "live"]]

Ended(t) == [session EXCEPT ![t].at = IF @ = "live" THEN "ended" ELSE @]

(* revokeAllForUser()                                                        *)
RevokedIfClosed(u) ==
  [t \in Sessions |->
     IF session[t].user = u /\ account[u].status # "active" THEN Ended(t)[t] ELSE session[t]]
RevokedFor(u) ==
  [t \in Sessions |-> IF session[t].user = u THEN Ended(t)[t] ELSE session[t]]

\* ---- login brakes
Hits(c) == c.now + c.before
AddHit(c, hard) == IF Hits(c) < hard THEN [c EXCEPT !.now = @ + 1] ELSE c

(* loginGate(): over its own ceiling a source is refused before the          *)
(* account's budget is touched.                                              *)
SourceIsSpent(s, u) == Hits(sourceHits[s][u]) >= SourceHard
AccountIsSpent(u) == Hits(accountHits[u]) >= AccountHard
Verified(s, u) == ~SourceIsSpent(s, u) /\ ~AccountIsSpent(u)

AccountAlwaysCharged(s, u) == [accountHits EXCEPT ![u] = AddHit(@, AccountHard)]
AccountCharged(s, u) ==
  IF SourceIsSpent(s, u) THEN accountHits ELSE AccountAlwaysCharged(s, u)

Charge(s, u) ==
  /\ sourceHits' = [sourceHits EXCEPT ![s][u] = AddHit(@, SourceHard)]
  /\ accountHits' = AccountCharged(s, u)
  /\ UNCHANGED swept

Forget(s, u) ==
  /\ sourceHits' = [sourceHits EXCEPT ![s][u] = NoHits]
  /\ accountHits' = [accountHits EXCEPT ![u] = NoHits]
  /\ UNCHANGED swept

(* Half a window passes: the older attempts leave it.                        *)
Aged(c) == [now |-> 0, before |-> c.now]
WindowMoves ==
  /\ sourceHits' = [s \in Sources |-> [u \in Admins |-> Aged(sourceHits[s][u])]]
  /\ accountHits' = [u \in Admins |-> Aged(accountHits[u])]
  /\ swept' = IF swept < 2 THEN swept + 1 ELSE swept
  /\ UNCHANGED <<account, session, challenge, secrets>>

(* sweep(): a login for yet another name finds more than maxKeys keys and    *)
(* drops those touched longest ago, a step for each one of the model's that  *)
(* goes.  The other names are not in the model, so any of them may.          *)
SourceKeyForgotten(s, u) ==
  /\ sourceHits[s][u] # NoHits
  /\ sourceHits' = [sourceHits EXCEPT ![s][u] = NoHits]
  /\ swept' = 0
  /\ UNCHANGED <<account, session, challenge, accountHits, secrets>>

AccountKeyForgotten(u) ==
  /\ accountHits[u] # NoHits
  /\ accountHits' = [accountHits EXCEPT ![u] = NoHits]
  /\ UNCHANGED <<account, session, challenge, sourceHits, swept, secrets>>

\* ---- logging in
(* POST /api/login past the gate: no account, a closed one or a wrong        *)
(* password is counted and refused ...                                       *)
LogInFails(s, u, right) ==
  /\ ~(Verified(s, u) /\ right /\ account[u].status = "active")
  /\ Charge(s, u)
  /\ UNCHANGED <<account, session, challenge, secrets>>

(* ... with the second factor on, the password only opens the challenge ...  *)
LogInOwesCode(s, u) ==
  /\ Verified(s, u) /\ account[u].status = "active" /\ account[u].factor
  /\ Forget(s, u)
  /\ challenge' = [challenge EXCEPT ![u] = TRUE]
  /\ UNCHANGED <<account, session, secrets>>

(* ... and otherwise a token is issued.                                      *)
LogIn(s, u, t) ==
  /\ Verified(s, u) /\ account[u].status = "active" /\ ~account[u].factor
  /\ session[t].at = "unused"
  /\ Forget(s, u)
  /\ session' = Issued(t, u)
  /\ UNCHANGED <<account, challenge, secrets>>

(* A code of the secret; the TOTP window is not modelled.                    *)
Proves(secret, code) == secret # 0 /\ secret = code

(* verifyMfa() asks for the challenge and the code, not for the status.      *)
VerifyMfa(u, code, t) ==
  /\ challenge[u] /\ Proves(account[u].secret, code)
  /\ session[t].at = "unused"
  /\ challenge' = [challenge EXCEPT ![u] = FALSE]
  /\ session' = Issued(t, u)
  /\ UNCHANGED <<account, sourceHits, accountHits, swept, secrets>>

(* The challenge runs out after five minutes.                                *)
ChallengeEnds(u) ==
  /\ challenge[u]
  /\ challenge' = [challenge EXCEPT ![u] = FALSE]
  /\ UNCHANGED <<account, session, sourceHits, accountHits, swept, secrets>>

LogOut(t) ==
  /\ session' = Ended(t)
  /\ UNCHANGED <<account, challenge, sourceHits, accountHits, swept, secrets>>

SessionExpires(t) ==
  /\ session[t].at = "live"
  /\ LogOut(t)

\* ---- second factor
MayAlwaysEnrol(u, code) == TRUE
MayEnrol(u, code) == account[u].factor => Proves(account[u].secret, code)

EnrollMfa(u, code) ==
  /\ MayEnrol(u, code)
  /\ secrets < MaxSecrets
  /\ secrets' = secrets + 1
  /\ account' = [account EXCEPT ![u].pending = secrets + 1]
  /\ UNCHANGED <<session, challenge, sourceHits, accountHits, swept>>

(* enableMfa() confirms the pending secret, or the old one when none is.     *)
Confirmed(u) == IF account[u].pending # 0 THEN account[u].pending ELSE account[u].secret

EnableMfa(u, code) ==
  /\ Proves(Confirmed(u), code)
  /\ account' = [account EXCEPT ![u].secret = code, ![u].pending = 0, ![u].factor = TRUE]
  /\ UNCHANGED <<session, challenge, sourceHits, accountHits, swept, secrets>>

DisableMfa(u, code) ==
  /\ Proves(account[u].secret, code)
  /\ account' = [account EXCEPT ![u].factor = FALSE]
  /\ UNCHANGED <<session, challenge, sourceHits, accountHits, swept, secrets>>

\* ---- accounts
BothDrawRoles(roles) == {"draw_officer", "draw_approver"} \subseteq roles

CreateUser(u, roles) ==
  /\ ~Known(u) /\ ~BothDrawRoles(roles)
  /\ account' = [account EXCEPT ![u] = NewAccount(roles, TRUE)]
  /\ UNCHANGED <<session, challenge, sourceHits, accountHits, swept, secrets>>

(* PATCH /api/users/:id and updateUser(): nobody changes their own roles or  *)
(* closes their own account; a change of roles, or any status but active,    *)
(* ends the account's sessions, an activation does not.                      *)
Privileges(by, u, roles, status) ==
  /\ Known(u)
  /\ by = u => roles = account[u].roles /\ status # "disabled"
  /\ ~BothDrawRoles(roles)
  /\ account' = [account EXCEPT ![u].roles = roles, ![u].status = status]
  /\ UNCHANGED <<challenge, sourceHits, accountHits, swept, secrets>>

GiveRoles(by, u, roles) ==
  /\ by # u
  /\ Privileges(by, u, roles, account[u].status)
  /\ session' = RevokedFor(u)

Disable(by, u) ==
  /\ Privileges(by, u, account[u].roles, "disabled")
  /\ session' = RevokedFor(u)

Activate(by, u) ==
  /\ Privileges(by, u, account[u].roles, "active")
  /\ session' = session

NewPassword(u, temp) ==
  /\ account[u].pw < MaxPasswords
  /\ account' = [account EXCEPT ![u].pw = @ + 1, ![u].temp = temp]
  /\ session' = RevokedFor(u)
  /\ UNCHANGED <<challenge, sourceHits, accountHits, swept, secrets>>

(* changePassword() with the current password, resetPassword() by an         *)
(* administrator.                                                            *)
ChangePassword(u) == NewPassword(u, FALSE)
ResetPassword(u) == Known(u) /\ NewPassword(u, TRUE)

\* ---- properties
(* A session never outlives what it was given for: the roles and the         *)
(* password of its account are those of the moment it was issued (auth.mjs:  *)
(* "privilege change revokes sessions"), whatever challenges, requests and   *)
(* logins were under way when they changed.                                  *)
SessionsMatchTheAccount ==
  \A t \in Sessions : session[t].at = "live" =>
    /\ session[t].roles = account[session[t].user].roles
    /\ session[t].pw = account[session[t].user].pw

(* One source alone cannot use up an account's budget: its holder's password *)
(* is still verified elsewhere (the comment at server.mjs:209-214).  For a   *)
(* window after the throttle forgot keys it does not hold: a source's own    *)
(* key may be gone and the account's still there.                            *)
OneSourceCannotLockOut ==
  swept = 2 => \A u \in Admins, s \in Sources :
    (\A other \in Sources \ {s} : Hits(sourceHits[other][u]) = 0) => ~AccountIsSpent(u)

(* While a second factor is on no request replaces it: whoever holds a       *)
(* session, and in whatever order enrolments, confirmations and              *)
(* deactivations are sent, its holder has to turn it off first (the comment  *)
(* at auth.mjs:65-76).                                                       *)
FactorStandsWhileOn ==
  [][\A u \in Admins :
       account[u].factor /\ account'[u].factor => account'[u].secret = account[u].secret]_staffVars
============================================================================
