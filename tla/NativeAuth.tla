----------------------------- MODULE NativeAuth -----------------------------
(***************************************************************************)
(* Accounts, sessions and single-use tokens of the native login:           *)
(* services/native_auth.py, auth_routes.py and the access grants of        *)
(* services/hyper_cocreator.py (under src/src/orkio_v2).                   *)
(*                                                                         *)
(* Every handler runs in a thread and in a transaction of its own, at READ *)
(* COMMITTED: what it reads may be old when it writes, except the token    *)
(* rows it reads FOR UPDATE.  A handler is a step that reads and a step    *)
(* that commits; between them others run, and it may fail or die, which    *)
(* rolls it back (Abort).                                                  *)
(*                                                                         *)
(* An account is one e-mail address; the environment is staging or         *)
(* production, so administrators need a second factor.  Wrong passwords,   *)
(* wrong codes and the lock they lead to keep a caller out and change      *)
(* nothing else, and do not appear.                                        *)
(***************************************************************************)
EXTENDS Naturals, FiniteSets

CONSTANTS
  Accounts, Grants, Requests,
  Tokens,        \* bound on the password resets and challenges ever issued
  Sessions,      \* bound on the sessions ever opened
  MaxPasswords,  \* bound on the passwords an account has one after the other
  None

ASSUME AuthConstants ==
  /\ MaxPasswords \in Nat \ {0}
  /\ None \notin Accounts \cup Grants \cup Tokens

(* native_password_resets, and the purposes of native_auth_challenges;     *)
(* mfa_enrolling is an mfa_enroll challenge that has been given a secret.  *)
Kinds ==
  {"reset", "recovery", "verification", "mfa_enroll", "mfa_enrolling", "mfa_verify"}

NoToken == [kind |-> "none", owner |-> None, open |-> FALSE]
TokenRows == {NoToken} \cup [kind : Kinds, owner : Accounts, open : BOOLEAN]

(* password is the one its holder logged in with.  late: when the row was  *)
(* inserted a reset had already changed that password, or was about to.    *)
NoSession == [owner |-> None, password |-> 0, live |-> FALSE, late |-> FALSE]
SessionRows ==
  {NoSession} \cup
    [owner : Accounts, password : 1 .. MaxPasswords, live : BOOLEAN, late : BOOLEAN]

Steps ==
  {"idle", "bootstrapping", "registering", "onboarded", "claiming", "verified",
   "asked", "mailing", "loaded", "revoking"}

(* What a handler carries from one step to the next.                       *)
NoJob == [who |-> None, grant |-> None, token |-> None, password |-> 0, closes |-> {}, ends |-> {}]
Jobs ==
  [who : Accounts \cup {None}, grant : Grants \cup {None}, token : Tokens \cup {None},
   password : 0 .. MaxPasswords, closes : SUBSET Tokens, ends : SUBSET Sessions]

VARIABLES
  known,     \* accounts with a user, a membership and a profile
  admins,    \* those whose membership is privileged
  factor,    \* those with a confirmed second factor
  password,  \* number of the current password, 0 without a credential
  resetTo,   \* the password that the last reset gave the account
  redeemed,  \* accounts that each grant was redeemed for
  token, session,
  pc, job

accountVars == <<known, admins, factor>>
passwordVars == <<password, resetTo>>
vars == <<accountVars, passwordVars, redeemed, token, session, pc, job>>

Init ==
  /\ known = {} /\ admins = {} /\ factor = {}
  /\ password = [a \in Accounts |-> 0]
  /\ resetTo = [a \in Accounts |-> 0]
  /\ redeemed = [g \in Grants |-> {}]
  /\ token = [t \in Tokens |-> NoToken]
  /\ session = [s \in Sessions |-> NoSession]
  /\ pc = [r \in Requests |-> "idle"]
  /\ job = [r \in Requests |-> NoJob]

Goto(r, from, to) ==
  /\ pc[r] = from
  /\ pc' = [pc EXCEPT ![r] = to]

Finish(r, from) ==
  /\ Goto(r, from, "idle")
  /\ job' = [job EXCEPT ![r] = NoJob]

(* The transaction ends without effect: a refusal, an error, a deadlock    *)
(* that the database breaks, or the death of the process.                  *)
Abort(r) ==
  /\ pc[r] # "idle"
  /\ Finish(r, pc[r])
  /\ UNCHANGED <<accountVars, passwordVars, redeemed, token, session>>

(* Row locks: the token that r has read FOR UPDATE, those it has closed.   *)
Holds(r, t) ==
  \/ pc[r] \in {"loaded", "revoking"} /\ job[r].token = t
  \/ pc[r] = "revoking" /\ t \in job[r].closes

Held(t) == \E r \in Requests : Holds(r, t)
HeldByOther(t, r) == \E o \in Requests \ {r} : Holds(o, t)

(* _challenge, and the insertion of create_password_reset.                 *)
Mint(kind, a) ==
  \E t \in Tokens :
    /\ token[t] = NoToken
    /\ token' = [token EXCEPT ![t] = [kind |-> kind, owner |-> a, open |-> TRUE]]

ResetUnderWay(a) ==
  \E r \in Requests : /\ pc[r] \in {"loaded", "revoking"}
                      /\ token[job[r].token].kind = "reset" /\ token[job[r].token].owner = a

(* issue_session                                                           *)
Open(a, n, current) ==
  \E s \in Sessions :
    /\ session[s] = NoSession
    /\ session' = [session EXCEPT ![s] =
         [owner |-> a, password |-> n, live |-> TRUE,
          late |-> n # current \/ ResetUnderWay(a)]]

(***************************************************************************)
(* Opening accounts                                                        *)
(***************************************************************************)

(* bootstrap_owner: only while there is no credential at all.              *)
BootstrapRead(r, a) ==
  /\ \A b \in Accounts : password[b] = 0
  /\ Goto(r, "idle", "bootstrapping")
  /\ job' = [job EXCEPT ![r].who = a]
  /\ UNCHANGED <<accountVars, passwordVars, redeemed, token, session>>

(* A credential that the account was given since then is overwritten: its  *)
(* holder has a new password and is an administrator.  The unique key of   *)
(* native_credentials stops only two rows.                                 *)
BootstrapCommit(r) ==
  /\ Finish(r, "bootstrapping")
  /\ LET a == job[r].who  n == password[a] + 1 IN
       /\ n <= MaxPasswords
       /\ known' = known \cup {a} /\ admins' = admins \cup {a}
       /\ password' = [password EXCEPT ![a] = n]
       /\ Open(a, n, n)
  /\ UNCHANGED <<factor, resetTo, redeemed, token>>

(* native_register of a new address: complete_onboarding reads.            *)
RegisterRead(r, a, g) ==
  /\ a \notin known /\ redeemed[g] = {}
  /\ Goto(r, "idle", "registering")
  /\ job' = [job EXCEPT ![r].who = a, ![r].grant = g]
  /\ UNCHANGED <<accountVars, passwordVars, redeemed, token, session>>

(* Broken variant: grant_jti is not unique, the earlier query has to do.   *)
OnboardUnchecked(r) ==
  /\ Goto(r, "registering", "onboarded")
  /\ LET a == job[r].who  g == job[r].grant IN
       /\ a \notin known
       /\ known' = known \cup {a}
       /\ redeemed' = [redeemed EXCEPT ![g] = @ \cup {a}]
  /\ UNCHANGED <<admins, factor, passwordVars, token, session, job>>

(* complete_onboarding commits, if external_subject and grant_jti are      *)
(* still unique.                                                           *)
Onboard(r) ==
  /\ Goto(r, "registering", "onboarded")
  /\ LET a == job[r].who  g == job[r].grant IN
       /\ a \notin known /\ redeemed[g] = {}
       /\ known' = known \cup {a}
       /\ redeemed' = [redeemed EXCEPT ![g] = @ \cup {a}]
  /\ UNCHANGED <<admins, factor, passwordVars, token, session, job>>

(* login for an account whose password was right: a session, or for an     *)
(* administrator a challenge.                                              *)
Issue(a, n, current) ==
  \/ /\ a \notin admins
     /\ Open(a, n, current)
     /\ UNCHANGED token
  \/ /\ a \in admins
     /\ Mint(IF a \in factor THEN "mfa_verify" ELSE "mfa_enroll", a)
     /\ UNCHANGED session

(* native_register's second transaction: credential and login.             *)
RegisterCommit(r) ==
  /\ Finish(r, "onboarded")
  /\ LET a == job[r].who  n == password[a] + 1 IN
       /\ n <= MaxPasswords
       /\ password' = [password EXCEPT ![a] = n]
       /\ Issue(a, n, n)
  /\ UNCHANGED <<accountVars, resetTo, redeemed>>

(* native_register of an address that has an account but no credential:    *)
(* create_account_recovery_challenge.                                      *)
ClaimRead(r, a, g) ==
  /\ a \in known /\ password[a] = 0 /\ redeemed[g] = {}
  /\ Goto(r, "idle", "claiming")
  /\ job' = [job EXCEPT ![r].who = a, ![r].grant = g]
  /\ UNCHANGED <<accountVars, passwordVars, redeemed, token, session>>

ClaimCommit(r) ==
  /\ Finish(r, "claiming")
  /\ LET a == job[r].who  g == job[r].grant IN
       /\ redeemed[g] = {}
       /\ redeemed' = [redeemed EXCEPT ![g] = @ \cup {a}]
       /\ Mint("recovery", a)
  /\ UNCHANGED <<accountVars, passwordVars, session>>

(***************************************************************************)
(* Sessions                                                                *)
(***************************************************************************)

(* login reads the credential and verifies the password against it.        *)
LoginRead(r, a) ==
  /\ a \in known /\ password[a] > 0
  /\ Goto(r, "idle", "verified")
  /\ job' = [job EXCEPT ![r].who = a, ![r].password = password[a]]
  /\ UNCHANGED <<accountVars, passwordVars, redeemed, token, session>>

LoginCommit(r) ==
  /\ Finish(r, "verified")
  /\ Issue(job[r].who, job[r].password, password[job[r].who])
  /\ UNCHANGED <<accountVars, passwordVars, redeemed>>

(* revoke_session, the revocations of auth_routes.py, and expiry.          *)
EndSession(s) ==
  /\ session[s].live
  /\ session' = [session EXCEPT ![s].live = FALSE]
  /\ UNCHANGED <<accountVars, passwordVars, redeemed, token, pc, job>>

(***************************************************************************)
(* Single-use tokens                                                       *)
(***************************************************************************)

OpenResets(a) ==
  {t \in Tokens : token[t].kind = "reset" /\ token[t].owner = a /\ token[t].open}

LiveSessions(a) == {s \in Sessions : session[s].owner = a /\ session[s].live}

(* create_email_verification_challenge                                     *)
VerificationAsked(a) ==
  /\ a \in known
  /\ Mint("verification", a)
  /\ UNCHANGED <<accountVars, passwordVars, redeemed, session, pc, job>>

(* create_password_reset: its UPDATE takes the resets open by now.         *)
ForgotRead(r, a) ==
  /\ a \in known /\ password[a] > 0
  /\ Goto(r, "idle", "asked")
  /\ job' = [job EXCEPT ![r].who = a, ![r].closes = OpenResets(a)]
  /\ UNCHANGED <<accountVars, passwordVars, redeemed, token, session>>

Close(rows, closes) ==
  [t \in Tokens |->
    IF t \in closes /\ rows[t].open THEN [rows[t] EXCEPT !.open = FALSE] ELSE rows[t]]

(* It waits for those that others hold, then inserts the new one.          *)
ForgotCommit(r, t) ==
  /\ token[t] = NoToken
  /\ Goto(r, "asked", "mailing")
  /\ \A c \in job[r].closes : ~HeldByOther(c, r)
  /\ token' = [Close(token, job[r].closes) EXCEPT ![t] =
                 [kind |-> "reset", owner |-> job[r].who, open |-> TRUE]]
  /\ job' = [job EXCEPT ![r].token = t]
  /\ UNCHANGED <<accountVars, passwordVars, redeemed, session>>

(* The mail is accepted, or none is configured.                            *)
Mailed(r) ==
  /\ Finish(r, "mailing")
  /\ UNCHANGED <<accountVars, passwordVars, redeemed, token, session>>

(* revoke_password_reset after an EmailDeliveryError                       *)
MailFailed(r) ==
  /\ Finish(r, "mailing")
  /\ ~HeldByOther(job[r].token, r)
  /\ token' = Close(token, {job[r].token})
  /\ UNCHANGED <<accountVars, passwordVars, redeemed, session>>

(* expires_at passes, or a challenge has had its eight attempts.           *)
Expire(t) ==
  /\ token[t].open /\ ~Held(t)
  /\ token' = Close(token, {t})
  /\ UNCHANGED <<accountVars, passwordVars, redeemed, session, pc, job>>

(* Broken variant: the token is read without FOR UPDATE.                   *)
LoadUnlocked(r, t) ==
  /\ token[t].open
  /\ Goto(r, "idle", "loaded")
  /\ job' = [job EXCEPT ![r].token = t, ![r].who = token[t].owner]
  /\ UNCHANGED <<accountVars, passwordVars, redeemed, token, session>>

(* _load_challenge, and the first query of reset_password: FOR UPDATE.     *)
Load(r, t) ==
  /\ token[t].open /\ ~Held(t)
  /\ Goto(r, "idle", "loaded")
  /\ job' = [job EXCEPT ![r].token = t, ![r].who = token[t].owner]
  /\ UNCHANGED <<accountVars, passwordVars, redeemed, token, session>>

(* Broken variant: the resets are closed and the sessions stay.            *)
ResetRevokeResetsOnly(r) ==
  /\ Goto(r, "loaded", "revoking")
  /\ token[job[r].token].kind = "reset"
  /\ \A t \in OpenResets(job[r].who) : ~HeldByOther(t, r)
  /\ job' = [job EXCEPT ![r].closes = OpenResets(job[r].who)]
  /\ UNCHANGED <<accountVars, passwordVars, redeemed, token, session>>

(* reset_password revokes the sessions and closes the resets there are,    *)
(* and waits for resets that others hold.                                  *)
ResetRevoke(r) ==
  /\ Goto(r, "loaded", "revoking")
  /\ token[job[r].token].kind = "reset"
  /\ \A t \in OpenResets(job[r].who) : ~HeldByOther(t, r)
  /\ job' = [job EXCEPT ![r].closes = OpenResets(job[r].who),
                        ![r].ends = LiveSessions(job[r].who)]
  /\ UNCHANGED <<accountVars, passwordVars, redeemed, token, session>>

ResetCommit(r) ==
  /\ Finish(r, "revoking")
  /\ LET a == job[r].who  n == password[a] + 1 IN
       /\ n <= MaxPasswords
       /\ password' = [password EXCEPT ![a] = n]
       /\ resetTo' = [resetTo EXCEPT ![a] = n]
  /\ token' = Close(token, job[r].closes)
  /\ session' = [s \in Sessions |->
       IF s \in job[r].ends /\ session[s].live
         THEN [session[s] EXCEPT !.live = FALSE] ELSE session[s]]
  /\ UNCHANGED <<accountVars, redeemed>>

(* The handlers of challenges: the challenge is used, and then             *)
Redeem(r, kind) ==
  /\ Finish(r, "loaded")
  /\ token[job[r].token].kind = kind
  /\ token' = Close(token, {job[r].token})
  /\ UNCHANGED <<known, admins, resetTo, redeemed>>

(* complete_account_recovery                                               *)
RecoveryCommit(r) ==
  /\ Redeem(r, "recovery")
  /\ password[job[r].who] < MaxPasswords
  /\ password' = [password EXCEPT ![job[r].who] = @ + 1]
  /\ UNCHANGED <<factor, session>>

(* complete_email_verification                                             *)
VerificationCommit(r) ==
  /\ Redeem(r, "verification")
  /\ UNCHANGED <<factor, password, session>>

(* mfa_enrollment_start: the challenge stays open, with a secret.          *)
EnrollStart(r) ==
  /\ Finish(r, "loaded")
  /\ token[job[r].token].kind \in {"mfa_enroll", "mfa_enrolling"}
  /\ job[r].who \notin factor
  /\ token' = [token EXCEPT ![job[r].token].kind = "mfa_enrolling"]
  /\ UNCHANGED <<accountVars, passwordVars, redeemed, session>>

(* mfa_enrollment_confirm, which replaces a factor there may be, and       *)
(* mfa_verify: both open a session for whoever holds the challenge.        *)
MfaCommit(r) ==
  /\ \/ Redeem(r, "mfa_enrolling") /\ factor' = factor \cup {job[r].who}
     \/ Redeem(r, "mfa_verify") /\ job[r].who \in factor /\ UNCHANGED factor
  /\ Open(job[r].who, password[job[r].who], password[job[r].who])
  /\ UNCHANGED password

Next ==
  \/ \E r \in Requests, a \in Accounts :
       \/ BootstrapRead(r, a) \/ LoginRead(r, a) \/ ForgotRead(r, a)
       \/ \E g \in Grants : RegisterRead(r, a, g) \/ ClaimRead(r, a, g)
  \/ \E r \in Requests :
       \/ Abort(r) \/ BootstrapCommit(r) \/ Onboard(r) \/ RegisterCommit(r)
       \/ ClaimCommit(r) \/ LoginCommit(r)
       \/ Mailed(r) \/ MailFailed(r)
       \/ ResetRevoke(r) \/ ResetCommit(r)
       \/ RecoveryCommit(r) \/ VerificationCommit(r)
       \/ EnrollStart(r) \/ MfaCommit(r)
  \/ \E r \in Requests, t \in Tokens : ForgotCommit(r, t) \/ Load(r, t)
  \/ \E a \in Accounts : VerificationAsked(a)
  \/ \E t \in Tokens : Expire(t)
  \/ \E s \in Sessions : EndSession(s)

Spec == Init /\ [][Next]_vars

(***************************************************************************)
(* Properties                                                              *)
(***************************************************************************)

(* Every variable has its type.                                            *)
TypeOK ==
  /\ known \subseteq Accounts /\ admins \subseteq Accounts /\ factor \subseteq Accounts
  /\ password \in [Accounts -> 0 .. MaxPasswords]
  /\ resetTo \in [Accounts -> 0 .. MaxPasswords]
  /\ redeemed \in [Grants -> SUBSET Accounts]
  /\ token \in [Tokens -> TokenRows]
  /\ session \in [Sessions -> SessionRows]
  /\ pc \in [Requests -> Steps]
  /\ job \in [Requests -> Jobs]

(* A token that a handler has found unused is still unused when it commits *)
(* (_load_challenge, reset_password): neither a second use of the token,   *)
(* nor a newer reset (create_password_reset), nor the completion of        *)
(* another reset of the account closes it in between.  So a token takes    *)
(* effect once, and of two resets open together only one does.             *)
LoadedIsOpen ==
  \A r \in Requests : pc[r] \in {"loaded", "revoking"} => token[job[r].token].open

(* A session that was open when a password reset began does not outlive    *)
(* it (reset_password).  Only a login that overlaps the reset leaves one.  *)
SessionsEndWithReset ==
  \A s \in Sessions :
    session[s].live /\ ~session[s].late => session[s].password >= resetTo[session[s].owner]

(* A grant is redeemed for one account, whether the registrations and      *)
(* account claims that carry it run one after the other or together        *)
(* (complete_onboarding, create_account_recovery_challenge).               *)
GrantAdmitsOne == \A g \in Grants : Cardinality(redeemed[g]) <= 1
=============================================================================
