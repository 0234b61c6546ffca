-------------------------- MODULE NativeAuthProofs --------------------------
(***************************************************************************)
(* Proofs about NativeAuth, for any number of accounts, grants, handlers,  *)
(* tokens, sessions and passwords.  The inductive invariant says what a    *)
(* handler carries in each step (Carries), that a loaded token is in no    *)
(* other handler's hands (Exclusive), that a reset about to commit has     *)
(* seen every session that was open in time (SeesSessions), and that       *)
(* passwords only go forward (Forward, SecondFactors).                     *)
(***************************************************************************)
EXTENDS NativeAuth, FiniteSetTheorems, TLAPS

Holding == {"loaded", "revoking"}

Carries ==
  \A r \in Requests :
    /\ pc[r] # "idle" => job[r].who \in Accounts
    /\ pc[r] \in {"registering", "claiming"} => job[r].grant \in Grants
    /\ pc[r] = "verified" => job[r].password > 0 /\ password[job[r].who] > 0
    /\ pc[r] = "mailing" \/ pc[r] \in Holding => job[r].token \in Tokens
    /\ pc[r] \in Holding => token[job[r].token].owner = job[r].who
    /\ pc[r] = "revoking" => token[job[r].token].kind = "reset"

Exclusive ==
  \A r, o \in Requests : r # o /\ pc[r] \in Holding => ~Holds(o, job[r].token)

SeesSessions ==
  \A r \in Requests, s \in Sessions :
    pc[r] = "revoking" /\ session[s].live /\ ~session[s].late
      /\ session[s].owner = job[r].who => s \in job[r].ends

Forward == \A a \in Accounts : resetTo[a] <= password[a]

SecondFactors ==
  \A t \in Tokens :
    token[t].kind \in {"mfa_enroll", "mfa_enrolling", "mfa_verify"}
      => password[token[t].owner] > 0

IInv ==
  /\ TypeOK
  /\ Carries
  /\ Exclusive
  /\ SeesSessions
  /\ Forward
  /\ SecondFactors
  /\ LoadedIsOpen
  /\ SessionsEndWithReset
  /\ GrantAdmitsOne
-----------------------------------------------------------------------------
(* Init establishes the invariant.                                         *)
LEMMA InitEstablishes == Init => IInv
<1> USE AuthConstants DEF AuthConstants, Init
<1>1. Init => TypeOK
  BY DEF TypeOK, TokenRows, SessionRows, Jobs, NoToken, NoSession, NoJob, Steps
<1>2. Init => Carries /\ Exclusive /\ SeesSessions /\ Forward /\ LoadedIsOpen
  BY DEF Carries, Exclusive, SeesSessions, Forward, LoadedIsOpen, Holding, Holds
<1>3. Init => SecondFactors /\ SessionsEndWithReset
  BY DEF SecondFactors, SessionsEndWithReset, NoToken, NoSession
<1>4. Init => GrantAdmitsOne
  BY FS_EmptySet DEF GrantAdmitsOne
<1>5. QED
  BY <1>1, <1>2, <1>3, <1>4 DEF IInv

(* A token row that is not empty names an account.                         *)
LEMMA TokenRow ==
  ASSUME TypeOK, NEW t \in Tokens, token[t].open
  PROVE  /\ token[t] \in [kind : Kinds, owner : Accounts, open : BOOLEAN]
         /\ token[t].owner \in Accounts /\ token[t].kind \in Kinds
BY DEF TypeOK, TokenRows, NoToken

(* Closing tokens changes nothing else about them.                         *)
LEMMA CloseKeeps ==
  ASSUME TypeOK, NEW closes \in SUBSET Tokens
  PROVE  /\ Close(token, closes) \in [Tokens -> TokenRows]
         /\ \A t \in Tokens :
              /\ Close(token, closes)[t].kind = token[t].kind
              /\ Close(token, closes)[t].owner = token[t].owner
              /\ t \notin closes => Close(token, closes)[t] = token[t]
<1>1. ASSUME NEW t \in Tokens, token[t].open
      PROVE  /\ [token[t] EXCEPT !.open = FALSE] \in TokenRows
             /\ [token[t] EXCEPT !.open = FALSE].kind = token[t].kind
             /\ [token[t] EXCEPT !.open = FALSE].owner = token[t].owner
  BY <1>1, TokenRow DEF TokenRows
<1>2. QED
  BY <1>1 DEF Close, TypeOK

(* A new token takes the place of an empty row, which nobody holds.        *)
LEMMA MintKeeps ==
  ASSUME IInv, NEW a \in Accounts, NEW kind \in Kinds, Mint(kind, a)
  PROVE  /\ token' \in [Tokens -> TokenRows]
         /\ \A t \in Tokens : token'[t] = token[t]
              \/ /\ token[t] = NoToken
                 /\ token'[t] = [kind |-> kind, owner |-> a, open |-> TRUE]
BY DEF IInv, TypeOK, Mint, TokenRows

(* A new session takes the place of an empty row.                          *)
LEMMA OpenKeeps ==
  ASSUME IInv, NEW a \in Accounts, NEW n \in 1 .. MaxPasswords, NEW m \in Nat, Open(a, n, m)
  PROVE  /\ session' \in [Sessions -> SessionRows]
         /\ \A s \in Sessions : session'[s] = session[s]
              \/ /\ session'[s].owner = a /\ session'[s].password = n
                 /\ session'[s].late \in BOOLEAN
                 /\ session'[s].late <=> (n # m \/ ResetUnderWay(a))
<1> DEFINE row == [owner |-> a, password |-> n, live |-> TRUE, late |-> n # m \/ ResetUnderWay(a)]
<1>1. row \in SessionRows
  BY DEF SessionRows
<1>2. row.owner = a /\ row.password = n /\ row.late = (n # m \/ ResetUnderWay(a))
  OBVIOUS
<1>3. PICK s \in Sessions : session' = [session EXCEPT ![s] = row]
  BY DEF Open
<1> HIDE DEF row
<1>4. session' \in [Sessions -> SessionRows]
  BY <1>1, <1>3 DEF IInv, TypeOK
<1>5. \A x \in Sessions : session'[x] = session[x] \/ session'[x] = row
  BY <1>3 DEF IInv, TypeOK
<1>6. QED
  BY <1>2, <1>4, <1>5

(* A handler that reads and takes no lock changes nobody else's state.     *)
LEMMA ReadKeeps ==
  ASSUME NEW r \in Requests, NEW to \in Steps \ (Holding \cup {"mailing", "idle"}), NEW j \in Jobs,
         IInv, Goto(r, "idle", to), job' = [job EXCEPT ![r] = j],
         j.who \in Accounts,
         to \in {"registering", "claiming"} => j.grant \in Grants,
         to = "verified" => j.password > 0 /\ password[j.who] > 0,
         UNCHANGED <<accountVars, passwordVars, redeemed, token, session>>
  PROVE  IInv'
<1> USE DEF IInv, Goto, accountVars, passwordVars, Holding
<1>1. /\ pc' \in [Requests -> Steps] /\ job' \in [Requests -> Jobs]
      /\ pc'[r] = to /\ job'[r] = j
      /\ \A q \in Requests \ {r} : pc'[q] = pc[q] /\ job'[q] = job[q]
  BY DEF TypeOK
<1>2. TypeOK'
  BY <1>1 DEF TypeOK
<1>3. Carries'
  BY <1>1 DEF Carries
<1>4. Exclusive'
  BY <1>1 DEF Exclusive, Holds
<1>5. SeesSessions' /\ LoadedIsOpen'
  BY <1>1 DEF SeesSessions, LoadedIsOpen
<1>6. Forward' /\ SecondFactors' /\ SessionsEndWithReset' /\ GrantAdmitsOne'
  BY DEF Forward, SecondFactors, SessionsEndWithReset, GrantAdmitsOne
<1>7. QED
  BY <1>2, <1>3, <1>4, <1>5, <1>6

(* A handler that ends leaves its locks, and nobody else's.                *)
LEMMA FinishFrees ==
  ASSUME NEW r \in Requests, NEW from \in Steps, IInv, Finish(r, from)
  PROVE  /\ pc' \in [Requests -> Steps] /\ job' \in [Requests -> Jobs]
         /\ pc'[r] = "idle"
         /\ \A q \in Requests \ {r} : pc'[q] = pc[q] /\ job'[q] = job[q]
         /\ Exclusive'
<1> USE DEF IInv, Finish, Goto
<1>1. NoJob \in Jobs /\ "idle" \in Steps
  BY AuthConstants DEF AuthConstants, NoJob, Jobs, Steps
<1>2. /\ pc' \in [Requests -> Steps] /\ job' \in [Requests -> Jobs]
      /\ pc'[r] = "idle"
      /\ \A q \in Requests \ {r} : pc'[q] = pc[q] /\ job'[q] = job[q]
  BY <1>1 DEF TypeOK
<1>3. Exclusive'
  BY <1>2 DEF Exclusive, Holds, Holding
<1>4. QED
  BY <1>2, <1>3

(* Ending without effect.                                                  *)
LEMMA EndKeeps ==
  ASSUME NEW r \in Requests, NEW from \in Steps, IInv, Finish(r, from),
         UNCHANGED <<accountVars, passwordVars, redeemed, token, session>>
  PROVE  IInv'
<1> USE DEF IInv, accountVars, passwordVars, Holding
<1>1. TypeOK' /\ Exclusive'
  BY FinishFrees DEF TypeOK
<1>2. Carries'
  BY FinishFrees DEF Carries
<1>3. SeesSessions' /\ LoadedIsOpen'
  BY FinishFrees DEF SeesSessions, LoadedIsOpen
<1>4. Forward' /\ SecondFactors' /\ SessionsEndWithReset' /\ GrantAdmitsOne'
  BY DEF Forward, SecondFactors, SessionsEndWithReset, GrantAdmitsOne
<1>5. QED
  BY <1>1, <1>2, <1>3, <1>4

(* The first steps of the handlers.                                        *)
LEMMA ReadsKeep ==
  ASSUME NEW r \in Requests, NEW a \in Accounts, IInv,
         \/ BootstrapRead(r, a) \/ LoginRead(r, a) \/ ForgotRead(r, a)
         \/ \E g \in Grants : RegisterRead(r, a, g) \/ ClaimRead(r, a, g)
  PROVE  IInv'
<1> USE DEF Holding, Steps
<1>1. job[r] \in Jobs /\ job \in [Requests -> Jobs]
  BY DEF IInv, TypeOK
<1>2. CASE BootstrapRead(r, a)
  <2> DEFINE j == [job[r] EXCEPT !.who = a]
  <2>1. j \in Jobs /\ j.who = a
    BY <1>1 DEF Jobs
  <2>2. job' = [job EXCEPT ![r] = j]
    BY <1>1, <1>2 DEF BootstrapRead
  <2> HIDE DEF j
  <2>3. QED
    BY <1>2, <2>1, <2>2, ReadKeeps DEF BootstrapRead
<1>3. CASE LoginRead(r, a)
  <2> DEFINE j == [job[r] EXCEPT !.who = a, !.password = password[a]]
  <2>1. j \in Jobs /\ j.who = a /\ j.password = password[a]
    BY <1>1 DEF Jobs, IInv, TypeOK
  <2>2. job' = [job EXCEPT ![r] = j]
    BY <1>1, <1>3 DEF LoginRead
  <2> HIDE DEF j
  <2>3. QED
    BY <1>3, <2>1, <2>2, ReadKeeps DEF LoginRead
<1>4. CASE ForgotRead(r, a)
  <2> DEFINE j == [job[r] EXCEPT !.who = a, !.closes = OpenResets(a)]
  <2>1. j \in Jobs /\ j.who = a
    BY <1>1 DEF Jobs, OpenResets
  <2>2. job' = [job EXCEPT ![r] = j]
    BY <1>1, <1>4 DEF ForgotRead
  <2> HIDE DEF j
  <2>3. QED
    BY <1>4, <2>1, <2>2, ReadKeeps DEF ForgotRead
<1>5. ASSUME NEW g \in Grants, RegisterRead(r, a, g) \/ ClaimRead(r, a, g)
      PROVE  IInv'
  <2> DEFINE j == [job[r] EXCEPT !.who = a, !.grant = g]
  <2>1. j \in Jobs /\ j.who = a /\ j.grant = g
    BY <1>1 DEF Jobs
  <2>2. job' = [job EXCEPT ![r] = j]
    BY <1>1, <1>5 DEF RegisterRead, ClaimRead
  <2> HIDE DEF j
  <2>3. CASE RegisterRead(r, a, g)
    BY <2>1, <2>2, <2>3, ReadKeeps DEF RegisterRead
  <2>4. CASE ClaimRead(r, a, g)
    BY <2>1, <2>2, <2>4, ReadKeeps DEF ClaimRead
  <2>5. QED
    BY <1>5, <2>3, <2>4
<1>6. QED
  BY <1>2, <1>3, <1>4, <1>5

(* Ends without effect, and mails that arrive.                             *)
LEMMA EndsKeep ==
  ASSUME NEW r \in Requests, IInv, Abort(r) \/ Mailed(r)
  PROVE  IInv'
<1>1. pc[r] \in Steps /\ "mailing" \in Steps
  BY DEF IInv, TypeOK, Steps
<1>2. QED
  BY <1>1, EndKeeps DEF Abort, Mailed

(* A handler that commits, changes tokens as closing or minting does, and  *)
(* changes no session, password or grant.                                  *)
LEMMA TokensOnlyKeep ==
  ASSUME IInv, pc' \in [Requests -> Steps], job' \in [Requests -> Jobs],
         token' \in [Tokens -> TokenRows],
         \A q \in Requests : pc'[q] \in Holding =>
           token'[job[q].token] = token[job[q].token],
         SecondFactors',
         \A q \in Requests : pc'[q] \in Holding => pc'[q] = pc[q] /\ job'[q] = job[q],
         UNCHANGED <<known, admins, passwordVars, redeemed, session>>,
         factor' \subseteq Accounts,
         \A q \in Requests : \/ pc'[q] = "idle"
                             \/ pc'[q] = pc[q] /\ job'[q] = job[q]
                             \/ pc'[q] = "mailing" /\ job'[q].token \in Tokens
                                  /\ job'[q].who \in Accounts
  PROVE  IInv'
<1> USE DEF IInv, passwordVars, Holding
<1>1. TypeOK'
  BY DEF TypeOK
<1>2. \A q \in Requests : pc'[q] \in Holding =>
        token'[job[q].token] = token[job[q].token] /\ job[q].token \in Tokens
  BY DEF Carries
<1>3. Carries'
  BY <1>2 DEF Carries
<1>4. Exclusive'
  BY DEF Exclusive, Holds
<1>5. SeesSessions' /\ LoadedIsOpen'
  BY <1>2 DEF SeesSessions, LoadedIsOpen
<1>6. Forward' /\ SessionsEndWithReset' /\ GrantAdmitsOne'
  BY DEF Forward, SessionsEndWithReset, GrantAdmitsOne
<1>7. QED
  BY <1>1, <1>3, <1>4, <1>5, <1>6

(* Token rows that a handler holds are not empty.                          *)
LEMMA HeldAreRows ==
  ASSUME IInv, NEW q \in Requests, pc[q] \in Holding
  PROVE  /\ job[q].token \in Tokens /\ token[job[q].token].open
         /\ token[job[q].token].owner = job[q].who /\ job[q].who \in Accounts
BY DEF IInv, Carries, LoadedIsOpen, Holding

(* Asking for a verification, and the passing of time.                     *)
LEMMA TokenEventsKeep ==
  ASSUME IInv,
         \/ \E a \in Accounts : VerificationAsked(a)
         \/ \E t \in Tokens : Expire(t)
  PROVE  IInv'
<1> USE DEF passwordVars, accountVars
<1>1. /\ pc \in [Requests -> Steps] /\ job \in [Requests -> Jobs] /\ factor \subseteq Accounts
  BY DEF IInv, TypeOK
<1>2. ASSUME NEW a \in Accounts, VerificationAsked(a)
      PROVE  IInv'
  <2>1. /\ token' \in [Tokens -> TokenRows]
        /\ \A t \in Tokens : token'[t] = token[t]
             \/ /\ token[t] = NoToken
                /\ token'[t] = [kind |-> "verification", owner |-> a, open |-> TRUE]
    BY <1>2, MintKeeps DEF VerificationAsked, Kinds
  <2>2. \A t \in Tokens : token[t].open => token'[t] = token[t]
    BY <2>1 DEF NoToken
  <2>3. \A q \in Requests : pc'[q] \in Holding =>
          token'[job[q].token] = token[job[q].token]
    BY <1>2, <2>2, HeldAreRows DEF VerificationAsked
  <2>4. SecondFactors'
    BY <1>2, <2>1 DEF SecondFactors, VerificationAsked, IInv
  <2>5. QED
    BY <1>1, <1>2, <2>1, <2>3, <2>4, TokensOnlyKeep DEF VerificationAsked
<1>3. ASSUME NEW t \in Tokens, Expire(t)
      PROVE  IInv'
  <2>1. /\ token' \in [Tokens -> TokenRows]
        /\ \A x \in Tokens : /\ token'[x].kind = token[x].kind
                             /\ token'[x].owner = token[x].owner
                             /\ x # t => token'[x] = token[x]
    BY <1>3, CloseKeeps DEF Expire, IInv
  <2>2. \A q \in Requests : pc'[q] \in Holding =>
          token'[job[q].token] = token[job[q].token]
    BY <1>3, <2>1, HeldAreRows DEF Expire, Held, Holds, Holding
  <2>3. SecondFactors'
    BY <1>3, <2>1 DEF SecondFactors, Expire, IInv
  <2>4. QED
    BY <1>1, <1>3, <2>1, <2>2, <2>3, TokensOnlyKeep DEF Expire
<1>4. QED
  BY <1>2, <1>3

(* A token that a handler closes without any other effect: the mail that   *)
(* failed, the e-mail that is verified, the enrolment that starts.         *)
LEMMA ClosingsKeep ==
  ASSUME NEW r \in Requests, IInv,
         MailFailed(r) \/ VerificationCommit(r) \/ EnrollStart(r)
  PROVE  IInv'
<1> USE DEF passwordVars, accountVars, Redeem
<1>1. "mailing" \in Steps /\ "loaded" \in Steps
  BY DEF Steps
<1>2. PICK from \in Steps : Finish(r, from) /\ pc[r] = from /\ from \in {"mailing", "loaded"}
  BY <1>1 DEF MailFailed, VerificationCommit, EnrollStart, Finish, Goto
<1>3. /\ pc' \in [Requests -> Steps] /\ job' \in [Requests -> Jobs]
      /\ pc'[r] = "idle"
      /\ \A q \in Requests \ {r} : pc'[q] = pc[q] /\ job'[q] = job[q]
  BY <1>2, FinishFrees
<1>4. job[r].token \in Tokens
  BY <1>2 DEF IInv, Carries, Holding
<1>5. CASE MailFailed(r) \/ VerificationCommit(r)
  <2>1. token' = Close(token, {job[r].token})
    BY <1>5 DEF MailFailed, VerificationCommit
  <2>2. /\ token' \in [Tokens -> TokenRows]
        /\ \A x \in Tokens : /\ token'[x].kind = token[x].kind
                             /\ token'[x].owner = token[x].owner
                             /\ x # job[r].token => token'[x] = token[x]
    BY <2>1, <1>4, CloseKeeps DEF IInv
  <2>3. \A q \in Requests \ {r} : pc[q] \in Holding => job[q].token # job[r].token
    <3>1. CASE MailFailed(r)
      BY <3>1 DEF MailFailed, HeldByOther, Holds, Holding
    <3>2. CASE VerificationCommit(r)
      BY <3>2 DEF VerificationCommit, Finish, Goto, IInv, Exclusive, Holds, Holding
    <3>3. QED
      BY <1>5, <3>1, <3>2
  <2>4. \A q \in Requests : pc'[q] \in Holding =>
          token'[job[q].token] = token[job[q].token]
    BY <1>3, <2>2, <2>3, HeldAreRows DEF Holding
  <2>5. /\ SecondFactors'
        /\ UNCHANGED <<known, admins, passwordVars, redeemed, session, factor>>
    BY <1>5, <2>2 DEF SecondFactors, IInv, MailFailed, VerificationCommit
  <2>6. \A q \in Requests : pc'[q] \in Holding => pc'[q] = pc[q] /\ job'[q] = job[q]
    BY <1>3 DEF Holding
  <2>7. ASSUME NEW q \in Requests
        PROVE  pc'[q] = "idle" \/ (pc'[q] = pc[q] /\ job'[q] = job[q])
    <3>1. CASE q = r
      BY <1>3, <3>1
    <3>2. CASE q # r
      BY <1>3, <3>2
    <3>3. QED
      BY <3>1, <3>2
  <2>8. factor' \subseteq Accounts
    BY <2>5 DEF IInv, TypeOK
  <2>9. QED
    BY <1>3, <2>2, <2>4, <2>5, <2>6, <2>7, <2>8, TokensOnlyKeep
<1>6. CASE EnrollStart(r)
  <2> DEFINE t == job[r].token
  <2> DEFINE row == [token[t] EXCEPT !.kind = "mfa_enrolling"]
  <2>1. pc[r] \in Holding /\ token[t].kind \in {"mfa_enroll", "mfa_enrolling"}
    BY <1>6 DEF EnrollStart, Finish, Goto, Holding
  <2>2. token[t] \in [kind : Kinds, owner : Accounts, open : BOOLEAN]
    BY <2>1, HeldAreRows, TokenRow DEF IInv
  <2>3. row \in [kind : Kinds, owner : Accounts, open : BOOLEAN] /\ row.owner = token[t].owner
    BY <2>2 DEF Kinds
  <2>4. token' = [token EXCEPT ![t] = row]
    BY <1>6, <1>4 DEF EnrollStart
  <2> HIDE DEF row
  <2>5. /\ token' \in [Tokens -> TokenRows]
        /\ token'[t].owner = token[t].owner
        /\ \A x \in Tokens \ {t} : token'[x] = token[x]
    BY <1>4, <2>3, <2>4 DEF IInv, TypeOK, TokenRows
  <2>6. \A q \in Requests : pc'[q] \in Holding =>
          token'[job[q].token] = token[job[q].token]
    BY <1>3, <2>1, <2>5, HeldAreRows DEF IInv, Exclusive, Holds, Holding
  <2>7. SecondFactors'
    BY <1>4, <1>6, <2>1, <2>5 DEF SecondFactors, IInv, EnrollStart
  <2>8. \A q \in Requests : pc'[q] \in Holding => pc'[q] = pc[q] /\ job'[q] = job[q]
    BY <1>3 DEF Holding
  <2>9. factor' \subseteq Accounts
    BY <1>6 DEF IInv, TypeOK, EnrollStart
  <2>10. QED
    BY <1>3, <1>6, <2>5, <2>6, <2>7, <2>8, <2>9, TokensOnlyKeep DEF EnrollStart
<1>7. QED
  BY <1>5, <1>6

(* create_password_reset commits: it closes what nobody else holds.        *)
LEMMA ForgotKeeps ==
  ASSUME NEW r \in Requests, NEW t \in Tokens, IInv, ForgotCommit(r, t)
  PROVE  IInv'
<1> USE DEF passwordVars, accountVars
<1> DEFINE a == job[r].who
<1> DEFINE row == [kind |-> "reset", owner |-> a, open |-> TRUE]
<1> DEFINE closed == Close(token, job[r].closes)
<1>1. pc[r] = "asked" /\ a \in Accounts /\ job[r].closes \in SUBSET Tokens
  BY DEF ForgotCommit, Goto, IInv, Carries, TypeOK, Jobs
<1>2. row \in TokenRows /\ row.kind = "reset"
  BY <1>1 DEF TokenRows, Kinds
<1>3. /\ closed \in [Tokens -> TokenRows]
      /\ \A x \in Tokens : /\ closed[x].kind = token[x].kind
                           /\ closed[x].owner = token[x].owner
                           /\ x \notin job[r].closes => closed[x] = token[x]
  BY <1>1, CloseKeeps DEF IInv
<1>4. token' = [closed EXCEPT ![t] = row] /\ token[t] = NoToken
  BY DEF ForgotCommit
<1> HIDE DEF row, closed
<1>5. /\ token' \in [Tokens -> TokenRows] /\ token'[t].kind = "reset"
      /\ \A x \in Tokens \ {t} : token'[x] = closed[x]
  BY <1>2, <1>3, <1>4
<1>6. /\ pc' = [pc EXCEPT ![r] = "mailing"]
      /\ job' = [job EXCEPT ![r] = [job[r] EXCEPT !.token = t]]
  BY DEF ForgotCommit, Goto, IInv, TypeOK
<1>7. [job[r] EXCEPT !.token = t] \in Jobs /\ [job[r] EXCEPT !.token = t].token = t
      /\ [job[r] EXCEPT !.token = t].who = a
  BY DEF IInv, TypeOK, Jobs
<1>8. /\ pc' \in [Requests -> Steps] /\ job' \in [Requests -> Jobs]
      /\ pc'[r] = "mailing" /\ job'[r].token = t /\ job'[r].who = a
      /\ \A q \in Requests \ {r} : pc'[q] = pc[q] /\ job'[q] = job[q]
  BY <1>6, <1>7 DEF IInv, TypeOK, Steps
<1>9. \A q \in Requests : pc'[q] \in Holding =>
        token'[job[q].token] = token[job[q].token]
  <2> SUFFICES ASSUME NEW q \in Requests, pc'[q] \in Holding
               PROVE  token'[job[q].token] = token[job[q].token]
    OBVIOUS
  <2>1. q # r /\ pc[q] \in Holding
    BY <1>8 DEF Holding
  <2>2. job[q].token \in Tokens /\ job[q].token # t
    BY <2>1, <1>4, HeldAreRows DEF NoToken
  <2>3. job[q].token \notin job[r].closes
    BY <2>1 DEF ForgotCommit, HeldByOther, Holds, Holding
  <2>4. QED
    BY <2>2, <2>3, <1>3, <1>5
<1>10. SecondFactors'
  BY <1>3, <1>5 DEF SecondFactors, IInv, ForgotCommit
<1>11. \A q \in Requests : pc'[q] \in Holding => pc'[q] = pc[q] /\ job'[q] = job[q]
  BY <1>8 DEF Holding
<1>12. factor' \subseteq Accounts
  BY DEF IInv, TypeOK, ForgotCommit
<1>13. QED
  BY <1>1, <1>5, <1>8, <1>9, <1>10, <1>11, <1>12, TokensOnlyKeep DEF ForgotCommit

(* A token is loaded only when nobody holds it.                            *)
LEMMA LoadKeeps ==
  ASSUME NEW r \in Requests, NEW t \in Tokens, IInv, Load(r, t)
  PROVE  IInv'
<1> USE DEF IInv, passwordVars, accountVars
<1> DEFINE j == [job[r] EXCEPT !.token = t, !.who = token[t].owner]
<1>1. token[t].open /\ token[t].owner \in Accounts
  BY TokenRow DEF Load
<1>2. j \in Jobs /\ j.token = t /\ j.who = token[t].owner
  BY <1>1 DEF TypeOK, Jobs
<1>3. job' = [job EXCEPT ![r] = j]
  BY DEF Load, TypeOK
<1> HIDE DEF j
<1>4. /\ pc' \in [Requests -> Steps] /\ job' \in [Requests -> Jobs]
      /\ pc'[r] = "loaded" /\ job'[r].token = t /\ job'[r].who = token[t].owner
      /\ \A q \in Requests \ {r} : pc'[q] = pc[q] /\ job'[q] = job[q]
      /\ token' = token /\ session' = session
  <2>1. pc' = [pc EXCEPT ![r] = "loaded"] /\ token' = token /\ session' = session
    BY DEF Load, Goto
  <2>2. QED
    BY <1>2, <1>3, <2>1 DEF TypeOK, Steps
<1>5. TypeOK'
  BY <1>4 DEF TypeOK, Load
<1>6. Carries'
  BY <1>1, <1>4 DEF Carries, Load, Holding
<1>7. Exclusive'
  <2>1. \A o \in Requests \ {r} : pc'[o] \in Holding => ~Holds(r, job[o].token)'
    BY <1>4 DEF Load, Held, Holds, Holding
  <2>2. \A o \in Requests \ {r} : ~Holds(o, job[r].token)'
    BY <1>4 DEF Load, Held, Holds
  <2>3. \A o, q \in Requests \ {r} :
          o # q /\ pc'[q] \in Holding => ~Holds(o, job[q].token)'
    BY <1>4 DEF Exclusive, Holds
  <2>4. QED
    BY <2>1, <2>2, <2>3 DEF Exclusive
<1>8. SeesSessions' /\ LoadedIsOpen'
  BY <1>1, <1>4 DEF SeesSessions, LoadedIsOpen
<1>9. Forward' /\ SecondFactors' /\ SessionsEndWithReset' /\ GrantAdmitsOne'
  BY DEF Load, Forward, SecondFactors, SessionsEndWithReset, GrantAdmitsOne
<1>10. QED
  BY <1>5, <1>6, <1>7, <1>8, <1>9

(* reset_password takes its locks, and sees the sessions that are open.    *)
LEMMA ResetRevokeKeeps ==
  ASSUME NEW r \in Requests, IInv, ResetRevoke(r)
  PROVE  IInv'
<1> USE DEF IInv, passwordVars, accountVars
<1> DEFINE a == job[r].who
<1> DEFINE j == [job[r] EXCEPT !.closes = OpenResets(a), !.ends = LiveSessions(a)]
<1>1. pc[r] = "loaded" /\ token[job[r].token].kind = "reset"
  BY DEF ResetRevoke, Goto
<1>2. /\ j \in Jobs /\ j.who = a /\ j.token = job[r].token
      /\ j.closes = OpenResets(a) /\ j.ends = LiveSessions(a)
  BY DEF TypeOK, Jobs, OpenResets, LiveSessions
<1>3. job' = [job EXCEPT ![r] = j]
  BY DEF ResetRevoke, TypeOK
<1> HIDE DEF j
<1>4. /\ pc' \in [Requests -> Steps] /\ job' \in [Requests -> Jobs]
      /\ pc'[r] = "revoking" /\ job'[r] = j
      /\ \A q \in Requests \ {r} : pc'[q] = pc[q] /\ job'[q] = job[q]
      /\ token' = token /\ session' = session
  BY <1>2, <1>3 DEF ResetRevoke, Goto, TypeOK, Steps
<1>5. TypeOK'
  BY <1>4 DEF TypeOK, ResetRevoke
<1>6. Carries'
  BY <1>1, <1>2, <1>4 DEF Carries, ResetRevoke, Holding
<1>7. Exclusive'
  <2>1. \A o \in Requests \ {r} : ~Holds(o, job[r].token)'
    BY <1>1, <1>2, <1>4 DEF Exclusive, Holds, Holding
  <2>2. ASSUME NEW o \in Requests \ {r}, pc'[o] \in Holding
        PROVE  ~Holds(r, job[o].token)'
    <3>1. pc[o] \in Holding /\ job'[o] = job[o]
      BY <1>4, <2>2
    <3>2. job[o].token # job[r].token
      BY <1>1, <3>1 DEF Exclusive, Holds, Holding
    <3>3. job[o].token \notin OpenResets(a)
      BY <3>1 DEF ResetRevoke, HeldByOther, Holds, Holding
    <3>4. QED
      BY <1>2, <1>4, <3>1, <3>2, <3>3 DEF Holds
  <2>3. \A o, q \in Requests \ {r} :
          o # q /\ pc'[q] \in Holding => ~Holds(o, job[q].token)'
    BY <1>4 DEF Exclusive, Holds
  <2>4. QED
    BY <2>1, <2>2, <2>3 DEF Exclusive
<1>8. SeesSessions'
  BY <1>2, <1>4 DEF SeesSessions, LiveSessions
<1>9. LoadedIsOpen'
  BY <1>1, <1>2, <1>4 DEF LoadedIsOpen
<1>10. Forward' /\ SecondFactors' /\ SessionsEndWithReset' /\ GrantAdmitsOne'
  BY DEF ResetRevoke, Forward, SecondFactors, SessionsEndWithReset, GrantAdmitsOne
<1>11. QED
  BY <1>5, <1>6, <1>7, <1>8, <1>9, <1>10

(* A session that ends.                                                    *)
LEMMA EndSessionKeeps ==
  ASSUME NEW s \in Sessions, IInv, EndSession(s)
  PROVE  IInv'
<1> USE DEF IInv, passwordVars, accountVars, EndSession
<1>1. session[s] \in [owner : Accounts, password : 1 .. MaxPasswords, live : BOOLEAN, late : BOOLEAN]
  BY DEF TypeOK, SessionRows, NoSession
<1>2. session' \in [Sessions -> SessionRows]
  BY <1>1 DEF TypeOK, SessionRows
<1>3. \A x \in Sessions : session'[x] = session[x] \/ ~session'[x].live
  BY DEF TypeOK
<1>4. TypeOK' /\ SeesSessions' /\ SessionsEndWithReset'
  BY <1>2, <1>3 DEF TypeOK, SeesSessions, SessionsEndWithReset
<1>5. Carries' /\ Exclusive' /\ Forward' /\ SecondFactors' /\ LoadedIsOpen' /\ GrantAdmitsOne'
  BY DEF Carries, Exclusive, Holds, Forward, SecondFactors, LoadedIsOpen, GrantAdmitsOne
<1>6. QED
  BY <1>4, <1>5

(* The commit of a reset closes tokens that nobody else holds, and no      *)
(* session that was open in time stays.                                    *)
LEMMA ResetCommitKeeps ==
  ASSUME NEW r \in Requests, IInv, ResetCommit(r)
  PROVE  IInv'
<1> USE AuthConstants DEF AuthConstants, IInv, accountVars
<1> DEFINE a == job[r].who
<1> DEFINE n == password[a] + 1
<1>1. pc[r] = "revoking" /\ a \in Accounts /\ job[r].closes \in SUBSET Tokens
  BY DEF ResetCommit, Finish, Goto, Carries, TypeOK, Jobs
<1>2. /\ pc' \in [Requests -> Steps] /\ job' \in [Requests -> Jobs]
      /\ pc'[r] = "idle"
      /\ \A q \in Requests \ {r} : pc'[q] = pc[q] /\ job'[q] = job[q]
      /\ Exclusive'
  BY FinishFrees DEF ResetCommit, Steps
<1>3. /\ n \in 0 .. MaxPasswords
      /\ password' = [password EXCEPT ![a] = n]
      /\ resetTo' = [resetTo EXCEPT ![a] = n]
  BY <1>1 DEF ResetCommit, TypeOK
<1>4. /\ password' \in [Accounts -> 0 .. MaxPasswords]
      /\ resetTo' \in [Accounts -> 0 .. MaxPasswords]
      /\ \A b \in Accounts : /\ password'[b] >= password[b]
                             /\ resetTo'[b] <= password'[b]
                             /\ b # a => resetTo'[b] = resetTo[b]
  BY <1>1, <1>3 DEF TypeOK, Forward
<1>5. /\ token' \in [Tokens -> TokenRows]
      /\ \A x \in Tokens : /\ token'[x].kind = token[x].kind
                           /\ token'[x].owner = token[x].owner
                           /\ x \notin job[r].closes => token'[x] = token[x]
  BY <1>1, CloseKeeps DEF ResetCommit
<1>6. /\ session' \in [Sessions -> SessionRows]
      /\ \A s \in Sessions : session'[s] = session[s] \/ ~session'[s].live
      /\ \A s \in job[r].ends : s \in Sessions => ~session'[s].live
  <2>1. ASSUME NEW s \in Sessions, session[s].live
        PROVE  /\ [session[s] EXCEPT !.live = FALSE] \in SessionRows
               /\ ~[session[s] EXCEPT !.live = FALSE].live
    <3>1. session[s] \in [owner : Accounts, password : 1 .. MaxPasswords,
                          live : BOOLEAN, late : BOOLEAN]
      BY <2>1 DEF TypeOK, SessionRows, NoSession
    <3>2. QED
      BY <3>1 DEF SessionRows
  <2>2. QED
    BY <2>1 DEF ResetCommit, TypeOK
<1>7. TypeOK'
  BY <1>2, <1>4, <1>5, <1>6 DEF TypeOK, ResetCommit
<1>8. \A q \in Requests : pc'[q] \in Holding =>
        /\ q # r /\ job'[q] = job[q] /\ job[q].token \in Tokens
        /\ token'[job[q].token] = token[job[q].token]
  BY <1>1, <1>2, <1>5, HeldAreRows DEF Exclusive, Holds, Holding
<1>9. Carries'
  BY <1>2, <1>4, <1>8 DEF Carries, Holding, TypeOK
<1>10. SeesSessions' /\ LoadedIsOpen'
  BY <1>2, <1>6, <1>8 DEF SeesSessions, LoadedIsOpen, Holding
<1>11. SecondFactors'
  <2>1. \A t \in Tokens : token[t].kind \in Kinds => token[t].owner \in Accounts
    BY DEF TypeOK, TokenRows, NoToken, Kinds
  <2>2. QED
    BY <1>4, <1>5, <2>1 DEF SecondFactors, Kinds, TypeOK
<1>12. SessionsEndWithReset'
  <2> SUFFICES ASSUME NEW s \in Sessions, session'[s].live, ~session'[s].late
               PROVE  session'[s].password >= resetTo'[session'[s].owner]
    BY DEF SessionsEndWithReset
  <2>1. session'[s] = session[s] /\ s \notin job[r].ends
    BY <1>6
  <2>2. session[s].owner \in Accounts
    BY <2>1 DEF TypeOK, SessionRows, NoSession
  <2>3. session[s].owner # a
    BY <1>1, <2>1 DEF SeesSessions
  <2>4. QED
    BY <1>4, <2>1, <2>2, <2>3 DEF SessionsEndWithReset
<1>13. Forward' /\ GrantAdmitsOne'
  BY <1>4 DEF Forward, GrantAdmitsOne, ResetCommit
<1>14. QED
  BY <1>2, <1>7, <1>9, <1>10, <1>11, <1>12, <1>13

(* Opening a session for the password that is current, or marked late.     *)
CommitEffect(r, a, n, m) ==
  /\ \A b \in Accounts : password'[b] >= password[b]
  /\ resetTo' = resetTo
  /\ \A q \in Requests : pc'[q] \in Holding => token'[job[q].token] = token[job[q].token]
  /\ m >= resetTo[a]
  /\ \A s \in Sessions : session'[s] = session[s]
       \/ /\ session'[s].owner = a /\ session'[s].password = n
          /\ session'[s].late <=> (n # m \/ ResetUnderWay(a))

(* A handler that commits, opens at most one session and holds no token    *)
(* that it does not give up.                                               *)
LEMMA CommitsKeep ==
  ASSUME NEW r \in Requests, NEW from \in Steps, IInv, Finish(r, from),
         NEW a \in Accounts, NEW n \in 1 .. MaxPasswords, NEW m \in Nat,
         CommitEffect(r, a, n, m), TypeOK', SecondFactors', GrantAdmitsOne'
  PROVE  IInv'
<1> USE DEF IInv
<1>1. /\ pc'[r] = "idle"
      /\ \A q \in Requests \ {r} : pc'[q] = pc[q] /\ job'[q] = job[q]
      /\ Exclusive'
  BY FinishFrees
<1>2. \A q \in Requests : pc'[q] \in Holding =>
        /\ q # r /\ pc[q] = pc'[q] /\ job'[q] = job[q] /\ job[q].token \in Tokens
        /\ token'[job[q].token] = token[job[q].token]
  BY <1>1 DEF Carries, CommitEffect, Holding
<1>3. Carries'
  <2>1. \A b \in Accounts : password[b] > 0 => password'[b] > 0
    <3> SUFFICES ASSUME NEW b \in Accounts, password[b] > 0
                 PROVE  password'[b] > 0
      OBVIOUS
    <3>1. password[b] \in Nat /\ password'[b] \in Nat
      BY AuthConstants DEF AuthConstants, TypeOK
    <3>2. QED
      BY <3>1 DEF CommitEffect
  <2>2. QED
    BY <1>1, <1>2, <2>1 DEF Carries, Holding
<1>4. SeesSessions'
  <2> SUFFICES ASSUME NEW q \in Requests, NEW s \in Sessions,
                      pc'[q] = "revoking", session'[s].live, ~session'[s].late,
                      session'[s].owner = job'[q].who
               PROVE  s \in job'[q].ends
    BY DEF SeesSessions
  <2>1. /\ q # r /\ pc[q] = "revoking" /\ job'[q] = job[q]
    BY <1>2 DEF Holding
  <2>2. CASE session'[s] = session[s]
    BY <2>1, <2>2 DEF SeesSessions
  <2>3. CASE session'[s] # session[s]
    <3>1. job[q].who = a /\ ~ResetUnderWay(a)
      BY <2>1, <2>3 DEF CommitEffect
    <3>2. token[job[q].token].kind = "reset" /\ token[job[q].token].owner = a
      BY <2>1, <3>1 DEF Carries, Holding
    <3>3. QED
      BY <2>1, <3>1, <3>2 DEF ResetUnderWay
  <2>4. QED
    BY <2>2, <2>3
<1>5. Forward'
  <2> SUFFICES ASSUME NEW b \in Accounts
               PROVE  resetTo'[b] <= password'[b]
    BY DEF Forward
  <2>1. password[b] \in Nat /\ password'[b] \in Nat /\ resetTo[b] \in Nat
    BY AuthConstants DEF AuthConstants, TypeOK
  <2>2. QED
    BY <2>1 DEF Forward, CommitEffect
<1>6. LoadedIsOpen'
  BY <1>2 DEF LoadedIsOpen, Holding
<1>7. SessionsEndWithReset'
  BY DEF SessionsEndWithReset, CommitEffect
<1>8. QED
  BY <1>1, <1>3, <1>4, <1>5, <1>6, <1>7

(* The tokens that handlers hold outlive the minting of another.           *)
LEMMA MintFresh ==
  ASSUME IInv, NEW a \in Accounts, NEW kind \in Kinds, Mint(kind, a)
  PROVE  /\ token' \in [Tokens -> TokenRows]
         /\ \A q \in Requests : pc[q] \in Holding =>
              token'[job[q].token] = token[job[q].token]
         /\ \A t \in Tokens : token'[t] = token[t] \/ token'[t].owner = a
         /\ \A t \in Tokens : token'[t] = token[t] \/ token'[t].kind = kind
<1> DEFINE row == [kind |-> kind, owner |-> a, open |-> TRUE]
<1>1. \A t \in Tokens : token[t].open => token[t] # NoToken
  BY DEF NoToken
<1>2. row.owner = a /\ row.kind = kind
  OBVIOUS
<1>3. /\ token' \in [Tokens -> TokenRows]
      /\ \A t \in Tokens : \/ token'[t] = token[t]
                           \/ token[t] = NoToken /\ token'[t] = row
  BY MintKeeps
<1> HIDE DEF row
<1>4. \A q \in Requests : pc[q] \in Holding =>
        token'[job[q].token] = token[job[q].token]
  BY <1>1, <1>3, HeldAreRows
<1>5. QED
  BY <1>2, <1>3, <1>4

(* Passwords that only go forward keep the second factors in order.        *)
LEMMA FactorsKeep ==
  ASSUME IInv, password' \in [Accounts -> 0 .. MaxPasswords],
         \A b \in Accounts : password'[b] >= password[b],
         \A t \in Tokens :
           \/ token'[t].kind = token[t].kind /\ token'[t].owner = token[t].owner
           \/ token'[t].owner \in Accounts /\ password'[token'[t].owner] > 0
           \/ token'[t].kind \in {"reset", "recovery", "verification"}
  PROVE  SecondFactors'
<1> SUFFICES ASSUME NEW t \in Tokens,
                    token'[t].kind \in {"mfa_enroll", "mfa_enrolling", "mfa_verify"}
             PROVE  password'[token'[t].owner] > 0
  BY DEF SecondFactors
<1>1. CASE token'[t].kind = token[t].kind /\ token'[t].owner = token[t].owner
  <2>1. token[t].owner \in Accounts /\ password[token[t].owner] > 0
    BY <1>1 DEF IInv, TypeOK, TokenRows, NoToken, SecondFactors
  <2>2. password[token[t].owner] \in Nat /\ password'[token[t].owner] \in Nat
    BY <2>1, AuthConstants DEF AuthConstants, IInv, TypeOK
  <2>3. QED
    BY <1>1, <2>1, <2>2
<1>2. QED
  BY <1>1

(* login's outcome: a session, or a challenge for an administrator.        *)
LEMMA IssueSound ==
  ASSUME IInv, NEW a \in Accounts, NEW n \in 1 .. MaxPasswords, NEW m \in Nat,
         Issue(a, n, m)
  PROVE  /\ token' \in [Tokens -> TokenRows] /\ session' \in [Sessions -> SessionRows]
         /\ \A q \in Requests : pc[q] \in Holding =>
              token'[job[q].token] = token[job[q].token]
         /\ \A t \in Tokens : token'[t] = token[t] \/ token'[t].owner = a
         /\ \A s \in Sessions : session'[s] = session[s]
              \/ /\ session'[s].owner = a /\ session'[s].password = n
                 /\ session'[s].late <=> (n # m \/ ResetUnderWay(a))
<1>1. CASE Open(a, n, m) /\ UNCHANGED token
  BY <1>1, OpenKeeps DEF IInv, TypeOK
<1>2. CASE Mint(IF a \in factor THEN "mfa_verify" ELSE "mfa_enroll", a) /\ UNCHANGED session
  <2>1. (IF a \in factor THEN "mfa_verify" ELSE "mfa_enroll") \in Kinds
    BY DEF Kinds
  <2>2. QED
    BY <1>2, <2>1, MintFresh DEF IInv, TypeOK
<1>3. QED
  BY <1>1, <1>2 DEF Issue

(* bootstrap_owner commits.                                                *)
LEMMA BootstrapKeeps ==
  ASSUME NEW r \in Requests, IInv, BootstrapCommit(r)
  PROVE  IInv'
<1> USE AuthConstants DEF AuthConstants, IInv
<1> DEFINE a == job[r].who
<1> DEFINE n == password[a] + 1
<1>1. /\ pc[r] = "bootstrapping" /\ a \in Accounts /\ Finish(r, "bootstrapping")
      /\ "bootstrapping" \in Steps
  BY DEF BootstrapCommit, Finish, Goto, Carries, Steps
<1>2. /\ n <= MaxPasswords /\ password' = [password EXCEPT ![a] = n] /\ Open(a, n, n)
      /\ known' = known \cup {a} /\ admins' = admins \cup {a}
      /\ UNCHANGED <<factor, resetTo, redeemed, token>>
  BY DEF BootstrapCommit
<1>3. n \in 1 .. MaxPasswords /\ n \in Nat
  BY <1>1, <1>2 DEF TypeOK
<1>4. /\ password' \in [Accounts -> 0 .. MaxPasswords]
      /\ \A b \in Accounts : password'[b] >= password[b]
      /\ password'[a] > 0
      /\ n >= resetTo[a]
  BY <1>1, <1>2, <1>3 DEF TypeOK, Forward
<1> HIDE DEF n
<1>5. /\ session' \in [Sessions -> SessionRows]
      /\ \A s \in Sessions : session'[s] = session[s]
           \/ /\ session'[s].owner = a /\ session'[s].password = n
              /\ session'[s].late <=> (n # n \/ ResetUnderWay(a))
  BY <1>1, <1>2, <1>3, OpenKeeps
<1>6. TypeOK'
  BY <1>1, <1>2, <1>4, <1>5, FinishFrees DEF TypeOK
<1>7. CommitEffect(r, a, n, n)
  BY <1>2, <1>4, <1>5 DEF CommitEffect
<1>8. SecondFactors'
  BY <1>2, <1>4, FactorsKeep
<1>9. GrantAdmitsOne'
  BY <1>2 DEF GrantAdmitsOne
<1>10. QED
  BY <1>1, <1>3, <1>6, <1>7, <1>8, <1>9, CommitsKeep

(* A grant that was unused has been redeemed for one account.              *)
LEMMA RedeemedOnce ==
  ASSUME IInv, NEW g \in Grants, NEW a \in Accounts, redeemed[g] = {},
         redeemed' = [redeemed EXCEPT ![g] = @ \cup {a}]
  PROVE  redeemed' \in [Grants -> SUBSET Accounts] /\ GrantAdmitsOne'
<1>1. redeemed'[g] = {a} /\ \A h \in Grants \ {g} : redeemed'[h] = redeemed[h]
  BY DEF IInv, TypeOK
<1>2. Cardinality({a}) = 1
  BY FS_Singleton
<1>3. QED
  BY <1>1, <1>2 DEF IInv, TypeOK, GrantAdmitsOne

(* complete_onboarding commits.                                            *)
LEMMA OnboardKeeps ==
  ASSUME NEW r \in Requests, IInv, Onboard(r)
  PROVE  IInv'
<1> USE DEF IInv, passwordVars
<1>1. /\ pc[r] = "registering" /\ job[r].who \in Accounts /\ job[r].grant \in Grants
      /\ pc' = [pc EXCEPT ![r] = "onboarded"] /\ job' = job
      /\ UNCHANGED <<admins, factor, password, resetTo, token, session>>
  BY DEF Onboard, Goto, Carries
<1>2. /\ known' \subseteq Accounts
      /\ redeemed' \in [Grants -> SUBSET Accounts] /\ GrantAdmitsOne'
  BY <1>1, RedeemedOnce DEF Onboard, TypeOK
<1>3. /\ pc' \in [Requests -> Steps] /\ pc'[r] = "onboarded"
      /\ \A q \in Requests \ {r} : pc'[q] = pc[q]
  BY <1>1 DEF TypeOK, Steps
<1>4. TypeOK'
  BY <1>1, <1>2, <1>3 DEF TypeOK
<1>5. Carries'
  BY <1>1, <1>3 DEF Carries, Holding
<1>6. Exclusive'
  BY <1>1, <1>3 DEF Exclusive, Holds, Holding
<1>7. SeesSessions' /\ LoadedIsOpen'
  BY <1>1, <1>3 DEF SeesSessions, LoadedIsOpen
<1>8. Forward' /\ SecondFactors' /\ SessionsEndWithReset'
  BY <1>1 DEF Forward, SecondFactors, SessionsEndWithReset
<1>9. QED
  BY <1>2, <1>4, <1>5, <1>6, <1>7, <1>8

(* native_register's second transaction.                                   *)
LEMMA RegisterKeeps ==
  ASSUME NEW r \in Requests, IInv, RegisterCommit(r)
  PROVE  IInv'
<1> USE AuthConstants DEF AuthConstants, IInv, accountVars
<1> DEFINE a == job[r].who
<1> DEFINE n == password[a] + 1
<1>1. /\ pc[r] = "onboarded" /\ a \in Accounts /\ Finish(r, "onboarded")
      /\ "onboarded" \in Steps
  BY DEF RegisterCommit, Finish, Goto, Carries, Steps
<1>2. /\ n <= MaxPasswords /\ password' = [password EXCEPT ![a] = n] /\ Issue(a, n, n)
      /\ UNCHANGED <<known, admins, factor, resetTo, redeemed>>
  BY DEF RegisterCommit
<1>3. n \in 1 .. MaxPasswords /\ n \in Nat
  BY <1>1, <1>2 DEF TypeOK
<1>4. /\ password' \in [Accounts -> 0 .. MaxPasswords]
      /\ \A b \in Accounts : password'[b] >= password[b]
      /\ password'[a] > 0
      /\ n >= resetTo[a]
  BY <1>1, <1>2, <1>3 DEF TypeOK, Forward
<1> HIDE DEF n
<1>5. /\ token' \in [Tokens -> TokenRows] /\ session' \in [Sessions -> SessionRows]
      /\ \A q \in Requests : pc[q] \in Holding =>
           token'[job[q].token] = token[job[q].token]
      /\ \A t \in Tokens : token'[t] = token[t] \/ token'[t].owner = a
      /\ \A s \in Sessions : session'[s] = session[s]
           \/ /\ session'[s].owner = a /\ session'[s].password = n
              /\ session'[s].late <=> (n # n \/ ResetUnderWay(a))
  BY <1>1, <1>2, <1>3, IssueSound
<1>6. TypeOK'
  BY <1>1, <1>2, <1>4, <1>5, FinishFrees DEF TypeOK
<1>7. \A q \in Requests : pc'[q] \in Holding => pc[q] \in Holding
  BY <1>1, FinishFrees DEF Holding
<1>8. CommitEffect(r, a, n, n)
  BY <1>2, <1>4, <1>5, <1>7 DEF CommitEffect
<1>9. SecondFactors'
  BY <1>1, <1>4, <1>5, FactorsKeep
<1>10. GrantAdmitsOne'
  BY <1>2 DEF GrantAdmitsOne
<1>11. QED
  BY <1>1, <1>3, <1>6, <1>8, <1>9, <1>10, CommitsKeep

(* login commits: with an old password the session is late.                *)
LEMMA LoginKeeps ==
  ASSUME NEW r \in Requests, IInv, LoginCommit(r)
  PROVE  IInv'
<1> USE AuthConstants DEF AuthConstants, IInv, accountVars, passwordVars
<1> DEFINE a == job[r].who
<1> DEFINE n == job[r].password
<1> DEFINE m == password[a]
<1>1. /\ pc[r] = "verified" /\ a \in Accounts /\ Finish(r, "verified")
      /\ "verified" \in Steps /\ n > 0 /\ m > 0
  BY DEF LoginCommit, Finish, Goto, Carries, Steps
<1>2. /\ Issue(a, n, m)
      /\ UNCHANGED <<known, admins, factor, password, resetTo, redeemed>>
  BY DEF LoginCommit
<1>3. n \in 1 .. MaxPasswords /\ m \in Nat
  BY <1>1 DEF TypeOK, Jobs
<1>4. /\ password' \in [Accounts -> 0 .. MaxPasswords]
      /\ \A b \in Accounts : password'[b] >= password[b]
      /\ password'[a] > 0
      /\ m >= resetTo[a]
  BY <1>1, <1>2 DEF TypeOK, Forward
<1> HIDE DEF n, m
<1>5. /\ token' \in [Tokens -> TokenRows] /\ session' \in [Sessions -> SessionRows]
      /\ \A q \in Requests : pc[q] \in Holding =>
           token'[job[q].token] = token[job[q].token]
      /\ \A t \in Tokens : token'[t] = token[t] \/ token'[t].owner = a
      /\ \A s \in Sessions : session'[s] = session[s]
           \/ /\ session'[s].owner = a /\ session'[s].password = n
              /\ session'[s].late <=> (n # m \/ ResetUnderWay(a))
  BY <1>1, <1>2, <1>3, IssueSound
<1>6. TypeOK'
  BY <1>1, <1>2, <1>4, <1>5, FinishFrees DEF TypeOK
<1>7. \A q \in Requests : pc'[q] \in Holding => pc[q] \in Holding
  BY <1>1, FinishFrees DEF Holding
<1>8. CommitEffect(r, a, n, m)
  BY <1>2, <1>4, <1>5, <1>7 DEF CommitEffect
<1>9. SecondFactors'
  BY <1>1, <1>4, <1>5, FactorsKeep
<1>10. GrantAdmitsOne'
  BY <1>2 DEF GrantAdmitsOne
<1>11. QED
  BY <1>1, <1>3, <1>6, <1>8, <1>9, <1>10, CommitsKeep

(* create_account_recovery_challenge commits.                              *)
LEMMA ClaimKeeps ==
  ASSUME NEW r \in Requests, IInv, ClaimCommit(r)
  PROVE  IInv'
<1> USE AuthConstants DEF AuthConstants, IInv, accountVars, passwordVars
<1> DEFINE a == job[r].who
<1>1. /\ pc[r] = "claiming" /\ a \in Accounts /\ job[r].grant \in Grants
      /\ Finish(r, "claiming") /\ "claiming" \in Steps
  BY DEF ClaimCommit, Finish, Goto, Carries, Steps
<1>2. /\ Mint("recovery", a) /\ "recovery" \in Kinds
      /\ UNCHANGED <<known, admins, factor, password, resetTo, session>>
  BY DEF ClaimCommit, Kinds
<1>3. redeemed' \in [Grants -> SUBSET Accounts] /\ GrantAdmitsOne'
  BY <1>1, RedeemedOnce DEF ClaimCommit
<1>4. /\ token' \in [Tokens -> TokenRows]
      /\ \A q \in Requests : pc[q] \in Holding =>
           token'[job[q].token] = token[job[q].token]
      /\ \A t \in Tokens : token'[t] = token[t] \/ token'[t].kind = "recovery"
  BY <1>1, <1>2, MintFresh
<1>5. /\ 1 \in 1 .. MaxPasswords /\ MaxPasswords \in Nat
      /\ MaxPasswords >= resetTo[a]
      /\ \A b \in Accounts : password[b] >= password[b]
  BY <1>1 DEF TypeOK
<1>6. TypeOK'
  BY <1>1, <1>2, <1>3, <1>4, FinishFrees DEF TypeOK
<1>7. \A q \in Requests : pc'[q] \in Holding => pc[q] \in Holding
  BY <1>1, FinishFrees DEF Holding
<1>8. CommitEffect(r, a, 1, MaxPasswords)
  BY <1>2, <1>4, <1>5, <1>7 DEF CommitEffect
<1>9. SecondFactors'
  BY <1>2, <1>4, <1>5, FactorsKeep DEF TypeOK
<1>10. QED
  BY <1>1, <1>3, <1>5, <1>6, <1>8, <1>9, CommitsKeep

(* What the use of a challenge leaves: the locks of the other handlers.    *)
LEMMA RedeemSound ==
  ASSUME NEW r \in Requests, NEW kind \in Kinds, IInv, Redeem(r, kind)
  PROVE  /\ pc[r] = "loaded" /\ job[r].who \in Accounts /\ Finish(r, "loaded")
         /\ job[r].token \in Tokens /\ token[job[r].token].kind = kind
         /\ token[job[r].token].owner = job[r].who
         /\ token' \in [Tokens -> TokenRows]
         /\ \A t \in Tokens : token'[t].kind = token[t].kind /\ token'[t].owner = token[t].owner
         /\ \A q \in Requests : pc'[q] \in Holding =>
              token'[job[q].token] = token[job[q].token]
         /\ UNCHANGED <<known, admins, resetTo, redeemed>>
<1> USE DEF Redeem
<1>1. pc[r] = "loaded" /\ pc[r] \in Holding /\ Finish(r, "loaded") /\ "loaded" \in Steps
  BY DEF Finish, Goto, Holding, Steps
<1>2. /\ job[r].token \in Tokens /\ job[r].who \in Accounts
      /\ token[job[r].token].owner = job[r].who
  BY <1>1, HeldAreRows
<1>3. /\ token' \in [Tokens -> TokenRows]
      /\ \A t \in Tokens : /\ token'[t].kind = token[t].kind
                           /\ token'[t].owner = token[t].owner
                           /\ t # job[r].token => token'[t] = token[t]
  BY <1>2, CloseKeeps DEF IInv
<1>4. ASSUME NEW q \in Requests, pc'[q] \in Holding
      PROVE  token'[job[q].token] = token[job[q].token]
  <2>1. q # r /\ pc[q] \in Holding
    BY <1>1, <1>4, FinishFrees DEF Holding
  <2>2. job[q].token \in Tokens /\ job[q].token # job[r].token
    BY <1>1, <2>1, HeldAreRows DEF IInv, Exclusive, Holds, Holding
  <2>3. QED
    BY <1>3, <2>2
<1>5. QED
  BY <1>1, <1>2, <1>3, <1>4

(* complete_account_recovery commits.                                      *)
LEMMA RecoveryKeeps ==
  ASSUME NEW r \in Requests, IInv, RecoveryCommit(r)
  PROVE  IInv'
<1> USE AuthConstants DEF AuthConstants, IInv
<1> DEFINE a == job[r].who
<1>1. "recovery" \in Kinds /\ "loaded" \in Steps
  BY DEF Kinds, Steps
<1>2. /\ a \in Accounts /\ Finish(r, "loaded")
      /\ token' \in [Tokens -> TokenRows]
      /\ \A t \in Tokens : token'[t].kind = token[t].kind /\ token'[t].owner = token[t].owner
      /\ \A q \in Requests : pc'[q] \in Holding =>
           token'[job[q].token] = token[job[q].token]
      /\ UNCHANGED <<known, admins, resetTo, redeemed, factor, session>>
  BY <1>1, RedeemSound DEF RecoveryCommit
<1>3. /\ password' \in [Accounts -> 0 .. MaxPasswords]
      /\ \A b \in Accounts : password'[b] >= password[b]
      /\ 1 \in 1 .. MaxPasswords /\ MaxPasswords \in Nat /\ MaxPasswords >= resetTo[a]
  BY <1>2 DEF RecoveryCommit, TypeOK
<1>4. TypeOK'
  BY <1>1, <1>2, <1>3, FinishFrees DEF TypeOK
<1>5. CommitEffect(r, a, 1, MaxPasswords)
  BY <1>2, <1>3 DEF CommitEffect
<1>6. SecondFactors'
  BY <1>2, <1>3, FactorsKeep
<1>7. GrantAdmitsOne'
  BY <1>2 DEF GrantAdmitsOne
<1>8. QED
  BY <1>1, <1>2, <1>3, <1>4, <1>5, <1>6, <1>7, CommitsKeep

(* The second factor is confirmed or verified, and the session opened.     *)
LEMMA MfaKeeps ==
  ASSUME NEW r \in Requests, IInv, MfaCommit(r)
  PROVE  IInv'
<1> USE AuthConstants DEF AuthConstants, IInv
<1> DEFINE a == job[r].who
<1> DEFINE n == password[a]
<1>1. "mfa_enrolling" \in Kinds /\ "mfa_verify" \in Kinds /\ "loaded" \in Steps
  BY DEF Kinds, Steps
<1>2. PICK kind \in {"mfa_enrolling", "mfa_verify"} : Redeem(r, kind)
  BY DEF MfaCommit
<1>3. /\ a \in Accounts /\ Finish(r, "loaded") /\ job[r].token \in Tokens
      /\ token[job[r].token].kind = kind /\ token[job[r].token].owner = a
      /\ token' \in [Tokens -> TokenRows]
      /\ \A t \in Tokens : token'[t].kind = token[t].kind /\ token'[t].owner = token[t].owner
      /\ \A q \in Requests : pc'[q] \in Holding =>
           token'[job[q].token] = token[job[q].token]
      /\ UNCHANGED <<known, admins, resetTo, redeemed>>
  BY <1>1, <1>2, RedeemSound
<1>4. Open(a, n, n) /\ password' = password /\ factor' \subseteq Accounts
  BY <1>3 DEF MfaCommit, TypeOK
<1>5. n \in 1 .. MaxPasswords /\ n \in Nat /\ n >= resetTo[a]
  BY <1>3 DEF SecondFactors, TypeOK, Forward
<1>6. \A b \in Accounts : password'[b] >= password[b]
  BY <1>4 DEF TypeOK
<1> HIDE DEF n
<1>7. /\ session' \in [Sessions -> SessionRows]
      /\ \A s \in Sessions : session'[s] = session[s]
           \/ /\ session'[s].owner = a /\ session'[s].password = n
              /\ session'[s].late <=> (n # n \/ ResetUnderWay(a))
  BY <1>3, <1>4, <1>5, OpenKeeps
<1>8. TypeOK'
  BY <1>1, <1>3, <1>4, <1>7, FinishFrees DEF TypeOK
<1>9. CommitEffect(r, a, n, n)
  BY <1>3, <1>5, <1>6, <1>7 DEF CommitEffect
<1>10. SecondFactors'
  BY <1>3, <1>4, <1>6, FactorsKeep DEF TypeOK
<1>11. GrantAdmitsOne'
  BY <1>3 DEF GrantAdmitsOne
<1>12. QED
  BY <1>1, <1>3, <1>5, <1>8, <1>9, <1>10, <1>11, CommitsKeep

(* Every step keeps the invariant.                                         *)
LEMMA StepKeeps == IInv /\ [Next]_vars => IInv'
<1> SUFFICES ASSUME IInv, [Next]_vars
             PROVE  IInv'
  OBVIOUS
<1>1. ASSUME NEW r \in Requests, NEW a \in Accounts,
             \/ BootstrapRead(r, a) \/ LoginRead(r, a) \/ ForgotRead(r, a)
             \/ \E g \in Grants : RegisterRead(r, a, g) \/ ClaimRead(r, a, g)
      PROVE  IInv'
  BY <1>1, ReadsKeep
<1>2. ASSUME NEW r \in Requests, Abort(r) \/ Mailed(r)
      PROVE  IInv'
  BY <1>2, EndsKeep
<1>3. ASSUME NEW r \in Requests, MailFailed(r) \/ VerificationCommit(r) \/ EnrollStart(r)
      PROVE  IInv'
  BY <1>3, ClosingsKeep
<1>4. ASSUME NEW r \in Requests,
             \/ BootstrapCommit(r) \/ Onboard(r) \/ RegisterCommit(r) \/ ClaimCommit(r)
             \/ LoginCommit(r)
      PROVE  IInv'
  BY <1>4, BootstrapKeeps, OnboardKeeps, RegisterKeeps, ClaimKeeps, LoginKeeps
<1>5. ASSUME NEW r \in Requests,
             \/ ResetRevoke(r) \/ ResetCommit(r) \/ RecoveryCommit(r) \/ MfaCommit(r)
      PROVE  IInv'
  BY <1>5, ResetRevokeKeeps, ResetCommitKeeps, RecoveryKeeps, MfaKeeps
<1>6. ASSUME NEW r \in Requests, NEW t \in Tokens, ForgotCommit(r, t) \/ Load(r, t)
      PROVE  IInv'
  BY <1>6, ForgotKeeps, LoadKeeps
<1>7. ASSUME \/ \E a \in Accounts : VerificationAsked(a)
             \/ \E t \in Tokens : Expire(t)
      PROVE  IInv'
  BY <1>7, TokenEventsKeep
<1>8. ASSUME NEW s \in Sessions, EndSession(s)
      PROVE  IInv'
  BY <1>8, EndSessionKeeps
<1>9. CASE UNCHANGED vars
  BY <1>9 DEF vars, accountVars, passwordVars, IInv, TypeOK, Carries, Exclusive, Holds,
              SeesSessions, Forward, SecondFactors, LoadedIsOpen, SessionsEndWithReset,
              GrantAdmitsOne
<1>10. CASE Next
  BY <1>10, <1>1, <1>2, <1>3, <1>4, <1>5, <1>6, <1>7, <1>8 DEF Next
<1>11. QED
  BY <1>9, <1>10

(* The invariant holds in every reachable state.                           *)
LEMMA Invariance == Spec => []IInv
BY InitEstablishes, StepKeeps, PTL DEF Spec
-----------------------------------------------------------------------------
(* Every variable of the login keeps its type.                             *)
THEOREM TypeCorrect == Spec => []TypeOK
<1>1. IInv => TypeOK
  BY DEF IInv
<1>2. QED
  BY <1>1, Invariance, PTL

(* A token that _load_challenge or reset_password has locked is unused     *)
(* until the transaction that locked it ends: no token takes effect twice. *)
THEOREM LoadedStaysOpen == Spec => []LoadedIsOpen
<1>1. IInv => LoadedIsOpen
  BY DEF IInv
<1>2. QED
  BY <1>1, Invariance, PTL

(* After reset_password no session is left that was opened with an older   *)
(* password before the reset began.                                        *)
THEOREM SessionsEnd == Spec => []SessionsEndWithReset
<1>1. IInv => SessionsEndWithReset
  BY DEF IInv
<1>2. QED
  BY <1>1, Invariance, PTL

(* An access grant is redeemed for at most one account.                    *)
THEOREM GrantOnce == Spec => []GrantAdmitsOne
<1>1. IInv => GrantAdmitsOne
  BY DEF IInv
<1>2. QED
  BY <1>1, Invariance, PTL
=============================================================================
