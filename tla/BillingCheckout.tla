---------------------------- MODULE BillingCheckout ----------------------------
(***************************************************************************)
(* create_checkout (src/src/orkio_v2/billing/service.py) and the payment   *)
(* provider it calls across a non-transactional boundary.                  *)
(*                                                                         *)
(* A request commits a row under a unique idempotency key, and only then   *)
(* sends POST /paymentLinks.  The answer may be lost, late, or never come, *)
(* and the request may die at any step, so a later request of the same key *)
(* looks the link up by its external reference instead of posting again.   *)
(* Each element of Requests is a client that calls create_checkout with    *)
(* the key KeyOf[r] as often as it likes; the identifier that r's attempt  *)
(* mints for the row (uid()) is written r.  At most one attempt of r ever  *)
(* inserts, so the name is never used for two rows.                        *)
(***************************************************************************)
EXTENDS Naturals, FiniteSets

CONSTANTS
  Requests,    \* clients of POST /checkouts
  Keys,        \* values of the Idempotency-Key header, of one user
  KeyOf,       \* the key each client sends
  None,        \* no row identifier
  MaxCrashes   \* bound on the requests that die half way

ASSUME CheckoutConstants ==
  /\ KeyOf \in [Requests -> Keys]
  /\ None \notin Requests
  /\ MaxCrashes \in Nat

(* The n-th payment link created under external reference r.               *)
Links == Requests \X Nat

NoLink == <<None, 0>>

Steps == {"idle", "claim", "found", "post", "wait", "bind"}

Operations == {"none", "provider_call_started", "outcome_unknown", "failed", "completed"}

VARIABLES
  \* billing_checkouts, one row per key
  rowId, rowStatus, rowOp, rowLink,
  \* the running request of each client: its step, the row it loaded, the
  \* link it is about to store
  pc, snap, answer,
  \* the provider: how often a reference was posted, calls under way, links
  \* that exist, calls it refused with a 4xx
  posts, wire, links, refused,
  \* links whose URL a client has received
  told,
  crashes

rowVars == <<rowId, rowStatus, rowOp, rowLink>>
requestVars == <<pc, snap, answer>>
providerVars == <<posts, wire, links, refused>>
vars == <<rowVars, requestVars, providerVars, told, crashes>>

RowOf(k) == [id |-> rowId[k], status |-> rowStatus[k], link |-> rowLink[k]]

NoRow == [id |-> None, status |-> "pending", link |-> NoLink]

Init ==
  /\ rowId = [k \in Keys |-> None]
  /\ rowStatus = [k \in Keys |-> "pending"]
  /\ rowOp = [k \in Keys |-> "none"]
  /\ rowLink = [k \in Keys |-> NoLink]
  /\ pc = [r \in Requests |-> "idle"]
  /\ snap = [r \in Requests |-> NoRow]
  /\ answer = [r \in Requests |-> NoLink]
  /\ posts = [r \in Requests |-> 0]
  /\ wire = {}
  /\ links = {}
  /\ refused = {}
  /\ told = [k \in Keys |-> {}]
  /\ crashes = 0

(***************************************************************************)
(* The request                                                             *)
(***************************************************************************)
Goto(r, from, to) ==
  /\ pc[r] = from
  /\ pc' = [pc EXCEPT ![r] = to]

(* The request ends: its session is closed and what it loaded is gone.     *)
Finish(r, from) ==
  /\ Goto(r, from, "idle")
  /\ snap' = [snap EXCEPT ![r] = NoRow]
  /\ answer' = [answer EXCEPT ![r] = NoLink]

(* Load the row of the key, for _reconcile_existing_checkout.              *)
Load(r, from) ==
  /\ Goto(r, from, "found")
  /\ rowId[KeyOf[r]] # None
  /\ snap' = [snap EXCEPT ![r] = RowOf(KeyOf[r])]
  /\ UNCHANGED <<answer, rowVars, providerVars, told, crashes>>

ArriveNew(r) ==
  /\ Goto(r, "idle", "claim")
  /\ rowId[KeyOf[r]] = None
  /\ UNCHANGED <<snap, answer, rowVars, providerVars, told, crashes>>

ArriveKnown(r) == Load(r, "idle")

(* The durable boundary: insert the row and commit, under the unique key.  *)
Claim(r) ==
  LET k == KeyOf[r] IN
  /\ Goto(r, "claim", "post")
  /\ rowId[k] = None
  /\ rowId' = [rowId EXCEPT ![k] = r]
  /\ rowOp' = [rowOp EXCEPT ![k] = "provider_call_started"]
  /\ UNCHANGED <<rowStatus, rowLink, snap, answer, providerVars, told, crashes>>

(* IntegrityError: another request claimed the key since this one looked.  *)
ClaimConflict(r) == Load(r, "claim")

Post(r) ==
  LET l == <<r, posts[r] + 1>> IN
  /\ Goto(r, "post", "wait")
  /\ posts' = [posts EXCEPT ![r] = @ + 1]
  /\ wire' = wire \cup {l}
  /\ answer' = [answer EXCEPT ![r] = l]
  /\ UNCHANGED <<snap, rowVars, links, refused, told, crashes>>

(* A refusal known to be final: status and operation become failed.        *)
RecordFailed(r, from) ==
  LET k == KeyOf[r] IN
  /\ Finish(r, from)
  /\ rowStatus' = [rowStatus EXCEPT ![k] = "failed"]
  /\ rowOp' = [rowOp EXCEPT ![k] = "failed"]
  /\ UNCHANGED <<rowId, rowLink, providerVars, told, crashes>>

(* _assert_configured raises before anything is sent.                      *)
NotConfigured(r) == RecordFailed(r, "post")

PostRefused(r) == answer[r] \in refused /\ RecordFailed(r, "wait")

(* Broken variant: an uncertain outcome is reported as a failure.          *)
PostUnknownAsFailed(r) == RecordFailed(r, "wait")

(* Timeout, connection error, 5xx or an unreadable body: whatever the      *)
(* provider did or will still do with the call, only the operation's state *)
(* is written.                                                             *)
PostUnknown(r) ==
  LET k == KeyOf[r] IN
  /\ Finish(r, "wait")
  /\ rowOp' = [rowOp EXCEPT ![k] = "outcome_unknown"]
  /\ UNCHANGED <<rowId, rowStatus, rowLink, providerVars, told, crashes>>

PostAnswered(r) ==
  /\ Goto(r, "wait", "bind")
  /\ answer[r] \in links
  /\ UNCHANGED <<snap, answer, rowVars, providerVars, told, crashes>>

(* _bind_provider_checkout: only the columns it assigns are written; the   *)
(* URL leaves with the response, after the commit.                         *)
Bind(r) ==
  LET k == KeyOf[r] IN
  /\ Finish(r, "bind")
  /\ rowLink' = [rowLink EXCEPT ![k] = answer[r]]
  /\ rowOp' = [rowOp EXCEPT ![k] = "completed"]
  /\ told' = [told EXCEPT ![k] = @ \cup {answer[r]}]
  /\ UNCHANGED <<rowId, rowStatus, providerVars, crashes>>

(* _reconcile_existing_checkout, on the row as it was loaded.              *)
ReturnBound(r) ==
  /\ Finish(r, "found")
  /\ snap[r].link # NoLink
  /\ told' = [told EXCEPT ![KeyOf[r]] = @ \cup {snap[r].link}]
  /\ UNCHANGED <<rowVars, providerVars, crashes>>

ReturnFailed(r) ==
  /\ Finish(r, "found")
  /\ snap[r].link = NoLink
  /\ snap[r].status = "failed"
  /\ UNCHANGED <<rowVars, providerVars, told, crashes>>

MustLookUp(r) ==
  /\ pc[r] = "found"
  /\ snap[r].link = NoLink
  /\ snap[r].status # "failed"

(* The links whose external reference is the checkout's.                   *)
Exact(r) == {l \in links : l[1] = snap[r].id}

LookupFound(r) ==
  /\ MustLookUp(r)
  /\ \E l \in Exact(r) : Exact(r) = {l} /\ answer' = [answer EXCEPT ![r] = l]
  /\ pc' = [pc EXCEPT ![r] = "bind"]
  /\ UNCHANGED <<snap, rowVars, providerVars, told, crashes>>

(* Broken variants: posting again, or giving the checkout up, when the     *)
(* lookup finds nothing.                                                   *)
LookupReposts(r) ==
  /\ MustLookUp(r)
  /\ snap[r].id = r
  /\ Goto(r, "found", "post")
  /\ UNCHANGED <<snap, answer, rowVars, providerVars, told, crashes>>

LookupGivesUp(r) ==
  /\ MustLookUp(r)
  /\ Exact(r) = {}
  /\ RecordFailed(r, "found")

(* No match, several matches, or no usable answer: an error to the caller  *)
(* and nothing written; in particular no second POST.                      *)
LookupFails(r) ==
  /\ MustLookUp(r)
  /\ Finish(r, "found")
  /\ UNCHANGED <<rowVars, providerVars, told, crashes>>

(* The process dies; the database and the provider keep what they have.    *)
Crash(r) ==
  /\ pc[r] # "idle"
  /\ crashes < MaxCrashes
  /\ crashes' = crashes + 1
  /\ Finish(r, pc[r])
  /\ UNCHANGED <<rowVars, providerVars, told>>

(***************************************************************************)
(* The provider acts on a call at any time, even after its caller gave up. *)
(***************************************************************************)
Accept(l) ==
  /\ l \in wire
  /\ wire' = wire \ {l}
  /\ links' = links \cup {l}
  /\ UNCHANGED <<rowVars, requestVars, posts, refused, told, crashes>>

Refuse(l) ==
  /\ l \in wire
  /\ wire' = wire \ {l}
  /\ refused' = refused \cup {l}
  /\ UNCHANGED <<rowVars, requestVars, posts, links, told, crashes>>

(* The call is lost on the way, or dropped inside the provider.            *)
Lose(l) ==
  /\ l \in wire
  /\ wire' = wire \ {l}
  /\ UNCHANGED <<rowVars, requestVars, posts, links, refused, told, crashes>>

Arrive(r) == ArriveNew(r) \/ ArriveKnown(r)

Proceed(r) ==
  \/ Claim(r) \/ ClaimConflict(r)
  \/ Post(r) \/ NotConfigured(r)
  \/ PostRefused(r) \/ PostUnknown(r) \/ PostAnswered(r)
  \/ Bind(r)
  \/ ReturnBound(r) \/ ReturnFailed(r) \/ LookupFound(r) \/ LookupFails(r)

Provider(l) == Accept(l) \/ Refuse(l) \/ Lose(l)

Next ==
  \/ \E r \in Requests : Arrive(r) \/ Proceed(r) \/ Crash(r)
  \/ \E l \in wire : Provider(l)

Spec == Init /\ [][Next]_vars

(* A running request takes its next step (the HTTP timeout ends every      *)
(* wait), the client retries until it has an answer, and the provider's    *)
(* lookup does not fail for ever.                                          *)
Fairness ==
  \A r \in Requests :
    /\ WF_vars(Proceed(r))
    /\ WF_vars(Arrive(r))
    /\ SF_vars(LookupFound(r))

FairSpec == Spec /\ Fairness

--------------------------------------------------------------------------------
(***************************************************************************)
(* Properties                                                              *)
(***************************************************************************)

(* Every variable has its type.                                            *)
TypeOK ==
  /\ rowId \in [Keys -> Requests \cup {None}]
  /\ rowStatus \in [Keys -> {"pending", "failed"}]
  /\ rowOp \in [Keys -> Operations]
  /\ rowLink \in [Keys -> Links \cup {NoLink}]
  /\ pc \in [Requests -> Steps]
  /\ snap \in [Requests -> [id : Requests \cup {None},
                            status : {"pending", "failed"},
                            link : Links \cup {NoLink}]]
  /\ answer \in [Requests -> Links \cup {NoLink}]
  /\ posts \in [Requests -> Nat]
  /\ wire \subseteq Links /\ links \subseteq Links /\ refused \subseteq Links
  /\ told \in [Keys -> SUBSET Links]
  /\ crashes \in 0 .. MaxCrashes

(* Whatever the requests of a key do, and wherever they die, the provider  *)
(* is asked for a payment link once: two clients of one key, or a client   *)
(* and its own retry, never post twice ("A racing request can only observe *)
(* an already-claimed idempotency key and must reconcile/read, never issue *)
(* a second provider POST").                                               *)
OnePostPerKey ==
  \A r, q \in Requests :
    /\ posts[r] <= 1
    /\ posts[r] > 0 /\ posts[q] > 0 /\ KeyOf[r] = KeyOf[q] => r = q

(* A checkout reported as failed can never be paid: the provider holds no  *)
(* link for it and no call that could still create one is under way.  An   *)
(* uncertain outcome must therefore never be recorded as failed.           *)
FailedIsFinal ==
  \A k \in Keys :
    rowStatus[k] = "failed" => \A l \in links \cup wire : l[1] # rowId[k]

(* The row is only ever bound to a link that exists at the provider and    *)
(* that carries this row's external reference, whoever stored it: the      *)
(* request that posted or one that reconciled.                             *)
BoundToItsOwnLink ==
  \A k \in Keys :
    rowLink[k] # NoLink => rowLink[k] \in links /\ rowLink[k][1] = rowId[k]

(* A URL reaches a client only when the row already names its link, so the *)
(* webhook of any payment made through it finds its checkout.              *)
ToldIsDurable ==
  \A k \in Keys : \A l \in told[k] : rowLink[k] = l

(* The anchor of reconciliation is never lost: no request erases or        *)
(* replaces the row's identifier or its link, nor revives a failed row.    *)
AnchorStep ==
  \A k \in Keys :
    /\ rowId[k] # None => rowId'[k] = rowId[k]
    /\ rowLink[k] # NoLink => rowLink'[k] = rowLink[k]
    /\ rowStatus[k] = "failed" => rowStatus'[k] = "failed"

AnchorKept == [][AnchorStep]_vars

(* A link the provider created is handed out in the end, even if the       *)
(* answer to the POST was lost or its request died: a client that retries  *)
(* finds it.                                                               *)
CreatedLinkIsDelivered ==
  \A r \in Requests :
    (\E l \in links : l[1] = r) ~> (\E l \in told[KeyOf[r]] : l[1] = r)

(* The promise of the module CheckoutPromise, key by key.                  *)
phaseAt(k) ==
  IF rowId[k] = None THEN "none"
  ELSE IF rowStatus[k] = "failed" THEN "failed"
  ELSE IF rowLink[k] # NoLink THEN "bound" ELSE "claimed"

phaseOf == [k \in Keys |-> phaseAt(k)]

issuedOf == [k \in Keys |-> \E l \in links : KeyOf[l[1]] = k]

Promise == INSTANCE CheckoutPromise WITH phase <- phaseOf, issued <- issuedOf

(* create_checkout keeps the promise: every step of the requests, the      *)
(* crashes and the provider is a step of CheckoutPromise or changes        *)
(* nothing in it.                                                          *)
KeepsPromise == Promise!PromiseSpec
================================================================================
