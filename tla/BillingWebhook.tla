---------------------------- MODULE BillingWebhook -----------------------------
(***************************************************************************)
(* process_asaas_webhook (src/src/orkio_v2/billing/service.py): provider   *)
(* events, delivered at least once and in any order, drive checkouts,      *)
(* entitlements, transactions and the wallet with its ledger.              *)
(*                                                                         *)
(* A handler is one database transaction, READ COMMITTED, with no locking  *)
(* read.  Its rows lock when the session flushes: the event row at         *)
(* _claim_event, the checkout row at the first query after its status was  *)
(* assigned, the entitlement row at the query of _record_transaction; the  *)
(* wallet row and the ledger only at the commit.  What it read before a    *)
(* lock it does not read again, and an UPDATE writes only the columns whose*)
(* value changed against what was read.                                    *)
(*                                                                         *)
(* Handlers are the processes that run webhooks.  The route is an          *)
(* "async def" that never awaits inside the handler, so one server process *)
(* runs one handler at a time; several handlers stand for several server   *)
(* processes.  Left out: events without a payment id or link, hence the    *)
(* column provider_payment_id that only they read; token and JSON checks,  *)
(* which end a call before any write.                                      *)
(***************************************************************************)
EXTENDS Naturals, FiniteSets, FiniteSetsExt

CONSTANTS
  Handlers,    \* server processes
  Users, Checkouts, Payments,
  Owner,       \* Owner[c]: the user of checkout c
  Kind,        \* Kind[c]: "plan" or "topup"
  Credit,      \* Credit[c]: included_credit_usd of its item
  LinkOf,      \* LinkOf[p]: the checkout bound to payment p's link, or None
  None,
  MaxSpend,    \* bound on the credit spent outside this code
  MaxEvents    \* bound on the events the provider emits

ASSUME WebhookConstants ==
  /\ Owner \in [Checkouts -> Users]
  /\ Kind \in [Checkouts -> {"plan", "topup"}]
  /\ Credit \in [Checkouts -> Nat]
  /\ None \notin Checkouts
  /\ LinkOf \in [Payments -> Checkouts \cup {None}]
  /\ MaxSpend \in Nat /\ MaxEvents \in Nat

EventTypes ==
  {"CREATED", "OVERDUE", "DELETED", "CONFIRMED", "RECEIVED", "REFUNDED",
   "CHARGEBACK_REQUESTED", "CHARGEBACK_DISPUTE"}

Events == EventTypes \X Payments

Statuses == {"pending", "paid", "expired", "cancelled", "refunded", "chargeback"}

VARIABLES
  \* the provider: the last event of each payment, and every event emitted
  last, sent,
  \* the database: events committed, checkouts, entitlements (one row per
  \* user), transactions, wallets (one row per user) and their ledger
  seen, status, ent, txs, wallet, ledger,
  \* the running handlers: their step, event, and what they have read
  at, ev, sawEnt, sawWallet,
  \* credit spent outside this code
  spent

providerVars == <<last, sent>>
dbVars == <<seen, status, ent, txs, wallet, ledger>>
readVars == <<sawEnt, sawWallet>>
vars == <<providerVars, dbVars, at, ev, readVars, spent>>

NoEnt == [status |-> "none", checkout |-> None]
NoWallet == [made |-> FALSE, balance |-> 0, credited |-> 0, debited |-> 0,
             quarantined |-> 0, held |-> FALSE]

Init ==
  /\ last = [p \in Payments |-> "NONE"]
  /\ sent = {}
  /\ seen = {}
  /\ status = [c \in Checkouts |-> "pending"]
  /\ ent = [u \in Users |-> NoEnt]
  /\ txs = {}
  /\ wallet = [u \in Users |-> NoWallet]
  /\ ledger = {}
  /\ at = [h \in Handlers |-> "idle"]
  /\ ev = [h \in Handlers |-> None]
  /\ sawEnt = [h \in Handlers |-> NoEnt]
  /\ sawWallet = [h \in Handlers |-> NoWallet]
  /\ spent = [u \in Users |-> 0]

(***************************************************************************)
(* The provider, as far as this code knows it: which event may follow      *)
(* which in the life of one payment.                                       *)
(***************************************************************************)
Follows ==
  {<<"NONE", "CREATED">>,
   <<"CREATED", "OVERDUE">>, <<"CREATED", "DELETED">>, <<"OVERDUE", "DELETED">>,
   <<"CREATED", "CONFIRMED">>, <<"OVERDUE", "CONFIRMED">>, <<"CONFIRMED", "RECEIVED">>,
   <<"CONFIRMED", "REFUNDED">>, <<"RECEIVED", "REFUNDED">>,
   <<"CONFIRMED", "CHARGEBACK_REQUESTED">>, <<"RECEIVED", "CHARGEBACK_REQUESTED">>,
   <<"CHARGEBACK_REQUESTED", "CHARGEBACK_DISPUTE">>}

Emit(p, t) ==
  /\ <<last[p], t>> \in Follows
  /\ Cardinality(sent) < MaxEvents
  /\ last' = [last EXCEPT ![p] = t]
  /\ sent' = sent \cup {<<t, p>>}
  /\ UNCHANGED <<dbVars, at, ev, readVars, spent>>

(* Nothing in src/ debits a wallet; the tests edit balance and debit       *)
(* together, between two webhooks, and so does this action.                *)
Spend(u) ==
  /\ \A h \in Handlers : at[h] = "idle"
  /\ wallet[u].balance > 0
  /\ spent[u] < MaxSpend
  /\ spent' = [spent EXCEPT ![u] = @ + 1]
  /\ wallet' = [wallet EXCEPT ![u].balance = @ - 1, ![u].debited = @ + 1]
  /\ UNCHANGED <<providerVars, seen, status, ent, txs, ledger, at, ev, readVars>>

(***************************************************************************)
(* _billing_transition: does an event of type t act on a checkout in state *)
(* cur, and which state does it lead to?                                   *)
(***************************************************************************)
Terminal == {"refunded", "chargeback"}

ConfirmEvents == {"CONFIRMED", "RECEIVED"}

LapseEvents == {"OVERDUE", "DELETED"}

ReversalEvents == {"REFUNDED", "CHARGEBACK_REQUESTED", "CHARGEBACK_DISPUTE"}

NextStatus ==
  [t \in EventTypes |->
     IF t \in ConfirmEvents THEN "paid"
     ELSE IF t = "OVERDUE" THEN "expired"
     ELSE IF t = "DELETED" THEN "cancelled"
     ELSE IF t = "REFUNDED" THEN "refunded" ELSE "chargeback"]

(* Broken variants: an overdue notice lapses a paid checkout; a late       *)
(* payment of a lapsed one is ignored.                                     *)
EffectiveOverduePaid(cur, t) ==
  /\ t \in ConfirmEvents \cup LapseEvents \cup ReversalEvents
  /\ cur \notin Terminal
  /\ t \in ConfirmEvents \cup {"DELETED"} => cur \notin {"paid", "cancelled"}
  /\ t = "OVERDUE" => cur \notin {"expired", "cancelled"}

EffectiveInTimeOnly(cur, t) ==
  /\ t \in ConfirmEvents \cup LapseEvents \cup ReversalEvents
  /\ cur \notin Terminal
  /\ t \notin ReversalEvents => cur \notin {"paid", "expired", "cancelled"}

Effective(cur, t) ==
  /\ t \in ConfirmEvents \cup LapseEvents \cup ReversalEvents
  /\ cur \notin Terminal
  /\ t \in ConfirmEvents \cup {"DELETED"} => cur \notin {"paid", "cancelled"}
  /\ t = "OVERDUE" => cur \notin {"paid", "expired", "cancelled"}

(***************************************************************************)
(* The handler                                                             *)
(***************************************************************************)
typeOf(h) == ev[h][1]
payOf(h) == ev[h][2]
checkoutOf(h) == LinkOf[payOf(h)]
userOf(h) == Owner[checkoutOf(h)]
target(h) == NextStatus[typeOf(h)]

(* _claim_event: the unique event key lets one handler have the event, and *)
(* a committed event is answered "deduplicated" without any write.         *)
Claims(h, e) ==
  /\ at[h] = "idle"
  /\ e \notin seen
  /\ \A g \in Handlers : ev[g] # e

Acts(e) == LinkOf[e[2]] # None /\ Effective(status[LinkOf[e[2]]], e[1])

(* No checkout, an unsupported event, or a guarded transition: the event   *)
(* row is committed as ignored and will never be looked at again.          *)
Ignore(h, e) ==
  /\ Claims(h, e)
  /\ ~Acts(e)
  /\ seen' = seen \cup {e}
  /\ UNCHANGED <<providerVars, status, ent, txs, wallet, ledger, at, ev, readVars, spent>>

(* The checkout is read and the transition decided, on an unlocked row:    *)
(* what the handler goes on to write does not depend on it any more.       *)
Receive(h, e) ==
  /\ Claims(h, e)
  /\ Acts(e)
  /\ at' = [at EXCEPT ![h] = "read"]
  /\ ev' = [ev EXCEPT ![h] = e]
  /\ UNCHANGED <<providerVars, dbVars, readVars, spent>>

(* The new status is flushed: the checkout row is held until the handler   *)
(* ends.  The entitlement is read.                                         *)
LockCheckout(h) ==
  /\ at[h] = "read"
  /\ \A g \in Handlers :
       at[g] \in {"locked", "flushed"} => checkoutOf(g) # checkoutOf(h)
  /\ at' = [at EXCEPT ![h] = "locked"]
  /\ sawEnt' = [sawEnt EXCEPT ![h] = ent[userOf(h)]]
  /\ UNCHANGED <<providerVars, dbVars, ev, sawWallet, spent>>

(* Broken variant: a top-up's handler revokes the user's plan.             *)
WritesEntOfAnyKind(h) == typeOf(h) \in ConfirmEvents \/ sawEnt[h] # NoEnt

(* A plan's handler writes the entitlement row, except that there is       *)
(* nothing to revoke for a user who has none.                              *)
WritesEnt(h) ==
  /\ Kind[checkoutOf(h)] = "plan"
  /\ typeOf(h) \in ConfirmEvents \/ sawEnt[h] # NoEnt

(* The entitlement is flushed, and its row held; an INSERT against a row   *)
(* that appeared in the meantime fails and the handler can only abort.     *)
(* The wallet is read.                                                     *)
FlushEntitlement(h) ==
  /\ at[h] = "locked"
  /\ WritesEnt(h) =>
       /\ \A g \in Handlers \ {h} :
            at[g] = "flushed" /\ WritesEnt(g) => userOf(g) # userOf(h)
       /\ sawEnt[h] = NoEnt => ent[userOf(h)] = NoEnt
  /\ at' = [at EXCEPT ![h] = "flushed"]
  /\ sawWallet' = [sawWallet EXCEPT ![h] = wallet[userOf(h)]]
  /\ UNCHANGED <<providerVars, dbVars, ev, sawEnt, spent>>

(* An UPDATE leaves a column alone when the value assigned to it is the    *)
(* one that was read.                                                      *)
Column(read, assigned, current) == IF assigned = read THEN current ELSE assigned

EndHandler(h) ==
  /\ at' = [at EXCEPT ![h] = "idle"]
  /\ ev' = [ev EXCEPT ![h] = None]
  /\ sawEnt' = [sawEnt EXCEPT ![h] = NoEnt]
  /\ sawWallet' = [sawWallet EXCEPT ![h] = NoWallet]

(* What every commit writes: the event and the status of the checkout.     *)
Commits(h) ==
  /\ at[h] = "flushed"
  /\ EndHandler(h)
  /\ seen' = seen \cup {ev[h]}
  /\ status' = [status EXCEPT ![checkoutOf(h)] = target(h)]
  /\ UNCHANGED <<providerVars, spent>>

(* _activate_entitlement                                                   *)
ActivateEntitlement(h) ==
  LET u == userOf(h) c == checkoutOf(h) saw == sawEnt[h] IN
  IF Kind[c] # "plan" THEN UNCHANGED ent
  ELSE ent' = [ent EXCEPT ![u].status = Column(saw.status, "active", @),
                          ![u].checkout = Column(saw.checkout, c, @)]

(* _revoke_entitlement: the user's only row, whichever checkout it names.  *)
RevokeEntitlement(h) ==
  LET u == userOf(h) saw == sawEnt[h] IN
  IF ~WritesEnt(h) THEN UNCHANGED ent
  ELSE ent' = [ent EXCEPT ![u].status = Column(saw.status, target(h), @)]

InLedger(p, source) == \E x \in ledger : x.pay = p /\ x.source = source

CreditRow(p) == [pay |-> p, source |-> "credit", amount |-> Credit[LinkOf[p]], lost |-> 0]

CreditsOf(c) == {x \in ledger : x.source = "credit" /\ LinkOf[x.pay] = c}

(* _credit_wallet: the wallet is created when missing; the ledger's key    *)
(* makes the credit of a payment unique.                                   *)
CreditWallet(h) ==
  LET u == userOf(h) p == payOf(h) saw == sawWallet[h] amount == Credit[checkoutOf(h)] IN
  /\ ~saw.made => ~wallet[u].made
  /\ IF amount = 0 \/ InLedger(p, "credit")
       THEN /\ wallet' = [wallet EXCEPT ![u].made = TRUE]
            /\ UNCHANGED ledger
       ELSE /\ wallet' = [wallet EXCEPT ![u].made = TRUE,
                                        ![u].balance = saw.balance + amount,
                                        ![u].credited = saw.credited + amount]
            /\ ledger' = ledger \cup {CreditRow(p)}

(* The reversal's entry and the wallet's columns.                          *)
ReversalRow(h, taken, lost) ==
  [pay |-> payOf(h), source |-> target(h), amount |-> taken, lost |-> lost]

(* Broken variant: the shortfall does not reach the wallet.                *)
TakeBackUnheld(h, taken, lost) ==
  LET u == userOf(h) saw == sawWallet[h] IN
  /\ wallet' = [wallet EXCEPT
       ![u].balance = Column(saw.balance, saw.balance - taken, @),
       ![u].debited = Column(saw.debited, saw.debited + taken, @)]
  /\ ledger' = ledger \cup {ReversalRow(h, taken, lost)}

TakeBack(h, taken, lost) ==
  LET u == userOf(h) saw == sawWallet[h] IN
  /\ wallet' = [wallet EXCEPT
       ![u].balance = Column(saw.balance, saw.balance - taken, @),
       ![u].debited = Column(saw.debited, saw.debited + taken, @),
       ![u].quarantined = Column(saw.quarantined, saw.quarantined + lost, @),
       ![u].held = @ \/ lost > 0]
  /\ ledger' = ledger \cup {ReversalRow(h, taken, lost)}

(* Nothing to take back: this reversal has its entry, or there is no       *)
(* credit of this checkout.                                                *)
NothingToReverse(h) ==
  InLedger(payOf(h), target(h)) \/ CreditsOf(checkoutOf(h)) = {}

(* Broken variant: the reversal looks for the credit's key.                *)
ReverseCreditWrongKey(h) ==
  IF InLedger(payOf(h), "credit") \/ NothingToReverse(h) THEN UNCHANGED <<wallet, ledger>>
  ELSE TakeBack(h, Credit[checkoutOf(h)], 0)

(* _reverse_checkout_credit: take back what is left of the credit of this  *)
(* checkout, and quarantine the rest.                                      *)
ReverseCredit(h) ==
  LET whole == Credit[checkoutOf(h)]
      left == sawWallet[h].balance
      taken == IF left < whole THEN left ELSE whole
  IN
  IF NothingToReverse(h) THEN UNCHANGED <<wallet, ledger>>
  ELSE TakeBack(h, taken, whole - taken)

CommitConfirm(h) ==
  /\ Commits(h)
  /\ typeOf(h) \in ConfirmEvents
  /\ ActivateEntitlement(h)
  /\ txs' = txs \cup {<<payOf(h), "confirmed">>}
  /\ CreditWallet(h)

CommitLapse(h) ==
  /\ Commits(h)
  /\ typeOf(h) \in LapseEvents
  /\ RevokeEntitlement(h)
  /\ UNCHANGED <<txs, wallet, ledger>>

CommitReversal(h) ==
  /\ Commits(h)
  /\ typeOf(h) \in ReversalEvents
  /\ RevokeEntitlement(h)
  /\ txs' = txs \cup {<<payOf(h), target(h)>>}
  /\ ReverseCredit(h)

(* Broken variants: the wallet was committed on its own, before the        *)
(* failure; the event stays claimed.                                       *)
AbortKeepsCredit(h) ==
  /\ at[h] = "flushed" /\ typeOf(h) \in ConfirmEvents
  /\ EndHandler(h)
  /\ CreditWallet(h)
  /\ UNCHANGED <<providerVars, seen, status, ent, txs, spent>>

AbortKeepsClaim(h) ==
  /\ at[h] # "idle"
  /\ at' = [at EXCEPT ![h] = "idle"]
  /\ UNCHANGED <<providerVars, dbVars, ev, readVars, spent>>

(* An exception or the death of the process: the transaction is rolled     *)
(* back, the event row with it, and the provider delivers the event again. *)
Abort(h) ==
  /\ at[h] # "idle"
  /\ EndHandler(h)
  /\ UNCHANGED <<providerVars, dbVars, spent>>

Commit(h) == CommitConfirm(h) \/ CommitLapse(h) \/ CommitReversal(h)

Deliver(e) == \E h \in Handlers : Ignore(h, e) \/ Receive(h, e)

Next ==
  \/ \E p \in Payments, t \in EventTypes : Emit(p, t)
  \/ \E e \in sent : Deliver(e)
  \/ \E h \in Handlers : LockCheckout(h) \/ FlushEntitlement(h) \/ Commit(h) \/ Abort(h)
  \/ \E u \in Users : Spend(u)

Spec == Init /\ [][Next]_vars

(* Every handler ends, one way or the other; each of its steps succeeds in *)
(* the end, if it is tried again and again; and the provider keeps         *)
(* delivering what is unanswered.                                          *)
Fairness ==
  /\ \A h \in Handlers : /\ WF_vars(Commit(h) \/ Abort(h))
                        /\ SF_vars(LockCheckout(h))
                        /\ SF_vars(FlushEntitlement(h))
                        /\ SF_vars(Commit(h))
  /\ SF_vars(\E e \in sent : Deliver(e))

FairSpec == Spec /\ Fairness

--------------------------------------------------------------------------------
(***************************************************************************)
(* Properties.  Those under "any number of handlers" hold however handlers *)
(* interleave; the others need the single server process of the Dockerfile.*)
(***************************************************************************)
EntRows == [status : {"none", "active", "expired", "cancelled", "refunded", "chargeback"},
            checkout : Checkouts \cup {None}]

WalletRows == [made : BOOLEAN, balance : Nat, credited : Nat, debited : Nat,
               quarantined : Nat, held : BOOLEAN]

LedgerRows == [pay : Payments, source : {"credit"} \cup Terminal, amount : Nat, lost : Nat]

(* Every variable has its type.                                            *)
TypeOK ==
  /\ last \in [Payments -> EventTypes \cup {"NONE"}]
  /\ sent \subseteq Events /\ seen \subseteq Events
  /\ status \in [Checkouts -> Statuses]
  /\ ent \in [Users -> EntRows]
  /\ txs \subseteq Payments \X ({"confirmed"} \cup Terminal)
  /\ wallet \in [Users -> WalletRows]
  /\ ledger \subseteq LedgerRows
  /\ at \in [Handlers -> {"idle", "read", "locked", "flushed"}]
  /\ ev \in [Handlers -> Events \cup {None}]
  /\ sawEnt \in [Handlers -> EntRows]
  /\ sawWallet \in [Handlers -> WalletRows]
  /\ spent \in [Users -> Nat]

(* Any number of handlers.  Credit is only ever granted for a payment that *)
(* the provider confirmed and whose transaction is booked: the event, the  *)
(* transaction and the ledger entry appear together or not at all, however *)
(* the handlers interleave and wherever they die.                          *)
CreditBacked ==
  \A x \in ledger : x.source = "credit" =>
    /\ <<x.pay, "confirmed">> \in txs
    /\ \E t \in ConfirmEvents : <<t, x.pay>> \in seen

(* Any number of handlers.  A reversal takes back a credit of the same     *)
(* checkout, and accounts for the whole of it: what could not be taken is  *)
(* quarantined ("keep balance non-negative, quarantine the unrecovered     *)
(* amount").                                                               *)
ReversalWhole ==
  \A x \in ledger : x.source \in Terminal =>
    /\ CreditsOf(LinkOf[x.pay]) # {}
    /\ x.amount + x.lost = Credit[LinkOf[x.pay]]

(* One handler.  "Reversal states dominate delayed confirmations": once    *)
(* refunded or charged back, a checkout keeps that state.                  *)
ReversalStep ==
  \A c \in Checkouts : status[c] \in Terminal => status'[c] = status[c]

ReversalDominates == [][ReversalStep]_vars

(* One handler.  An entitlement is active only while the checkout that it  *)
(* names is paid: no reversal of that checkout leaves it behind, whatever  *)
(* the other checkouts of the user do to the same row.                     *)
EntitlementBacked ==
  \A u \in Users :
    ent[u].status = "active" => /\ ent[u].checkout # None
                               /\ status[ent[u].checkout] = "paid"

(* One handler.  The wallet's columns agree after any history of credits,  *)
(* reversals and spending.                                                 *)
WalletArithmetic ==
  \A u \in Users : wallet[u].balance + wallet[u].debited = wallet[u].credited

(* The sums of what entries moved, and of what they could not recover.     *)
Amounts(S) == MapThenSumSet(LAMBDA x : x.amount, S)
Losses(S) == MapThenSumSet(LAMBDA x : x.lost, S)

Booked(u, sources) == {x \in ledger : x.source \in sources /\ Owner[LinkOf[x.pay]] = u}

(* One handler.  The wallet is what its ledger says: credits and reversals *)
(* are neither lost nor applied twice, and the wallet is quarantined just  *)
(* when a reversal could not be recovered in full.                         *)
WalletMatchesLedger ==
  \A u \in Users :
    LET short == Losses(Booked(u, Terminal))
    IN /\ wallet[u].credited = Amounts(Booked(u, {"credit"}))
       /\ wallet[u].debited = Amounts(Booked(u, Terminal)) + spent[u]
       /\ wallet[u].quarantined = short
       /\ wallet[u].held <=> short > 0

ReversalsOf(c) == {x \in ledger : x.source \in Terminal /\ LinkOf[x.pay] = c}

(* One handler.  The ledger and the state of a checkout tell one story: a  *)
(* paid checkout has its credit and keeps it, a reversed one has neither   *)
(* or both a credit and one reversal, and any other has no entry at all.   *)
MoneyFollowsState ==
  \A c \in Checkouts :
    /\ CreditsOf(c) # {} => status[c] \in Terminal \cup {"paid"}
    /\ status[c] = "paid" /\ Credit[c] > 0 => CreditsOf(c) # {}
    /\ ReversalsOf(c) # {} <=> (status[c] \in Terminal /\ CreditsOf(c) # {})
    /\ \A x, y \in ReversalsOf(c) : x = y

(* The state in which the provider itself holds a payment.                 *)
Settlement(p) == IF last[p] \in {"NONE", "CREATED"} THEN "pending" ELSE NextStatus[last[p]]

(* One handler.  Whatever the order in which its events arrived, once all  *)
(* of them are answered a checkout with one payment is in the state in     *)
(* which the provider holds that payment.                                  *)
Settled ==
  \A p \in Payments :
    /\ LinkOf[p] # None
    /\ \A q \in Payments : LinkOf[q] = LinkOf[p] => q = p
    /\ \A t \in EventTypes : <<t, p>> \in sent => <<t, p>> \in seen
    => status[LinkOf[p]] = Settlement(p)

(* One handler.  The paid plan of a user who has no other plan checkout is *)
(* in force.  With a second plan checkout it need not be: the row of the   *)
(* entitlement is shared, and a late event of one checkout revokes what    *)
(* the other one paid for.                                                 *)
SolePlanInForce ==
  \A c \in Checkouts :
    /\ Kind[c] = "plan" /\ status[c] = "paid"
    /\ \A d \in Checkouts : Kind[d] = "plan" /\ Owner[d] = Owner[c] => d = c
    => ent[Owner[c]] = [status |-> "active", checkout |-> c]

(* One handler.  The promise of the module PaymentPromise, checkout by     *)
(* checkout.                                                               *)
outcomeAt(c) ==
  IF status[c] \in Terminal THEN "reversed"
  ELSE IF status[c] = "paid" THEN "paid"
  ELSE IF status[c] = "cancelled" THEN "closed" ELSE "open"

moneyAt(c) ==
  IF CreditsOf(c) = {} THEN "none" ELSE IF ReversalsOf(c) = {} THEN "granted" ELSE "taken"

outcomeOf == [c \in Checkouts |-> outcomeAt(c)]

moneyOf == [c \in Checkouts |-> moneyAt(c)]

Promise ==
  INSTANCE PaymentPromise WITH
    outcome <- outcomeOf, money <- moneyOf, Credited <- {c \in Checkouts : Credit[c] > 0}

(* The webhook keeps the promise: each of its commits is a step of         *)
(* PaymentPromise or changes nothing in it.                                *)
KeepsPromise == Promise!PromiseSpec

(* Any number of handlers.  Every event the provider emits is answered in  *)
(* the end, through failing handlers and redelivery: again and again there *)
(* is nothing left to answer.                                              *)
EveryEventAnswered == []<>(sent \subseteq seen)
================================================================================
