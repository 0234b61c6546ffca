-------------------------- MODULE BillingWebhookProofs -------------------------
(***************************************************************************)
(* Proofs about BillingWebhook.  Part one holds for any number of server   *)
(* processes: whatever the handlers read, credit is backed by a payment    *)
(* and a reversal accounts for a whole credit.  Part two assumes the one   *)
(* process of the deployment: then what a running handler has read is      *)
(* still true when it commits, and the rest follows: the states of the     *)
(* checkouts and the promise, then that the order of the events does not   *)
(* matter, then the sums of the ledger and the wallets that equal them.    *)
(***************************************************************************)
EXTENDS BillingWebhook, FiniteSetTheorems, WellFoundedInduction, TLAPS

(* A running handler has an event that acts, on a payment of a checkout.   *)
BusyBound ==
  \A h \in Handlers : at[h] # "idle" =>
    /\ ev[h] \in Events
    /\ checkoutOf(h) \in Checkouts
    /\ typeOf(h) \in ConfirmEvents \cup LapseEvents \cup ReversalEvents

Base ==
  /\ TypeOK
  /\ BusyBound
  /\ CreditBacked
  /\ ReversalWhole

(* The state of a step's target has the type of a checkout's status.       *)
LEMMA TargetTyped ==
  ASSUME NEW h \in Handlers, Base, at[h] # "idle"
  PROVE  /\ target(h) \in Statuses \ {"pending"}
         /\ typeOf(h) \in ReversalEvents <=> target(h) \in Terminal
         /\ typeOf(h) \in ConfirmEvents <=> target(h) = "paid"
         /\ payOf(h) \in Payments /\ typeOf(h) \in EventTypes
         /\ userOf(h) \in Users
         /\ Credit[checkoutOf(h)] \in Nat
BY WebhookConstants
   DEF WebhookConstants, Base, BusyBound, target, NextStatus, typeOf, payOf, userOf, Statuses, Terminal,
       Events, EventTypes, ConfirmEvents, LapseEvents, ReversalEvents

LEMMA InitBase == Init => Base
BY WebhookConstants
   DEF WebhookConstants, Init, Base, TypeOK, BusyBound, CreditBacked, ReversalWhole, NoEnt, NoWallet,
       EntRows, WalletRows, Statuses
--------------------------------------------------------------------------------
(* A step that leaves the ledger alone and only adds to what was booked.   *)
LEMMA LedgerUntouched ==
  ASSUME Base, UNCHANGED ledger, txs \subseteq txs', seen \subseteq seen'
  PROVE  CreditBacked' /\ ReversalWhole'
BY DEF Base, CreditBacked, ReversalWhole, CreditsOf

(* The end of a handler leaves well-formed idle handlers.                  *)
LEMMA EndTyped ==
  ASSUME NEW h \in Handlers, Base, EndHandler(h)
  PROVE  /\ at' \in [Handlers -> {"idle", "read", "locked", "flushed"}]
         /\ ev' \in [Handlers -> Events \cup {None}]
         /\ sawEnt' \in [Handlers -> EntRows]
         /\ sawWallet' \in [Handlers -> WalletRows]
         /\ BusyBound'
<1>1. /\ at' \in [Handlers -> {"idle", "read", "locked", "flushed"}]
      /\ ev' \in [Handlers -> Events \cup {None}]
  BY DEF Base, TypeOK, EndHandler
<1>2. /\ sawEnt' \in [Handlers -> EntRows]
      /\ sawWallet' \in [Handlers -> WalletRows]
  BY DEF Base, TypeOK, EndHandler, NoEnt, NoWallet, EntRows, WalletRows
<1>3. BusyBound'
  BY DEF Base, TypeOK, EndHandler, BusyBound, checkoutOf, typeOf, payOf
<1>4. QED
  BY <1>1, <1>2, <1>3

(* The provider, spending, and the steps before a commit.                  *)
LEMMA EmitBase ==
  ASSUME NEW p \in Payments, NEW t \in EventTypes, Base, Emit(p, t)
  PROVE  Base'
<1>1. TypeOK'
  BY DEF Base, TypeOK, Emit, dbVars, readVars, Events
<1>2. BusyBound'
  BY DEF Base, Emit, BusyBound, checkoutOf, typeOf, payOf
<1>3. QED
  BY <1>1, <1>2, LedgerUntouched DEF Base, Emit, dbVars

LEMMA SpendBase ==
  ASSUME NEW u \in Users, Base, Spend(u)
  PROVE  Base'
<1>1. wallet' \in [Users -> WalletRows]
  BY DEF Base, TypeOK, Spend, WalletRows
<1>2. TypeOK'
  BY <1>1 DEF Base, TypeOK, Spend, providerVars, readVars
<1>3. BusyBound'
  BY DEF Base, Spend, BusyBound, checkoutOf, typeOf, payOf
<1>4. QED
  BY <1>2, <1>3, LedgerUntouched DEF Base, Spend

LEMMA IgnoreBase ==
  ASSUME NEW h \in Handlers, NEW e \in sent, Base, Ignore(h, e)
  PROVE  Base'
<1>1. TypeOK'
  BY DEF Base, TypeOK, Ignore, providerVars, readVars
<1>2. BusyBound'
  BY DEF Base, Ignore, BusyBound, checkoutOf, typeOf, payOf
<1>3. QED
  BY <1>1, <1>2, LedgerUntouched DEF Base, Ignore

LEMMA ReceiveBase ==
  ASSUME NEW h \in Handlers, NEW e \in sent, Base, Receive(h, e)
  PROVE  Base'
<1>1. TypeOK'
  BY DEF Base, TypeOK, Receive, providerVars, dbVars, readVars
<1>2. /\ e \in Events /\ LinkOf[e[2]] \in Checkouts
      /\ e[1] \in ConfirmEvents \cup LapseEvents \cup ReversalEvents
  BY WebhookConstants DEF WebhookConstants, Base, TypeOK, Receive, Acts, Effective, Events
<1>3. BusyBound'
  BY <1>2 DEF Base, TypeOK, Receive, BusyBound, checkoutOf, typeOf, payOf
<1>4. QED
  BY <1>1, <1>3, LedgerUntouched DEF Base, Receive, dbVars

LEMMA LockCheckoutBase ==
  ASSUME NEW h \in Handlers, Base, LockCheckout(h)
  PROVE  Base'
<1>1. ent[userOf(h)] \in EntRows
  BY TargetTyped DEF Base, TypeOK, LockCheckout
<1>2. TypeOK'
  BY <1>1 DEF Base, TypeOK, LockCheckout, providerVars, dbVars
<1>3. BusyBound'
  BY DEF Base, TypeOK, LockCheckout, BusyBound, checkoutOf, typeOf, payOf
<1>4. QED
  BY <1>2, <1>3, LedgerUntouched DEF Base, LockCheckout, dbVars

LEMMA FlushEntitlementBase ==
  ASSUME NEW h \in Handlers, Base, FlushEntitlement(h)
  PROVE  Base'
<1>1. wallet[userOf(h)] \in WalletRows
  BY TargetTyped DEF Base, TypeOK, FlushEntitlement
<1>2. TypeOK'
  BY <1>1 DEF Base, TypeOK, FlushEntitlement, providerVars, dbVars
<1>3. BusyBound'
  BY DEF Base, TypeOK, FlushEntitlement, BusyBound, checkoutOf, typeOf, payOf
<1>4. QED
  BY <1>2, <1>3, LedgerUntouched DEF Base, FlushEntitlement, dbVars

LEMMA AbortBase ==
  ASSUME NEW h \in Handlers, Base, Abort(h)
  PROVE  Base'
<1>1. TypeOK'
  BY EndTyped DEF Base, TypeOK, Abort, providerVars, dbVars
<1>2. QED
  BY <1>1, EndTyped, LedgerUntouched DEF Base, Abort, dbVars

(* What the three commits have in common: the event, the status and the    *)
(* end of the handler.                                                     *)
LEMMA CommitsTyped ==
  ASSUME NEW h \in Handlers, Base, Commits(h)
  PROVE  /\ status' \in [Checkouts -> Statuses]
         /\ seen' \subseteq Events /\ seen \subseteq seen' /\ ev[h] \in seen'
         /\ UNCHANGED <<last, sent, spent>>
<1>1. at[h] # "idle" /\ ev[h] \in Events
  BY DEF Base, BusyBound, Commits
<1>2. status' \in [Checkouts -> Statuses]
  BY <1>1, TargetTyped DEF Base, TypeOK, BusyBound, Commits
<1>3. QED
  BY <1>1, <1>2 DEF Base, TypeOK, Commits, providerVars

(* The entitlement written by a confirmation or a revocation.              *)
LEMMA EntTyped ==
  ASSUME NEW h \in Handlers, Base, at[h] # "idle",
         ActivateEntitlement(h) \/ (RevokeEntitlement(h) /\ typeOf(h) \notin ConfirmEvents)
  PROVE  ent' \in [Users -> EntRows]
<1> DEFINE u == userOf(h)
<1>1. u \in Users /\ checkoutOf(h) \in Checkouts /\ target(h) \in Statuses \ {"pending"}
  BY TargetTyped DEF Base, BusyBound
<1>2. ent[u] \in EntRows /\ target(h) \in {"active", "paid"} \cup Statuses
  BY <1>1 DEF Base, TypeOK
<1>3. CASE ActivateEntitlement(h)
  BY <1>1, <1>2, <1>3 DEF Base, TypeOK, ActivateEntitlement, Column, EntRows
<1>4. CASE RevokeEntitlement(h) /\ typeOf(h) \notin ConfirmEvents
  BY <1>1, <1>2, <1>4, TargetTyped DEF Base, TypeOK, RevokeEntitlement, Column, EntRows, Statuses
<1>5. QED
  BY <1>3, <1>4

(* The credit of a payment: one row, and the wallet.                       *)
LEMMA CreditTyped ==
  ASSUME NEW h \in Handlers, Base, at[h] # "idle", CreditWallet(h)
  PROVE  /\ wallet' \in [Users -> WalletRows]
         /\ ledger' \subseteq LedgerRows
         /\ ledger \subseteq ledger'
         /\ ledger' \subseteq ledger \cup {CreditRow(payOf(h))}
<1>1. /\ userOf(h) \in Users /\ payOf(h) \in Payments
      /\ Credit[checkoutOf(h)] \in Nat /\ sawWallet[h] \in WalletRows
      /\ wallet[userOf(h)] \in WalletRows
  BY TargetTyped DEF Base, TypeOK
<1>2. CreditRow(payOf(h)) \in LedgerRows
  BY <1>1 DEF CreditRow, LedgerRows, checkoutOf
<1>3. ledger' = ledger \/ ledger' = ledger \cup {CreditRow(payOf(h))}
  BY DEF CreditWallet
<1>4. /\ sawWallet[h].balance + Credit[checkoutOf(h)] \in Nat
      /\ sawWallet[h].credited + Credit[checkoutOf(h)] \in Nat
  BY <1>1 DEF WalletRows
<1>5. wallet' \in [Users -> WalletRows]
  <2>1. CASE wallet' = [wallet EXCEPT ![userOf(h)].made = TRUE]
    BY <1>1, <2>1 DEF Base, TypeOK, WalletRows
  <2>2. CASE wallet' = [wallet EXCEPT
                          ![userOf(h)].made = TRUE,
                          ![userOf(h)].balance = sawWallet[h].balance + Credit[checkoutOf(h)],
                          ![userOf(h)].credited = sawWallet[h].credited + Credit[checkoutOf(h)]]
    BY <1>1, <1>4, <2>2 DEF Base, TypeOK, WalletRows
  <2>3. QED
    BY <2>1, <2>2 DEF CreditWallet
<1>6. QED
  BY <1>2, <1>3, <1>5 DEF Base, TypeOK

(* What is taken back and what is quarantined make up the credit.          *)
LEMMA TakeBackTyped ==
  ASSUME NEW h \in Handlers, Base, at[h] # "idle", typeOf(h) \in ReversalEvents,
         NEW taken \in Nat, NEW lost \in Nat, taken <= sawWallet[h].balance, TakeBack(h, taken, lost)
  PROVE  /\ wallet' \in [Users -> WalletRows]
         /\ ledger' \subseteq LedgerRows
         /\ ledger' = ledger \cup {ReversalRow(h, taken, lost)}
<1> DEFINE u == userOf(h)
           saw == sawWallet[h]
<1>1. /\ u \in Users /\ payOf(h) \in Payments /\ target(h) \in Terminal
      /\ saw \in WalletRows /\ wallet[u] \in WalletRows
  BY TargetTyped DEF Base, TypeOK
<1>2. saw.balance - taken \in Nat /\ saw.debited + taken \in Nat /\ saw.quarantined + lost \in Nat
  BY <1>1 DEF WalletRows
<1>3. wallet' \in [Users -> WalletRows]
  BY <1>1, <1>2 DEF Base, TypeOK, TakeBack, Column, WalletRows
<1>4. ReversalRow(h, taken, lost) \in LedgerRows
  BY <1>1 DEF ReversalRow, LedgerRows
<1>5. QED
  BY <1>3, <1>4 DEF Base, TypeOK, TakeBack

LEMMA ReverseTyped ==
  ASSUME NEW h \in Handlers, Base, at[h] # "idle", typeOf(h) \in ReversalEvents, ReverseCredit(h)
  PROVE  /\ wallet' \in [Users -> WalletRows]
         /\ ledger' \subseteq LedgerRows
         /\ \/ UNCHANGED <<wallet, ledger>> /\ NothingToReverse(h)
            \/ /\ ~NothingToReverse(h)
               /\ \E taken, lost \in Nat :
                    /\ taken + lost = Credit[checkoutOf(h)]
                    /\ taken <= sawWallet[h].balance
                    /\ taken < Credit[checkoutOf(h)] => taken = sawWallet[h].balance
                    /\ TakeBack(h, taken, lost)
                    /\ ledger' = ledger \cup {ReversalRow(h, taken, lost)}
<1> DEFINE whole == Credit[checkoutOf(h)]
           left == sawWallet[h].balance
           taken == IF left < whole THEN left ELSE whole
<1>1. whole \in Nat /\ left \in Nat
  BY TargetTyped DEF Base, TypeOK, WalletRows
<1>2. CASE NothingToReverse(h)
  BY <1>2 DEF ReverseCredit, Base, TypeOK
<1>3. CASE ~NothingToReverse(h)
  <2>1. TakeBack(h, taken, whole - taken)
    BY <1>3 DEF ReverseCredit
  <2>2. /\ taken \in Nat /\ whole - taken \in Nat /\ taken <= left
        /\ taken + (whole - taken) = whole /\ (taken < whole => taken = left)
    BY <1>1
  <2>3. /\ wallet' \in [Users -> WalletRows]
        /\ ledger' \subseteq LedgerRows
        /\ ledger' = ledger \cup {ReversalRow(h, taken, whole - taken)}
    BY <2>1, <2>2, TakeBackTyped
  <2> HIDE DEF taken
  <2>4. QED
    BY <1>3, <2>1, <2>2, <2>3
<1>4. QED
  BY <1>2, <1>3

LEMMA CommitConfirmBase ==
  ASSUME NEW h \in Handlers, Base, CommitConfirm(h)
  PROVE  Base'
<1>1. /\ at[h] # "idle" /\ EndHandler(h) /\ Commits(h) /\ typeOf(h) \in ConfirmEvents
      /\ ActivateEntitlement(h) /\ CreditWallet(h)
      /\ txs' = txs \cup {<<payOf(h), "confirmed">>}
  BY DEF CommitConfirm, Commits
<1>2. /\ payOf(h) \in Payments /\ typeOf(h) \in EventTypes /\ ev[h] = <<typeOf(h), payOf(h)>>
  BY <1>1, TargetTyped DEF Base, BusyBound, Events, typeOf, payOf
<1>3. TypeOK'
  BY <1>1, <1>2, CommitsTyped, EndTyped, EntTyped, CreditTyped DEF Base, TypeOK
<1>4. CreditBacked'
  <2>1. ASSUME NEW x \in ledger', x.source = "credit"
        PROVE  <<x.pay, "confirmed">> \in txs' /\ \E t \in ConfirmEvents : <<t, x.pay>> \in seen'
    <3>1. CASE x \in ledger
      BY <1>1, <2>1, <3>1, CommitsTyped DEF Base, CreditBacked
    <3>2. CASE x = CreditRow(payOf(h))
      BY <1>1, <1>2, <3>2, CommitsTyped DEF CreditRow
    <3>3. QED
      BY <1>1, <2>1, <3>1, <3>2, CreditTyped
  <2>2. QED
    BY <2>1 DEF CreditBacked
<1>5. ReversalWhole'
  <2>1. \A x \in ledger' : x.source \in Terminal => x \in ledger
    BY <1>1, CreditTyped DEF CreditRow, Terminal
  <2>2. \A c : CreditsOf(c) \subseteq CreditsOf(c)'
    BY <1>1, CreditTyped DEF CreditsOf
  <2>3. QED
    BY <2>1, <2>2 DEF Base, ReversalWhole
<1>6. QED
  BY <1>1, <1>3, <1>4, <1>5, EndTyped DEF Base

LEMMA CommitLapseBase ==
  ASSUME NEW h \in Handlers, Base, CommitLapse(h)
  PROVE  Base'
<1>1. /\ at[h] # "idle" /\ EndHandler(h) /\ Commits(h) /\ RevokeEntitlement(h)
      /\ typeOf(h) \notin ConfirmEvents /\ UNCHANGED <<txs, wallet, ledger>>
  BY DEF CommitLapse, Commits, LapseEvents, ConfirmEvents
<1>2. TypeOK'
  BY <1>1, CommitsTyped, EndTyped, EntTyped DEF Base, TypeOK
<1>3. QED
  BY <1>1, <1>2, CommitsTyped, EndTyped, LedgerUntouched DEF Base

LEMMA CommitReversalBase ==
  ASSUME NEW h \in Handlers, Base, CommitReversal(h)
  PROVE  Base'
<1>1. /\ at[h] # "idle" /\ EndHandler(h) /\ Commits(h) /\ RevokeEntitlement(h) /\ ReverseCredit(h)
      /\ typeOf(h) \in ReversalEvents /\ typeOf(h) \notin ConfirmEvents
      /\ txs' = txs \cup {<<payOf(h), target(h)>>}
  BY DEF CommitReversal, Commits, ReversalEvents, ConfirmEvents
<1>2. payOf(h) \in Payments /\ target(h) \in Terminal
  BY <1>1, TargetTyped
<1>3. TypeOK'
  BY <1>1, <1>2, CommitsTyped, EndTyped, EntTyped, ReverseTyped DEF Base, TypeOK
<1>4. CASE UNCHANGED ledger
  BY <1>1, <1>3, <1>4, CommitsTyped, EndTyped, LedgerUntouched DEF Base
<1>5. CASE /\ ~NothingToReverse(h)
           /\ \E taken, lost \in Nat :
                /\ taken + lost = Credit[checkoutOf(h)]
                /\ ledger' = ledger \cup {ReversalRow(h, taken, lost)}
  <2>1. PICK taken \in Nat, lost \in Nat :
          /\ taken + lost = Credit[checkoutOf(h)]
          /\ ledger' = ledger \cup {ReversalRow(h, taken, lost)}
    BY <1>5
  <2>2. \A x \in ledger' : x \in ledger \/ x = ReversalRow(h, taken, lost)
    BY <2>1
  <2>3. \A c : CreditsOf(c) \subseteq CreditsOf(c)'
    BY <2>1 DEF CreditsOf
  <2>4. CreditBacked'
    BY <1>1, <1>2, <2>2, CommitsTyped DEF Base, CreditBacked, ReversalRow, Terminal
  <2>5. ReversalWhole'
    <3>1. \E y \in ledger' : y.source = "credit" /\ LinkOf[y.pay] = LinkOf[payOf(h)]
      BY <1>5, <2>1 DEF NothingToReverse, CreditsOf, checkoutOf
    <3>2. /\ ReversalRow(h, taken, lost).pay = payOf(h)
          /\ ReversalRow(h, taken, lost).amount + ReversalRow(h, taken, lost).lost = Credit[LinkOf[payOf(h)]]
      BY <2>1 DEF ReversalRow, checkoutOf
    <3>3. ASSUME NEW x \in ledger', x.source \in Terminal
          PROVE  CreditsOf(LinkOf[x.pay])' # {} /\ x.amount + x.lost = Credit[LinkOf[x.pay]]
      <4>1. CASE x \in ledger
        BY <2>3, <3>3, <4>1 DEF Base, ReversalWhole
      <4>2. CASE x = ReversalRow(h, taken, lost)
        BY <3>1, <3>2, <4>2 DEF CreditsOf
      <4>3. QED
        BY <2>2, <4>1, <4>2
    <3>4. QED
      BY <3>3 DEF ReversalWhole
  <2>6. QED
    BY <1>1, <1>3, <2>4, <2>5, EndTyped DEF Base
<1>6. QED
  BY <1>1, <1>4, <1>5, ReverseTyped

(* No step of any handler, of the provider or outside disturbs the base.   *)
LEMMA NextBase ==
  ASSUME Base, [Next]_vars
  PROVE  Base'
<1>1. CASE UNCHANGED vars
  BY <1>1 DEF vars, providerVars, dbVars, readVars, Base, TypeOK, BusyBound, CreditBacked, ReversalWhole,
              CreditsOf, checkoutOf, typeOf, payOf
<1>2. ASSUME NEW e \in sent, Deliver(e)
      PROVE  Base'
  BY <1>2, IgnoreBase, ReceiveBase DEF Deliver
<1>3. ASSUME NEW h \in Handlers, Commit(h)
      PROVE  Base'
  BY <1>3, CommitConfirmBase, CommitLapseBase, CommitReversalBase DEF Commit
<1>4. QED
  BY <1>1, <1>2, <1>3, EmitBase, SpendBase, LockCheckoutBase, FlushEntitlementBase, AbortBase DEF Next

(* Any number of handlers: every variable keeps its type.                  *)
THEOREM BaseHolds == Spec => []Base
BY InitBase, NextBase, PTL DEF Spec

(* Every table and every handler holds what the webhook writes of its      *)
(* type, and no balance is negative (process_asaas_webhook).               *)
THEOREM TypeCorrect == Spec => []TypeOK
<1>1. Base => TypeOK
  BY DEF Base
<1>2. QED
  BY <1>1, BaseHolds, PTL

(* Any number of handlers: credit is only ever granted for a confirmed and *)
(* booked payment.                                                         *)
THEOREM CreditIsBacked == Spec => []CreditBacked
<1>1. Base => CreditBacked
  BY DEF Base
<1>2. QED
  BY <1>1, BaseHolds, PTL

(* Any number of handlers: a reversal accounts for a whole credit of its   *)
(* checkout.                                                               *)
THEOREM ReversalsAreWhole == Spec => []ReversalWhole
<1>1. Base => ReversalWhole
  BY DEF Base
<1>2. QED
  BY <1>1, BaseHolds, PTL
--------------------------------------------------------------------------------
(***************************************************************************)
(* Part two: one server process.                                           *)
(***************************************************************************)
OneHandler == \A g, h \in Handlers : g = h

(* What the running handler read or decided is still true.                 *)
StillTrue ==
  \A h \in Handlers :
    /\ at[h] # "idle" => Effective(status[checkoutOf(h)], typeOf(h))
    /\ at[h] \in {"locked", "flushed"} => sawEnt[h] = ent[userOf(h)]
    /\ at[h] = "flushed" => sawWallet[h] = wallet[userOf(h)]

(* An entitlement names a plan checkout of its user.                       *)
EntOwned ==
  \A u \in Users :
    ent[u].checkout # None => Owner[ent[u].checkout] = u /\ Kind[ent[u].checkout] = "plan"

(* What a commit must keep of the database.                                *)
Books ==
  /\ EntOwned
  /\ EntitlementBacked
  /\ SolePlanInForce
  /\ WalletArithmetic
  /\ MoneyFollowsState

One == Base /\ StillTrue /\ Books

LEMMA InitOne == Init => One
<1>1. Init => StillTrue
  BY DEF Init, StillTrue
<1>2. Init => Books
  BY DEF Init, Books, EntOwned, EntitlementBacked, SolePlanInForce, WalletArithmetic, MoneyFollowsState,
         CreditsOf, ReversalsOf, NoEnt, NoWallet, Terminal
<1>3. QED
  BY <1>1, <1>2, InitBase DEF One

(* A step that leaves the four tables of the books alone.                  *)
LEMMA BooksUntouched ==
  ASSUME Books, UNCHANGED <<status, ent, wallet, ledger>>
  PROVE  Books'
BY DEF Books, EntOwned, EntitlementBacked, SolePlanInForce, WalletArithmetic, MoneyFollowsState,
       CreditsOf, ReversalsOf

(* The steps that are not commits.                                         *)
LEMMA EmitOne ==
  ASSUME NEW p \in Payments, NEW t \in EventTypes, One, Emit(p, t)
  PROVE  One'
<1>1. StillTrue'
  BY DEF One, Emit, StillTrue, dbVars, readVars, checkoutOf, typeOf, payOf, userOf
<1>2. QED
  BY <1>1, EmitBase, BooksUntouched DEF One, Emit, dbVars

LEMMA SpendOne ==
  ASSUME NEW u \in Users, One, Spend(u)
  PROVE  One'
<1>1. StillTrue'
  BY DEF One, Spend, StillTrue
<1>2. /\ wallet[u] \in WalletRows
      /\ wallet' \in [Users -> WalletRows]
      /\ wallet'[u].balance = wallet[u].balance - 1
      /\ wallet'[u].debited = wallet[u].debited + 1
      /\ wallet'[u].credited = wallet[u].credited
      /\ \A v \in Users \ {u} : wallet'[v] = wallet[v]
  BY SpendBase DEF One, Base, TypeOK, Spend, WalletRows
<1>3. WalletArithmetic'
  BY <1>2 DEF One, Books, WalletArithmetic, WalletRows
<1>4. EntOwned' /\ EntitlementBacked' /\ SolePlanInForce' /\ MoneyFollowsState'
  BY DEF One, Books, Spend, EntOwned, EntitlementBacked, SolePlanInForce, MoneyFollowsState, CreditsOf,
         ReversalsOf
<1>5. QED
  BY <1>1, <1>3, <1>4, SpendBase DEF One, Books

LEMMA IgnoreOne ==
  ASSUME NEW h \in Handlers, NEW e \in sent, One, Ignore(h, e)
  PROVE  One'
<1>1. StillTrue'
  BY DEF One, Ignore, StillTrue, readVars, checkoutOf, typeOf, payOf, userOf
<1>2. QED
  BY <1>1, IgnoreBase, BooksUntouched DEF One, Ignore

LEMMA ReceiveOne ==
  ASSUME NEW h \in Handlers, NEW e \in sent, One, Receive(h, e)
  PROVE  One'
<1>1. Effective(status[LinkOf[e[2]]], e[1])
  BY DEF Receive, Acts
<1>2. StillTrue'
  BY <1>1 DEF One, Base, TypeOK, Receive, StillTrue, dbVars, readVars, checkoutOf, typeOf, payOf, userOf
<1>3. QED
  BY <1>2, ReceiveBase, BooksUntouched DEF One, Receive, dbVars

LEMMA LockCheckoutOne ==
  ASSUME NEW h \in Handlers, One, LockCheckout(h)
  PROVE  One'
<1>1. StillTrue'
  BY DEF One, Base, TypeOK, LockCheckout, StillTrue, dbVars, checkoutOf, typeOf, payOf, userOf
<1>2. QED
  BY <1>1, LockCheckoutBase, BooksUntouched DEF One, LockCheckout, dbVars

LEMMA FlushEntitlementOne ==
  ASSUME NEW h \in Handlers, One, FlushEntitlement(h)
  PROVE  One'
<1>1. StillTrue'
  BY DEF One, Base, TypeOK, FlushEntitlement, StillTrue, dbVars, checkoutOf, typeOf, payOf, userOf
<1>2. QED
  BY <1>1, FlushEntitlementBase, BooksUntouched DEF One, FlushEntitlement, dbVars

LEMMA AbortOne ==
  ASSUME NEW h \in Handlers, One, Abort(h)
  PROVE  One'
<1>1. StillTrue'
  BY DEF One, Base, TypeOK, Abort, EndHandler, StillTrue, dbVars, checkoutOf, typeOf, payOf, userOf
<1>2. QED
  BY <1>1, AbortBase, BooksUntouched DEF One, Abort, dbVars
--------------------------------------------------------------------------------
(* What a commit of the only handler can rely on.                          *)
LEMMA CommitFacts ==
  ASSUME OneHandler, NEW h \in Handlers, One, Commits(h)
  PROVE  /\ checkoutOf(h) \in Checkouts /\ Owner[checkoutOf(h)] = userOf(h) /\ userOf(h) \in Users
         /\ status' = [status EXCEPT ![checkoutOf(h)] = target(h)]
         /\ status[checkoutOf(h)] \notin Terminal
         /\ typeOf(h) \notin ReversalEvents => status[checkoutOf(h)] # "paid"
         /\ typeOf(h) \in ConfirmEvents => status[checkoutOf(h)] # "cancelled"
         /\ sawEnt[h] = ent[userOf(h)]
         /\ sawWallet[h] = wallet[userOf(h)]
         /\ StillTrue'
<1>1. at[h] = "flushed" /\ EndHandler(h)
  BY DEF Commits
<1>2. Effective(status[checkoutOf(h)], typeOf(h)) /\ sawEnt[h] = ent[userOf(h)] /\ sawWallet[h] = wallet[userOf(h)]
  BY <1>1 DEF One, StillTrue
<1>3. typeOf(h) \in ReversalEvents \cup ConfirmEvents \cup LapseEvents
  BY <1>1 DEF One, Base, BusyBound
<1>4. /\ status[checkoutOf(h)] \notin Terminal
      /\ typeOf(h) \notin ReversalEvents => status[checkoutOf(h)] # "paid"
      /\ typeOf(h) \in ConfirmEvents => status[checkoutOf(h)] # "cancelled"
  BY <1>2, <1>3 DEF Effective, LapseEvents
<1>5. \A g \in Handlers : at'[g] = "idle"
  BY <1>1 DEF OneHandler, One, Base, TypeOK, EndHandler
<1>6. StillTrue'
  BY <1>5 DEF StillTrue
<1>7. checkoutOf(h) \in Checkouts /\ Owner[checkoutOf(h)] = userOf(h) /\ userOf(h) \in Users
  BY <1>1, TargetTyped DEF One, Base, BusyBound, userOf
<1>8. QED
  BY <1>2, <1>4, <1>6, <1>7 DEF Commits

(* The entitlement after a confirmation, and after a revocation.           *)
LEMMA Activated ==
  ASSUME OneHandler, NEW h \in Handlers, One, Commits(h), ActivateEntitlement(h)
  PROVE  IF Kind[checkoutOf(h)] = "plan"
           THEN ent' = [ent EXCEPT ![userOf(h)] = [status |-> "active", checkout |-> checkoutOf(h)]]
           ELSE UNCHANGED ent
<1>1. sawEnt[h] = ent[userOf(h)] /\ ent[userOf(h)] \in EntRows
  BY CommitFacts DEF One, Base, TypeOK
<1>2. QED
  BY <1>1 DEF ActivateEntitlement, Column, One, Base, TypeOK, EntRows

LEMMA Revoked ==
  ASSUME OneHandler, NEW h \in Handlers, One, Commits(h), RevokeEntitlement(h),
         typeOf(h) \notin ConfirmEvents
  PROVE  IF Kind[checkoutOf(h)] = "plan" /\ ent[userOf(h)] # NoEnt
           THEN ent' = [ent EXCEPT ![userOf(h)] = [status |-> target(h), checkout |-> ent[userOf(h)].checkout]]
           ELSE UNCHANGED ent
<1>1. sawEnt[h] = ent[userOf(h)] /\ ent[userOf(h)] \in EntRows
  BY CommitFacts DEF One, Base, TypeOK
<1>2. WritesEnt(h) <=> Kind[checkoutOf(h)] = "plan" /\ ent[userOf(h)] # NoEnt
  BY <1>1 DEF WritesEnt
<1>3. QED
  BY <1>1, <1>2 DEF RevokeEntitlement, Column, One, Base, TypeOK, EntRows

(* The books of the entitlement survive every commit.                      *)
LEMMA EntKept ==
  ASSUME OneHandler, NEW h \in Handlers, One, Commits(h),
         \/ typeOf(h) \in ConfirmEvents /\ ActivateEntitlement(h)
         \/ typeOf(h) \notin ConfirmEvents /\ RevokeEntitlement(h)
  PROVE  EntOwned' /\ EntitlementBacked' /\ SolePlanInForce'
<1> DEFINE c == checkoutOf(h)
           u == userOf(h)
           t == target(h)
<1>1. /\ c \in Checkouts /\ u \in Users /\ Owner[c] = u
      /\ status \in [Checkouts -> Statuses] /\ ent \in [Users -> EntRows]
      /\ status' = [status EXCEPT ![c] = t]
      /\ status[c] = "paid" => typeOf(h) \notin ConfirmEvents
  BY CommitFacts, WebhookConstants DEF One, Base, TypeOK, ConfirmEvents, ReversalEvents
<1>2. (typeOf(h) \in ConfirmEvents <=> t = "paid") /\ t # "active"
  BY TargetTyped DEF One, Commits, Statuses
<1>3. EntOwned /\ EntitlementBacked /\ SolePlanInForce
  BY DEF One, Books
<1>4. c # None /\ NoEnt = [status |-> "none", checkout |-> None]
  BY <1>1, WebhookConstants DEF WebhookConstants, NoEnt
<1>5. CASE typeOf(h) \in ConfirmEvents /\ ActivateEntitlement(h)
  <2>1. IF Kind[c] = "plan"
          THEN ent' = [ent EXCEPT ![u] = [status |-> "active", checkout |-> c]]
          ELSE UNCHANGED ent
    BY <1>5, Activated
  <2> HIDE DEF c, u, t
  <2>2. EntOwned'
    BY <1>1, <1>3, <1>4, <2>1 DEF EntOwned, EntRows
  <2>3. EntitlementBacked'
    BY <1>1, <1>2, <1>3, <1>4, <1>5, <2>1 DEF EntitlementBacked, EntRows
  <2>4. ASSUME NEW d \in Checkouts, Kind[d] = "plan", status'[d] = "paid",
               \A f \in Checkouts : Kind[f] = "plan" /\ Owner[f] = Owner[d] => f = d
        PROVE  ent'[Owner[d]] = [status |-> "active", checkout |-> d]
    <3>1. CASE d = c
      BY <1>1, <2>1, <2>4, <3>1
    <3>2. CASE d # c
      <4>1. ent[Owner[d]] = [status |-> "active", checkout |-> d]
        BY <1>1, <1>3, <2>4, <3>2 DEF SolePlanInForce
      <4>2. Kind[c] = "plan" => u # Owner[d]
        BY <1>1, <2>4, <3>2
      <4>3. QED
        BY <1>1, <2>1, <4>1, <4>2, WebhookConstants DEF WebhookConstants
    <3>3. QED
      BY <3>1, <3>2
  <2>5. QED
    BY <2>2, <2>3, <2>4 DEF SolePlanInForce
<1>6. CASE typeOf(h) \notin ConfirmEvents /\ RevokeEntitlement(h)
  <2>1. IF Kind[c] = "plan" /\ ent[u] # NoEnt
          THEN ent' = [ent EXCEPT ![u] = [status |-> t, checkout |-> ent[u].checkout]]
          ELSE UNCHANGED ent
    BY <1>6, Revoked
  <2> HIDE DEF c, u, t
  <2>2. EntOwned'
    BY <1>1, <1>3, <2>1 DEF EntOwned, EntRows
  <2>3. EntitlementBacked'
    BY <1>1, <1>2, <1>3, <1>4, <1>6, <2>1 DEF EntitlementBacked, EntOwned, EntRows
  <2>4. ASSUME NEW d \in Checkouts, Kind[d] = "plan", status'[d] = "paid",
               \A f \in Checkouts : Kind[f] = "plan" /\ Owner[f] = Owner[d] => f = d
        PROVE  ent'[Owner[d]] = [status |-> "active", checkout |-> d]
    <3>1. d # c /\ status[d] = "paid"
      BY <1>1, <1>2, <1>6, <2>4
    <3>2. ent[Owner[d]] = [status |-> "active", checkout |-> d]
      BY <1>1, <1>3, <2>4, <3>1 DEF SolePlanInForce
    <3>3. Kind[c] = "plan" => u # Owner[d]
      BY <1>1, <2>4, <3>1
    <3>4. QED
      BY <1>1, <2>1, <3>2, <3>3, WebhookConstants DEF WebhookConstants
  <2>5. QED
    BY <2>2, <2>3, <2>4 DEF SolePlanInForce
<1>7. QED
  BY <1>5, <1>6

(* A new row of the ledger concerns one checkout only.                     *)
LEMMA RowAdded ==
  ASSUME NEW row \in LedgerRows, ledger' = ledger \cup {row}, NEW d
  PROVE  /\ CreditsOf(d)' = CreditsOf(d) \cup
              (IF row.source = "credit" /\ LinkOf[row.pay] = d THEN {row} ELSE {})
         /\ ReversalsOf(d)' = ReversalsOf(d) \cup
              (IF row.source \in Terminal /\ LinkOf[row.pay] = d THEN {row} ELSE {})
BY DEF CreditsOf, ReversalsOf

(* The ledger after a confirmation: its checkout had no entry, and now has *)
(* a credit if its item includes one.                                      *)
LEMMA Granted ==
  ASSUME OneHandler, NEW h \in Handlers, One, Commits(h), typeOf(h) \in ConfirmEvents, CreditWallet(h)
  PROVE  /\ CreditsOf(checkoutOf(h)) = {} /\ ReversalsOf(checkoutOf(h)) = {}
         /\ ~InLedger(payOf(h), "credit")
         /\ CreditRow(payOf(h)) \in LedgerRows
         /\ ledger' = IF Credit[checkoutOf(h)] = 0 THEN ledger ELSE ledger \cup {CreditRow(payOf(h))}
<1>1. /\ checkoutOf(h) \in Checkouts
      /\ status[checkoutOf(h)] \notin Terminal \cup {"paid"}
      /\ Credit[checkoutOf(h)] \in Nat /\ payOf(h) \in Payments
  BY CommitFacts, TargetTyped DEF One, Commits, ConfirmEvents, ReversalEvents
<1>2. CreditsOf(checkoutOf(h)) = {} /\ ReversalsOf(checkoutOf(h)) = {}
  BY <1>1 DEF One, Books, MoneyFollowsState
<1>3. ~InLedger(payOf(h), "credit")
  BY <1>2 DEF InLedger, CreditsOf, checkoutOf
<1>4. CreditRow(payOf(h)) \in LedgerRows
  BY <1>1 DEF CreditRow, LedgerRows, checkoutOf
<1>5. QED
  BY <1>2, <1>3, <1>4 DEF CreditWallet

(* The ledger after a reversal: its checkout had no reversal, and now has  *)
(* one if it had a credit.                                                 *)
LEMMA Taken ==
  ASSUME OneHandler, NEW h \in Handlers, One, Commits(h), typeOf(h) \in ReversalEvents, ReverseCredit(h)
  PROVE  /\ ReversalsOf(checkoutOf(h)) = {}
         /\ CreditsOf(checkoutOf(h)) = {} => UNCHANGED <<wallet, ledger>>
         /\ CreditsOf(checkoutOf(h)) # {} =>
              \E taken, lost \in Nat :
                /\ taken <= sawWallet[h].balance
                /\ TakeBack(h, taken, lost)
                /\ ReversalRow(h, taken, lost) \in LedgerRows
                /\ ledger' = ledger \cup {ReversalRow(h, taken, lost)}
<1>1. /\ checkoutOf(h) \in Checkouts /\ status[checkoutOf(h)] \notin Terminal
      /\ target(h) \in Terminal /\ payOf(h) \in Payments
  BY CommitFacts, TargetTyped DEF One, Commits
<1>2. ReversalsOf(checkoutOf(h)) = {}
  BY <1>1 DEF One, Books, MoneyFollowsState
<1>3. ~InLedger(payOf(h), target(h))
  BY <1>1, <1>2 DEF InLedger, ReversalsOf, checkoutOf
<1>4. NothingToReverse(h) <=> CreditsOf(checkoutOf(h)) = {}
  BY <1>3 DEF NothingToReverse
<1>5. \A taken, lost \in Nat : ReversalRow(h, taken, lost) \in LedgerRows
  BY <1>1 DEF ReversalRow, LedgerRows
<1>6. \/ UNCHANGED <<wallet, ledger>> /\ NothingToReverse(h)
      \/ /\ ~NothingToReverse(h)
         /\ \E taken, lost \in Nat :
              /\ taken <= sawWallet[h].balance
              /\ TakeBack(h, taken, lost)
              /\ ledger' = ledger \cup {ReversalRow(h, taken, lost)}
  BY ReverseTyped DEF One, Commits
<1>7. QED
  BY <1>2, <1>4, <1>5, <1>6

(* The wallet's columns agree after every commit.                          *)
LEMMA ArithmeticCredit ==
  ASSUME OneHandler, NEW h \in Handlers, One, Commits(h), typeOf(h) \in ConfirmEvents, CreditWallet(h)
  PROVE  WalletArithmetic'
<1> DEFINE u == userOf(h)
           w == wallet[u]
           amount == Credit[checkoutOf(h)]
<1>1. u \in Users /\ w \in WalletRows /\ sawWallet[h] = w /\ amount \in Nat
  BY CommitFacts, TargetTyped DEF One, Base, TypeOK, Commits
<1>2. w.balance + w.debited = w.credited
  BY <1>1 DEF One, Books, WalletArithmetic
<1>3. /\ \A v \in Users \ {u} : wallet'[v] = wallet[v]
      /\ wallet'[u].debited = w.debited
      /\ \/ wallet'[u].balance = w.balance /\ wallet'[u].credited = w.credited
         \/ wallet'[u].balance = w.balance + amount /\ wallet'[u].credited = w.credited + amount
  <2>1. CASE wallet' = [wallet EXCEPT ![u].made = TRUE]
    BY <1>1, <2>1 DEF One, Base, TypeOK, WalletRows
  <2>2. CASE wallet' = [wallet EXCEPT ![u].made = TRUE,
                                      ![u].balance = sawWallet[h].balance + amount,
                                      ![u].credited = sawWallet[h].credited + amount]
    BY <1>1, <2>2 DEF One, Base, TypeOK, WalletRows
  <2>3. QED
    BY <2>1, <2>2 DEF CreditWallet
<1> HIDE DEF u, amount
<1>4. w.balance \in Nat /\ w.debited \in Nat /\ w.credited \in Nat
  BY <1>1 DEF WalletRows
<1>5. wallet'[u].balance + wallet'[u].debited = wallet'[u].credited
  BY <1>1, <1>2, <1>3, <1>4
<1>6. QED
  BY <1>3, <1>5 DEF One, Books, WalletArithmetic

LEMMA ArithmeticReverse ==
  ASSUME OneHandler, NEW h \in Handlers, One, Commits(h), typeOf(h) \in ReversalEvents, ReverseCredit(h)
  PROVE  WalletArithmetic'
<1> DEFINE u == userOf(h)
           w == wallet[u]
<1>1. u \in Users /\ w \in WalletRows /\ sawWallet[h] = w
  BY CommitFacts, TargetTyped DEF One, Base, TypeOK, Commits
<1>2. w.balance + w.debited = w.credited
  BY <1>1 DEF One, Books, WalletArithmetic
<1>3. CASE UNCHANGED wallet
  BY <1>3 DEF One, Books, WalletArithmetic
<1>4. ASSUME NEW taken \in Nat, NEW lost \in Nat, TakeBack(h, taken, lost)
      PROVE  WalletArithmetic'
  <2>1. /\ \A v \in Users \ {u} : wallet'[v] = wallet[v]
        /\ wallet'[u].credited = w.credited
        /\ wallet'[u].balance = w.balance - taken
        /\ wallet'[u].debited = w.debited + taken
    BY <1>1, <1>4 DEF One, Base, TypeOK, TakeBack, Column, WalletRows
  <2>2. w.balance \in Nat /\ w.debited \in Nat /\ w.credited \in Nat
    BY <1>1 DEF WalletRows
  <2> HIDE DEF u
  <2>3. wallet'[u].balance + wallet'[u].debited = wallet'[u].credited
    BY <1>2, <2>1, <2>2
  <2>4. QED
    BY <2>1, <2>3 DEF One, Books, WalletArithmetic
<1>5. QED
  BY <1>3, <1>4, Taken

(* What a confirmation does to the entries of every checkout.              *)
LEMMA ConfirmLedger ==
  ASSUME OneHandler, NEW h \in Handlers, One, Commits(h), typeOf(h) \in ConfirmEvents, CreditWallet(h)
  PROVE  \A d \in Checkouts :
           /\ ReversalsOf(d)' = ReversalsOf(d)
           /\ d # checkoutOf(h) => CreditsOf(d)' = CreditsOf(d)
           /\ d = checkoutOf(h) => (CreditsOf(d)' # {} <=> Credit[d] > 0)
<1> DEFINE c == checkoutOf(h)
           row == CreditRow(payOf(h))
<1>1. /\ c \in Checkouts /\ Credit[c] \in Nat
      /\ row.source = "credit" /\ row.source \notin Terminal /\ LinkOf[row.pay] = c
  BY CommitFacts, TargetTyped DEF One, Commits, checkoutOf, CreditRow, Terminal
<1>2. /\ CreditsOf(c) = {} /\ row \in LedgerRows
      /\ ledger' = IF Credit[c] = 0 THEN ledger ELSE ledger \cup {row}
  BY Granted
<1> HIDE DEF c, row
<1>3. ASSUME NEW d \in Checkouts
      PROVE  /\ ReversalsOf(d)' = ReversalsOf(d)
             /\ CreditsOf(d)' = IF d = c /\ Credit[c] > 0 THEN CreditsOf(d) \cup {row} ELSE CreditsOf(d)
  <2>1. CASE Credit[c] = 0
    BY <1>2, <2>1 DEF CreditsOf, ReversalsOf
  <2>2. CASE Credit[c] # 0
    <3>1. /\ CreditsOf(d)' = CreditsOf(d) \cup (IF d = c THEN {row} ELSE {})
          /\ ReversalsOf(d)' = ReversalsOf(d) \cup {}
      BY <1>1, <1>2, <2>2, RowAdded
    <3>2. QED
      BY <1>1, <2>2, <3>1
  <2>3. QED
    BY <2>1, <2>2
<1>4. QED
  BY <1>1, <1>2, <1>3 DEF c

(* What a reversal does to the entries of every checkout.                  *)
LEMMA ReverseLedger ==
  ASSUME OneHandler, NEW h \in Handlers, One, Commits(h), typeOf(h) \in ReversalEvents, ReverseCredit(h)
  PROVE  \A d \in Checkouts :
           /\ CreditsOf(d)' = CreditsOf(d)
           /\ d # checkoutOf(h) => ReversalsOf(d)' = ReversalsOf(d)
           /\ d = checkoutOf(h) => /\ ReversalsOf(d)' # {} <=> CreditsOf(d) # {}
                                  /\ \A x, y \in ReversalsOf(d)' : x = y
<1> DEFINE c == checkoutOf(h)
           t == target(h)
<1>1. c = LinkOf[payOf(h)] /\ t \in Terminal /\ t # "credit"
  BY TargetTyped DEF One, Commits, checkoutOf, Terminal
<1>2. ReversalsOf(c) = {}
  BY Taken
<1>3. CASE CreditsOf(c) = {}
  <2>1. UNCHANGED ledger
    BY <1>3, Taken
  <2>2. \A d : CreditsOf(d)' = CreditsOf(d) /\ ReversalsOf(d)' = ReversalsOf(d)
    BY <2>1 DEF CreditsOf, ReversalsOf
  <2> HIDE DEF c
  <2>3. QED
    BY <1>2, <1>3, <2>2 DEF c
<1>4. CASE CreditsOf(c) # {}
  <2>1. PICK row \in LedgerRows :
          /\ ledger' = ledger \cup {row}
          /\ row.source = t /\ row.pay = payOf(h)
    BY <1>4, Taken DEF ReversalRow
  <2> HIDE DEF c, t
  <2>2. ASSUME NEW d \in Checkouts
        PROVE  /\ CreditsOf(d)' = CreditsOf(d)
               /\ ReversalsOf(d)' = IF d = c THEN ReversalsOf(d) \cup {row} ELSE ReversalsOf(d)
    <3>1. /\ CreditsOf(d)' = CreditsOf(d) \cup {}
          /\ ReversalsOf(d)' = ReversalsOf(d) \cup (IF d = c THEN {row} ELSE {})
      BY <1>1, <2>1, RowAdded
    <3>2. QED
      BY <3>1
  <2>3. QED
    BY <1>2, <1>4, <2>2 DEF c
<1>5. QED
  BY <1>3, <1>4

(* The ledger and the state of every checkout still agree.                 *)
LEMMA MoneyConfirm ==
  ASSUME OneHandler, NEW h \in Handlers, One, Commits(h), typeOf(h) \in ConfirmEvents, CreditWallet(h)
  PROVE  MoneyFollowsState'
<1> DEFINE c == checkoutOf(h)
<1>1. /\ c \in Checkouts /\ status \in [Checkouts -> Statuses]
      /\ status' = [status EXCEPT ![c] = "paid"] /\ Credit[c] \in Nat
  BY CommitFacts, TargetTyped DEF One, Base, TypeOK, Commits
<1>2. CreditsOf(c) = {} /\ ReversalsOf(c) = {}
  BY Granted
<1>3. MoneyFollowsState /\ "paid" \notin Terminal
  BY DEF One, Books, Terminal
<1>4. \A d \in Checkouts :
        /\ ReversalsOf(d)' = ReversalsOf(d)
        /\ d # c => CreditsOf(d)' = CreditsOf(d)
        /\ d = c => (CreditsOf(d)' # {} <=> Credit[d] > 0)
  BY ConfirmLedger
<1> HIDE DEF c
<1>5. QED
  BY <1>1, <1>2, <1>3, <1>4 DEF MoneyFollowsState

LEMMA MoneyLapse ==
  ASSUME OneHandler, NEW h \in Handlers, One, Commits(h), typeOf(h) \in LapseEvents, UNCHANGED ledger
  PROVE  MoneyFollowsState'
<1> DEFINE c == checkoutOf(h)
<1>1. /\ c \in Checkouts /\ status \in [Checkouts -> Statuses]
      /\ status' = [status EXCEPT ![c] = target(h)]
      /\ status[c] \notin Terminal \cup {"paid"} /\ target(h) \notin Terminal \cup {"paid"}
  BY CommitFacts, TargetTyped DEF One, Base, TypeOK, Commits, LapseEvents, ConfirmEvents, ReversalEvents
<1>2. MoneyFollowsState
  BY DEF One, Books
<1> HIDE DEF c
<1>3. QED
  BY <1>1, <1>2 DEF MoneyFollowsState, CreditsOf, ReversalsOf

LEMMA MoneyReverse ==
  ASSUME OneHandler, NEW h \in Handlers, One, Commits(h), typeOf(h) \in ReversalEvents, ReverseCredit(h)
  PROVE  MoneyFollowsState'
<1> DEFINE c == checkoutOf(h)
           t == target(h)
<1>1. /\ c \in Checkouts /\ status \in [Checkouts -> Statuses]
      /\ status' = [status EXCEPT ![c] = t] /\ t \in Terminal /\ t # "paid"
  BY CommitFacts, TargetTyped DEF One, Base, TypeOK, Commits, Terminal
<1>2. MoneyFollowsState
  BY DEF One, Books
<1>3. \A d \in Checkouts :
        /\ CreditsOf(d)' = CreditsOf(d)
        /\ d # c => ReversalsOf(d)' = ReversalsOf(d)
        /\ d = c => /\ ReversalsOf(d)' # {} <=> CreditsOf(d) # {}
                   /\ \A x, y \in ReversalsOf(d)' : x = y
  BY ReverseLedger
<1> HIDE DEF c, t
<1>4. QED
  BY <1>1, <1>2, <1>3 DEF MoneyFollowsState

(* The commits.                                                            *)
LEMMA CommitOne ==
  ASSUME OneHandler, NEW h \in Handlers, One, Commit(h)
  PROVE  One'
<1>1. CASE CommitConfirm(h)
  <2>1. Commits(h) /\ typeOf(h) \in ConfirmEvents /\ ActivateEntitlement(h) /\ CreditWallet(h)
    BY <1>1 DEF CommitConfirm
  <2>2. QED
    BY <1>1, <2>1, CommitConfirmBase, CommitFacts, EntKept, ArithmeticCredit, MoneyConfirm DEF One, Books
<1>2. CASE CommitLapse(h)
  <2>1. /\ Commits(h) /\ typeOf(h) \in LapseEvents /\ typeOf(h) \notin ConfirmEvents
        /\ RevokeEntitlement(h) /\ UNCHANGED <<wallet, ledger>>
    BY <1>2 DEF CommitLapse, LapseEvents, ConfirmEvents
  <2>2. WalletArithmetic'
    BY <2>1 DEF One, Books, WalletArithmetic
  <2>3. QED
    BY <1>2, <2>1, <2>2, CommitLapseBase, CommitFacts, EntKept, MoneyLapse DEF One, Books
<1>3. CASE CommitReversal(h)
  <2>1. /\ Commits(h) /\ typeOf(h) \in ReversalEvents /\ typeOf(h) \notin ConfirmEvents
        /\ RevokeEntitlement(h) /\ ReverseCredit(h)
    BY <1>3 DEF CommitReversal, ReversalEvents, ConfirmEvents
  <2>2. QED
    BY <1>3, <2>1, CommitReversalBase, CommitFacts, EntKept, ArithmeticReverse, MoneyReverse DEF One, Books
<1>4. QED
  BY <1>1, <1>2, <1>3 DEF Commit

LEMMA NextOne ==
  ASSUME OneHandler, One, [Next]_vars
  PROVE  One'
<1>1. CASE UNCHANGED vars
  <2>1. StillTrue'
    BY <1>1 DEF vars, dbVars, readVars, One, StillTrue, checkoutOf, typeOf, payOf, userOf
  <2>2. QED
    BY <1>1, <2>1, NextBase, BooksUntouched DEF vars, dbVars, One
<1>2. ASSUME NEW e \in sent, Deliver(e)
      PROVE  One'
  BY <1>2, IgnoreOne, ReceiveOne DEF Deliver
<1>3. QED
  BY <1>1, <1>2, EmitOne, SpendOne, LockCheckoutOne, FlushEntitlementOne, CommitOne, AbortOne DEF Next

(* With one handler, what it read is still true when it commits, and the   *)
(* books agree with the states of the checkouts (process_asaas_webhook).   *)
THEOREM OneHolds == ASSUME OneHandler PROVE Spec => []One
BY InitOne, NextOne, PTL DEF Spec

(* One handler: an active entitlement names a paid checkout.               *)
THEOREM EntitlementIsBacked == ASSUME OneHandler PROVE Spec => []EntitlementBacked
<1>1. One => EntitlementBacked
  BY DEF One, Books
<1>2. QED
  BY <1>1, OneHolds, PTL

(* One handler: a user's only paid plan is in force.                       *)
THEOREM SolePlanIsInForce == ASSUME OneHandler PROVE Spec => []SolePlanInForce
<1>1. One => SolePlanInForce
  BY DEF One, Books
<1>2. QED
  BY <1>1, OneHolds, PTL

(* One handler: the columns of a wallet agree.                             *)
THEOREM WalletAddsUp == ASSUME OneHandler PROVE Spec => []WalletArithmetic
<1>1. One => WalletArithmetic
  BY DEF One, Books
<1>2. QED
  BY <1>1, OneHolds, PTL

(* One handler: the ledger tells the story of the checkout's state.        *)
THEOREM MoneyIsFollowed == ASSUME OneHandler PROVE Spec => []MoneyFollowsState
<1>1. One => MoneyFollowsState
  BY DEF One, Books
<1>2. QED
  BY <1>1, OneHolds, PTL
--------------------------------------------------------------------------------
(***************************************************************************)
(* One handler: reversals dominate, and the promise is kept.               *)
(***************************************************************************)
LEMMA QuietStep ==
  ASSUME UNCHANGED <<status, ledger>>
  PROVE  ReversalStep /\ UNCHANGED Promise!promised
<1>1. \A c : outcomeAt(c)' = outcomeAt(c) /\ moneyAt(c)' = moneyAt(c)
  BY DEF outcomeAt, moneyAt, CreditsOf, ReversalsOf
<1>2. QED
  BY <1>1 DEF ReversalStep, outcomeOf, moneyOf, Promise!promised

LEMMA ConfirmStep ==
  ASSUME OneHandler, NEW h \in Handlers, One, CommitConfirm(h)
  PROVE  ReversalStep /\ Promise!Pay(checkoutOf(h))
<1> DEFINE c == checkoutOf(h)
<1>1. Commits(h) /\ typeOf(h) \in ConfirmEvents /\ CreditWallet(h)
  BY DEF CommitConfirm
<1>2. /\ c \in Checkouts /\ status \in [Checkouts -> Statuses] /\ Credit[c] \in Nat
      /\ status' = [status EXCEPT ![c] = "paid"]
      /\ status[c] \notin Terminal \cup {"paid", "cancelled"}
  BY <1>1, CommitFacts, TargetTyped DEF One, Base, TypeOK, Commits, ConfirmEvents, ReversalEvents
<1>3. ReversalsOf(c) = {}
  BY <1>1, Granted
<1>4. \A d \in Checkouts :
        /\ ReversalsOf(d)' = ReversalsOf(d)
        /\ d # c => CreditsOf(d)' = CreditsOf(d)
        /\ d = c => (CreditsOf(d)' # {} <=> Credit[d] > 0)
  BY <1>1, ConfirmLedger
<1> HIDE DEF c
<1>5. outcomeOf[c] = "open" /\ outcomeOf' = [outcomeOf EXCEPT ![c] = "paid"]
  BY <1>2 DEF outcomeOf, outcomeAt, Terminal
<1>6. moneyOf' = [moneyOf EXCEPT ![c] = IF c \in {d \in Checkouts : Credit[d] > 0} THEN "granted" ELSE "none"]
  BY <1>2, <1>3, <1>4 DEF moneyOf, moneyAt
<1>7. QED
  BY <1>2, <1>5, <1>6 DEF ReversalStep, Promise!Pay, c

LEMMA LapseStep ==
  ASSUME OneHandler, NEW h \in Handlers, One, CommitLapse(h)
  PROVE  ReversalStep /\ (Promise!Close(checkoutOf(h)) \/ UNCHANGED Promise!promised)
<1> DEFINE c == checkoutOf(h)
<1>1. Commits(h) /\ typeOf(h) \in LapseEvents /\ UNCHANGED ledger
  BY DEF CommitLapse
<1>2. /\ c \in Checkouts /\ status \in [Checkouts -> Statuses]
      /\ status' = [status EXCEPT ![c] = target(h)]
      /\ status[c] \notin Terminal \cup {"paid"}
  BY <1>1, CommitFacts, TargetTyped DEF One, Base, TypeOK, Commits, LapseEvents, ReversalEvents
<1>3. /\ \/ typeOf(h) = "OVERDUE" /\ target(h) = "expired"
         \/ typeOf(h) = "DELETED" /\ target(h) = "cancelled"
      /\ status[c] # "cancelled"
  BY <1>1 DEF One, StillTrue, Commits, Effective, LapseEvents, ConfirmEvents, ReversalEvents, target, NextStatus, EventTypes
<1>4. \A d : moneyAt(d)' = moneyAt(d)
  BY <1>1 DEF moneyAt, CreditsOf, ReversalsOf
<1> HIDE DEF c
<1>5. outcomeOf[c] = "open" /\ outcomeOf' = [outcomeOf EXCEPT ![c] = IF target(h) = "cancelled" THEN "closed" ELSE "open"]
  BY <1>2, <1>3 DEF outcomeOf, outcomeAt, Terminal
<1>6. UNCHANGED moneyOf
  BY <1>4 DEF moneyOf
<1>7. target(h) # "cancelled" => UNCHANGED outcomeOf
  BY <1>2, <1>5 DEF outcomeOf
<1>8. QED
  BY <1>2, <1>5, <1>6, <1>7 DEF ReversalStep, Promise!Close, Promise!promised, c

LEMMA ReverseStep ==
  ASSUME OneHandler, NEW h \in Handlers, One, CommitReversal(h)
  PROVE  ReversalStep /\ Promise!Reverse(checkoutOf(h))
<1> DEFINE c == checkoutOf(h)
<1>1. Commits(h) /\ typeOf(h) \in ReversalEvents /\ ReverseCredit(h)
  BY DEF CommitReversal
<1>2. /\ c \in Checkouts /\ status \in [Checkouts -> Statuses]
      /\ status' = [status EXCEPT ![c] = target(h)]
      /\ status[c] \notin Terminal /\ target(h) \in Terminal
  BY <1>1, CommitFacts, TargetTyped DEF One, Base, TypeOK, Commits
<1>3. ReversalsOf(c) = {}
  BY <1>1, Taken
<1>4. \A d \in Checkouts :
        /\ CreditsOf(d)' = CreditsOf(d)
        /\ d # c => ReversalsOf(d)' = ReversalsOf(d)
        /\ d = c => (ReversalsOf(d)' # {} <=> CreditsOf(d) # {})
  BY <1>1, ReverseLedger
<1> HIDE DEF c
<1>5. outcomeOf[c] # "reversed" /\ outcomeOf' = [outcomeOf EXCEPT ![c] = "reversed"]
  BY <1>2 DEF outcomeOf, outcomeAt
<1>6. moneyOf' = [moneyOf EXCEPT ![c] = IF @ = "granted" THEN "taken" ELSE @]
  BY <1>2, <1>3, <1>4 DEF moneyOf, moneyAt
<1>7. QED
  BY <1>2, <1>5, <1>6 DEF ReversalStep, Promise!Reverse, c

LEMMA NextStep ==
  ASSUME OneHandler, One, [Next]_vars
  PROVE  ReversalStep /\ [Promise!PromiseNext]_(Promise!promised)
<1>1. CASE \E h \in Handlers : Commit(h)
  <2>1. PICK h \in Handlers : Commit(h)
    BY <1>1
  <2>2. checkoutOf(h) \in Checkouts
    BY <2>1 DEF Commit, CommitConfirm, CommitLapse, CommitReversal, Commits, One, Base, BusyBound
  <2>3. QED
    BY <2>1, <2>2, ConfirmStep, LapseStep, ReverseStep DEF Commit, Promise!PromiseNext
<1>2. CASE ~\E h \in Handlers : Commit(h)
  <2>1. UNCHANGED <<status, ledger>>
    BY <1>2 DEF Next, Emit, Deliver, Ignore, Receive, LockCheckout, FlushEntitlement, Abort, Spend, vars, dbVars
  <2>2. QED
    BY <2>1, QuietStep
<1>3. QED
  BY <1>1, <1>2

(* One handler: what is refunded or charged back stays so.                 *)
THEOREM ReversalsDominate == ASSUME OneHandler PROVE Spec => ReversalDominates
<1>1. One /\ [Next]_vars => [ReversalStep]_vars
  BY NextStep
<1>2. QED
  BY <1>1, OneHolds, PTL DEF Spec, ReversalDominates

(* One handler: the webhook implements PaymentPromise.                     *)
THEOREM PromiseKept == ASSUME OneHandler PROVE Spec => KeepsPromise
<1>1. Init => Promise!PromiseInit
  BY DEF Init, Promise!PromiseInit, outcomeOf, outcomeAt, moneyOf, moneyAt, CreditsOf, Terminal
<1>2. One /\ [Next]_vars => [Promise!PromiseNext]_(Promise!promised)
  BY NextStep
<1>3. QED
  BY <1>1, <1>2, OneHolds, PTL DEF Spec, KeepsPromise, Promise!PromiseSpec
--------------------------------------------------------------------------------
(***************************************************************************)
(* One handler: whatever the order of delivery, a checkout with one        *)
(* payment ends where the provider holds that payment.  The state of such  *)
(* a checkout is a function of the events answered so far, not of their    *)
(* order, because the provider excludes the pairs that would not commute.  *)
(***************************************************************************)
(* The events of a payment whose last one is l.                            *)
Past(l) ==
  {m \in EventTypes :
     \/ m = l
     \/ m = "CREATED" /\ l # "NONE"
     \/ m = "OVERDUE" /\ l \notin {"NONE", "CREATED"}
     \/ m = "CONFIRMED" /\ l \in ReversalEvents \cup {"RECEIVED"}
     \/ m = "RECEIVED" /\ l \in ReversalEvents
     \/ m = "CHARGEBACK_REQUESTED" /\ l = "CHARGEBACK_DISPUTE"}

Emitted(p) == {t \in EventTypes : <<t, p>> \in sent}
Answered(p) == {t \in EventTypes : <<t, p>> \in seen}

(* The state to which events lead, in whatever order they are answered.    *)
StatusAfter(A) ==
  IF "REFUNDED" \in A THEN "refunded"
  ELSE IF A \cap {"CHARGEBACK_REQUESTED", "CHARGEBACK_DISPUTE"} # {} THEN "chargeback"
  ELSE IF A \cap ConfirmEvents # {} THEN "paid"
  ELSE IF "DELETED" \in A THEN "cancelled"
  ELSE IF "OVERDUE" \in A THEN "expired" ELSE "pending"

SolePayment(p) ==
  LinkOf[p] # None /\ \A q \in Payments : LinkOf[q] = LinkOf[p] => q = p

(* Nothing is answered that was not emitted, and nothing handled twice.    *)
NoInvention ==
  /\ seen \subseteq sent
  /\ \A h \in Handlers : at[h] # "idle" => ev[h] \in sent \ seen

Lives ==
  \A p \in Payments :
    /\ Emitted(p) \subseteq Past(last[p])
    /\ last[p] # "NONE" => last[p] \in Emitted(p)

Story ==
  \A p \in Payments : SolePayment(p) => status[LinkOf[p]] = StatusAfter(Answered(p))

Told == NoInvention /\ Lives /\ Story

LEMMA InitTold == Init => Told
<1> SUFFICES ASSUME Init PROVE Told
  OBVIOUS
<1>1. NoInvention /\ Lives
  BY DEF Init, NoInvention, Lives, Emitted
<1>2. Story
  BY WebhookConstants
     DEF WebhookConstants, Init, Story, SolePayment, Answered, StatusAfter, ConfirmEvents
<1> QED
  BY <1>1, <1>2 DEF Told

(* An event that follows the last one joins the past.                      *)
LEMMA PastGrows ==
  ASSUME NEW l \in EventTypes \cup {"NONE"}, NEW t \in EventTypes, <<l, t>> \in Follows
  PROVE  Past(l) \cup {t} \subseteq Past(t)
BY DEF Past, Follows, EventTypes, ReversalEvents

(* What excludes what in the life of a payment.                            *)
LEMMA Exclusive ==
  ASSUME NEW l \in EventTypes \cup {"NONE"}
  PROVE  /\ "REFUNDED" \in Past(l) =>
              /\ "CHARGEBACK_REQUESTED" \notin Past(l)
              /\ "CHARGEBACK_DISPUTE" \notin Past(l)
         /\ "DELETED" \in Past(l) => Past(l) \subseteq {"CREATED", "OVERDUE", "DELETED"}
BY DEF Past, EventTypes, ReversalEvents

(* One more event, answered at any time after it was emitted: it acts just *)
(* when StatusAfter says so, and leads where StatusAfter says.             *)
LEMMA OneMore ==
  ASSUME NEW l \in EventTypes \cup {"NONE"}, NEW A, NEW t \in EventTypes,
         t \notin A, A \cup {t} \subseteq Past(l)
  PROVE  StatusAfter(A \cup {t}) =
           IF Effective(StatusAfter(A), t) THEN NextStatus[t] ELSE StatusAfter(A)
<1>1. A \subseteq EventTypes
  BY DEF Past
<1>2. t = "CREATED" => StatusAfter(A \cup {t}) = StatusAfter(A) /\ ~Effective(StatusAfter(A), t)
  BY DEF StatusAfter, Effective, ConfirmEvents, LapseEvents, ReversalEvents
<1>3. CASE t = "OVERDUE"
  BY <1>3 DEF StatusAfter, Effective, ConfirmEvents, LapseEvents, ReversalEvents, Terminal, NextStatus, EventTypes
<1>4. CASE t = "DELETED"
  <2>1. A \subseteq {"CREATED", "OVERDUE"}
    BY <1>4, Exclusive
  <2>2. StatusAfter(A) \in {"pending", "expired"} /\ StatusAfter(A \cup {t}) = "cancelled"
    BY <1>4, <2>1 DEF StatusAfter, ConfirmEvents
  <2> QED
    BY <1>4, <2>2 DEF Effective, LapseEvents, ConfirmEvents, Terminal, NextStatus, EventTypes, ReversalEvents
<1>5. CASE t \in ConfirmEvents
  <2>1. "DELETED" \notin A
    BY <1>5, Exclusive DEF ConfirmEvents
  <2> QED
    BY <1>5, <2>1 DEF StatusAfter, Effective, ConfirmEvents, LapseEvents, ReversalEvents, Terminal, NextStatus, EventTypes
<1>6. CASE t = "REFUNDED"
  <2>1. "CHARGEBACK_REQUESTED" \notin A /\ "CHARGEBACK_DISPUTE" \notin A
    BY <1>6, Exclusive
  <2> QED
    BY <1>6, <2>1 DEF StatusAfter, Effective, ConfirmEvents, LapseEvents, ReversalEvents, Terminal, NextStatus, EventTypes
<1>7. CASE t \in {"CHARGEBACK_REQUESTED", "CHARGEBACK_DISPUTE"}
  <2>1. "REFUNDED" \notin A
    BY <1>7, Exclusive
  <2> QED
    BY <1>7, <2>1 DEF StatusAfter, Effective, ConfirmEvents, LapseEvents, ReversalEvents, Terminal, NextStatus, EventTypes
<1> QED
  BY <1>2, <1>3, <1>4, <1>5, <1>6, <1>7 DEF EventTypes, ConfirmEvents

(* An answer to an event of one payment, whoever gave it.                  *)
LEMMA AnswerTold ==
  ASSUME Base, Told, NEW e \in sent, e \notin seen,
         seen' = seen \cup {e}, UNCHANGED <<last, sent>>,
         status' = IF Acts(e) THEN [status EXCEPT ![LinkOf[e[2]]] = NextStatus[e[1]]] ELSE status
  PROVE  Story'
<1> SUFFICES ASSUME NEW p \in Payments, SolePayment(p)
             PROVE  status'[LinkOf[p]] = StatusAfter(Answered(p)')
  BY DEF Story, SolePayment
<1>1. /\ LinkOf[p] \in Checkouts /\ status \in [Checkouts -> Statuses]
      /\ e[1] \in EventTypes /\ e[2] \in Payments /\ e = <<e[1], e[2]>>
      /\ last[p] \in EventTypes \cup {"NONE"}
  BY WebhookConstants DEF WebhookConstants, SolePayment, Base, TypeOK, Events
<1>2. status[LinkOf[p]] = StatusAfter(Answered(p))
  BY DEF Told, Story
<1>3. CASE e[2] # p
  <2>1. Answered(p)' = Answered(p)
    BY <1>1, <1>3 DEF Answered
  <2>2. LinkOf[e[2]] # LinkOf[p]
    BY <1>1, <1>3 DEF SolePayment
  <2> QED
    BY <1>1, <1>2, <2>1, <2>2
<1>4. CASE e[2] = p
  <2>1. Answered(p)' = Answered(p) \cup {e[1]}
    BY <1>1, <1>4 DEF Answered
  <2>2. e[1] \notin Answered(p)
    BY <1>1, <1>4 DEF Answered
  <2>3. Answered(p) \cup {e[1]} \subseteq Past(last[p])
    BY <1>1, <1>4 DEF Told, NoInvention, Lives, Emitted, Answered
  <2>4. Acts(e) <=> Effective(StatusAfter(Answered(p)), e[1])
    BY <1>2, <1>4 DEF Acts, SolePayment
  <2>5. StatusAfter(Answered(p) \cup {e[1]}) =
          IF Acts(e) THEN NextStatus[e[1]] ELSE StatusAfter(Answered(p))
    BY <1>1, <2>2, <2>3, <2>4, OneMore
  <2> QED
    BY <1>1, <1>2, <1>4, <2>1, <2>5
<1> QED
  BY <1>3, <1>4

(* A step that leaves the events and the checkouts alone.                  *)
LEMMA ToldUntouched ==
  ASSUME Told, UNCHANGED <<last, sent, seen, status>>
  PROVE  Lives' /\ Story'
BY DEF Told, Lives, Story, Emitted, Answered

LEMMA NextTold ==
  ASSUME OneHandler, One, Told, [Next]_vars
  PROVE  Told'
<1> USE DEF One
<1>1. CASE UNCHANGED vars
  BY <1>1, ToldUntouched DEF vars, providerVars, dbVars, Told, NoInvention
<1>2. ASSUME NEW p \in Payments, NEW t \in EventTypes, Emit(p, t)
      PROVE  Told'
  <2>1. /\ last' = [last EXCEPT ![p] = t] /\ sent' = sent \cup {<<t, p>>}
        /\ seen' = seen /\ status' = status /\ at' = at /\ ev' = ev
        /\ <<last[p], t>> \in Follows
        /\ last \in [Payments -> EventTypes \cup {"NONE"}]
    BY <1>2 DEF Emit, dbVars, Base, TypeOK
  <2>2. NoInvention'
    BY <2>1 DEF Told, NoInvention
  <2>3. ASSUME NEW q \in Payments
        PROVE  /\ Emitted(q)' \subseteq Past(last'[q])
               /\ last'[q] # "NONE" => last'[q] \in Emitted(q)'
    <3>1. CASE q = p
      <4>1. Emitted(q)' = Emitted(q) \cup {t} /\ last'[q] = t
        BY <2>1, <3>1 DEF Emitted
      <4>2. Emitted(q) \subseteq Past(last[q])
        BY DEF Told, Lives
      <4> QED
        BY <2>1, <3>1, <4>1, <4>2, PastGrows
    <3>2. CASE q # p
      <4>1. Emitted(q)' = Emitted(q) /\ last'[q] = last[q]
        BY <2>1, <3>2 DEF Emitted
      <4> QED
        BY <4>1 DEF Told, Lives
    <3> QED
      BY <3>1, <3>2
  <2>4. Lives'
    BY <2>3 DEF Lives
  <2>5. Story'
    BY <2>1 DEF Told, Story, Answered
  <2> QED
    BY <2>2, <2>4, <2>5 DEF Told
<1>3. ASSUME NEW h \in Handlers, NEW e \in sent, Ignore(h, e)
      PROVE  Told'
  <2>1. /\ e \notin seen /\ ~Acts(e) /\ seen' = seen \cup {e}
        /\ UNCHANGED <<last, sent, status, at, ev>>
        /\ \A g \in Handlers : at[g] = "idle"
    BY <1>3 DEF Ignore, Claims, providerVars, OneHandler
  <2>2. Story'
    BY <2>1, AnswerTold
  <2> QED
    BY <2>1, <2>2 DEF Told, NoInvention, Lives, Emitted
<1>4. ASSUME NEW h \in Handlers, NEW e \in sent, Receive(h, e)
      PROVE  Told'
  <2>1. UNCHANGED <<last, sent, seen, status>> /\ ev' = [ev EXCEPT ![h] = e] /\ at' = [at EXCEPT ![h] = "read"]
            /\ e \notin seen
    BY <1>4 DEF Receive, Claims, providerVars, dbVars
  <2>2. NoInvention'
    BY <2>1 DEF Told, NoInvention, Base, TypeOK
  <2> QED
    BY <2>1, <2>2, ToldUntouched DEF Told
<1>5. ASSUME NEW h \in Handlers, LockCheckout(h) \/ FlushEntitlement(h) \/ Abort(h)
      PROVE  Told'
  <2>1. /\ UNCHANGED <<last, sent, seen, status>>
        /\ \A g \in Handlers : at'[g] # "idle" => at[g] # "idle" /\ ev'[g] = ev[g]
    BY <1>5 DEF LockCheckout, FlushEntitlement, Abort, EndHandler, providerVars, dbVars, Base, TypeOK
  <2> QED
    BY <2>1, ToldUntouched DEF Told, NoInvention
<1>6. ASSUME NEW u \in Users, Spend(u)
      PROVE  Told'
  BY <1>6, ToldUntouched DEF Spend, providerVars, Told, NoInvention
<1>7. ASSUME NEW h \in Handlers, Commit(h)
      PROVE  Told'
  <2>1. Commits(h) /\ at[h] = "flushed"
    BY <1>7 DEF Commit, CommitConfirm, CommitLapse, CommitReversal, Commits
  <2>2. /\ seen' = seen \cup {ev[h]} /\ UNCHANGED <<last, sent>> /\ ev[h] \in sent
        /\ status' = [status EXCEPT ![LinkOf[ev[h][2]]] = NextStatus[ev[h][1]]]
        /\ \A g \in Handlers : at'[g] = "idle"
    BY <2>1 DEF Commits, Told, NoInvention, providerVars, EndHandler, OneHandler, Base, TypeOK,
                checkoutOf, payOf, target, typeOf
  <2>3. Acts(ev[h])
    BY <2>1, WebhookConstants
       DEF Acts, StillTrue, Base, BusyBound, checkoutOf, payOf, typeOf, WebhookConstants
  <2>4. ev[h] \notin seen
    BY <2>1 DEF Told, NoInvention
  <2>5. Story'
    BY <2>2, <2>3, <2>4, AnswerTold
  <2>6. NoInvention' /\ Lives'
    BY <2>2 DEF Told, NoInvention, Lives, Emitted
  <2> QED
    BY <2>5, <2>6 DEF Told
<1> QED
  BY <1>1, <1>2, <1>3, <1>4, <1>5, <1>6, <1>7 DEF Next, Deliver

(* One handler: once all events of a checkout's only payment are answered, *)
(* the checkout is where the provider holds the payment.                   *)
THEOREM OrderDoesNotMatter == ASSUME OneHandler PROVE Spec => []Settled
<1>1. One /\ Told => Settled
  <2> SUFFICES ASSUME One, Told, NEW p \in Payments, SolePayment(p), Emitted(p) \subseteq Answered(p)
               PROVE  status[LinkOf[p]] = Settlement(p)
    BY DEF Settled, SolePayment, Emitted, Answered
  <2>1. last[p] \in EventTypes \cup {"NONE"}
    BY DEF One, Base, TypeOK
  <2>2. /\ Answered(p) \subseteq Past(last[p])
        /\ last[p] # "NONE" => last[p] \in Answered(p)
    BY DEF Told, NoInvention, Lives, Emitted, Answered
  <2>3. StatusAfter(Answered(p)) = Settlement(p)
    BY <2>1, <2>2 DEF StatusAfter, Settlement, Past, EventTypes, ConfirmEvents, LapseEvents,
                      ReversalEvents, NextStatus
  <2> QED
    BY <2>3 DEF Told, Story
<1>2. One /\ Told /\ [Next]_vars => One' /\ Told'
  BY NextOne, NextTold
<1> QED
  BY <1>1, <1>2, InitOne, InitTold, PTL DEF Spec
--------------------------------------------------------------------------------
(***************************************************************************)
(* Sums over the ledger.  An induction over the subsets of a finite set is *)
(* the choice of a minimal one among those that would refute the claim.    *)
(***************************************************************************)
LEMMA MinimalSubset ==
  ASSUME NEW L, IsFiniteSet(L), NEW T, T \subseteq SUBSET L, T # {}
  PROVE  \E m \in T : \A s \in T : s \subseteq m => s = m
<1>1. T \subseteq FiniteSubsetsOf(L)
  BY FS_Subset DEF FiniteSubsetsOf
<1>2. \E m \in T : \A s \in T : ~(<<s, m>> \in StrictSubsetOrdering(L))
  BY <1>1, FS_StrictSubsetOrderingWellFounded, WFMin
<1> QED
  BY <1>2 DEF StrictSubsetOrdering

Pick(s) == CHOOSE x \in s : TRUE

(* G sums F over the subsets of L, as MapThenSumSet does.                  *)
Sums(G, F, L) ==
  G = [s \in SUBSET L |-> IF s = {} THEN 0 ELSE F[Pick(s)] + G[s \ {Pick(s)}]]

SumsIn(G, F, L) == F \in [L -> Nat] /\ G \in [SUBSET L -> Nat] /\ Sums(G, F, L)

(* It does not matter which element is taken out first.                    *)
Additive(G, F, L) == \A s \in SUBSET L : \A x \in s : G[s] = F[x] + G[s \ {x}]

(* G sums F over the members of D.                                         *)
SumsOn(G, F, D) ==
  /\ G \in [D -> Nat]
  /\ \A s \in D : G[s] = IF s = {} THEN 0 ELSE F[Pick(s)] + G[s \ {Pick(s)}]

UpTo(L, n) == {s \in SUBSET L : Cardinality(s) <= n}

Below == {ss \in Nat \X Nat : ss[1] < ss[2]}

LEMMA NatInductionOnSets ==
  ASSUME NEW N, 0 \in N, \A n \in Nat : n \in N => n + 1 \in N
  PROVE  \A n \in Nat : n \in N
<1> DEFINE T == Nat \ N
<1> SUFFICES ASSUME T # {} PROVE FALSE
  OBVIOUS
<1>1. IsWellFoundedOn(Below, Nat)
  BY NatLessThanWellFounded DEF OpToRel, Below
<1>2. T \subseteq Nat
  OBVIOUS
<1> HIDE DEF T
<1>3. PICK m \in T : \A k \in T : ~(<<k, m>> \in Below)
  BY <1>1, <1>2, WFMin
<1>4. m \in Nat /\ m # 0 /\ m \notin N
  BY <1>2 DEF T
<1>5. m - 1 \in Nat /\ <<m - 1, m>> \in Below
  BY <1>4 DEF Below
<1>6. m - 1 \in N
  BY <1>3, <1>5 DEF T
<1> QED
  BY <1>4, <1>5, <1>6

LEMMA PickIn == ASSUME NEW s, s # {} PROVE Pick(s) \in s
BY DEF Pick

LEMMA SumExists ==
  ASSUME NEW L, IsFiniteSet(L), NEW F \in [L -> Nat]
  PROVE  \E G \in [SUBSET L -> Nat] : Sums(G, F, L)
<1> DEFINE N == {n \in Nat : \E g : SumsOn(g, F, UpTo(L, n))}
<1>1. 0 \in N
  <2>1. UpTo(L, 0) = {{}}
    BY FS_EmptySet, FS_Subset, FS_CardinalityType DEF UpTo
  <2>2. SumsOn([s \in {{}} |-> 0], F, {{}})
    BY DEF SumsOn
  <2> QED
    BY <2>1, <2>2
<1>2. ASSUME NEW n \in Nat, n \in N
      PROVE  n + 1 \in N
  <2>1. PICK g : SumsOn(g, F, UpTo(L, n))
    BY <1>2
  <2> DEFINE D == UpTo(L, n + 1)
             next == [s \in D |-> IF s = {} THEN 0 ELSE F[Pick(s)] + g[s \ {Pick(s)}]]
  <2>2. \A s \in D : s # {} => s \ {Pick(s)} \in UpTo(L, n) /\ Pick(s) \in L
    <3> SUFFICES ASSUME NEW s \in D, s # {}
                 PROVE  s \ {Pick(s)} \in UpTo(L, n) /\ Pick(s) \in L
      OBVIOUS
    <3>1. IsFiniteSet(s) /\ s \subseteq L /\ Cardinality(s) <= n + 1 /\ Cardinality(s) \in Nat
      BY FS_Subset, FS_CardinalityType DEF UpTo
    <3>2. Pick(s) \in s
      BY PickIn
    <3>3. Cardinality(s \ {Pick(s)}) = Cardinality(s) - 1
      BY <3>1, <3>2, FS_RemoveElement
    <3> QED
      BY <3>1, <3>2, <3>3 DEF UpTo
  <2>3. \A s \in UpTo(L, n) : s \in D /\ next[s] = g[s]
    <3>1. UpTo(L, n) \subseteq D
      BY FS_Subset, FS_CardinalityType DEF UpTo
    <3> QED
      BY <2>1, <3>1 DEF SumsOn
  <2>4. next \in [D -> Nat]
    <3>1. \A s \in D : s # {} => F[Pick(s)] + g[s \ {Pick(s)}] \in Nat
      BY <2>1, <2>2 DEF SumsOn
    <3> QED
      BY <3>1
  <2>5. \A s \in D : next[s] = IF s = {} THEN 0 ELSE F[Pick(s)] + next[s \ {Pick(s)}]
    BY <2>2, <2>3
  <2>6. SumsOn(next, F, D)
    BY <2>4, <2>5 DEF SumsOn
  <2> QED
    BY <2>6
<1>3. Cardinality(L) \in Nat /\ UpTo(L, Cardinality(L)) = SUBSET L
  BY FS_Subset, FS_CardinalityType DEF UpTo
<1>4. Cardinality(L) \in N
  <2> HIDE DEF N
  <2> QED
    BY <1>1, <1>2, <1>3, NatInductionOnSets
<1>5. PICK G : SumsOn(G, F, SUBSET L)
  BY <1>3, <1>4
<1> QED
  BY <1>5 DEF SumsOn, Sums

(* What G sums over a set does not depend on the set it was made for.      *)
LEMMA SumUnique ==
  ASSUME NEW L, NEW M, IsFiniteSet(L), L \subseteq M,
         NEW E, NEW F, \A x \in L : E[x] = F[x],
         NEW G, NEW H, Sums(G, E, L), Sums(H, F, M)
  PROVE  \A s \in SUBSET L : G[s] = H[s]
<1> DEFINE T == {s \in SUBSET L : G[s] # H[s]}
<1> SUFFICES ASSUME T # {} PROVE FALSE
  OBVIOUS
<1>1. T \subseteq SUBSET L
  OBVIOUS
<1> HIDE DEF T
<1>2. PICK m \in T : \A s \in T : s \subseteq m => s = m
  BY <1>1, MinimalSubset
<1>3. m \in SUBSET L /\ m \in SUBSET M /\ G[m] # H[m]
  BY <1>2 DEF T
<1>4. m # {}
  BY <1>3 DEF Sums
<1>5. Pick(m) \in m
  BY <1>4, PickIn
<1>6. G[m \ {Pick(m)}] = H[m \ {Pick(m)}]
  BY <1>2, <1>3, <1>5 DEF T
<1>7. /\ G[m] = E[Pick(m)] + G[m \ {Pick(m)}]
      /\ H[m] = F[Pick(m)] + H[m \ {Pick(m)}]
  BY <1>3, <1>4 DEF Sums
<1> QED
  BY <1>3, <1>5, <1>6, <1>7

(* An element can be taken out, whichever is picked first.                 *)
LEMMA SumRemoves ==
  ASSUME NEW L, IsFiniteSet(L), NEW F, NEW G, SumsIn(G, F, L)
  PROVE  Additive(G, F, L)
<1> DEFINE T == {s \in SUBSET L : \E x \in s : G[s] # F[x] + G[s \ {x}]}
<1> SUFFICES ASSUME T # {} PROVE FALSE
  BY DEF Additive
<1>1. T \subseteq SUBSET L
  OBVIOUS
<1> HIDE DEF T
<1>2. PICK m \in T : \A s \in T : s \subseteq m => s = m
  BY <1>1, MinimalSubset
<1>3. m \in SUBSET L /\ \E x \in m : G[m] # F[x] + G[m \ {x}]
  BY <1>2 DEF T
<1>4. PICK x \in m : G[m] # F[x] + G[m \ {x}]
  BY <1>3
<1>5. PICK y \in m : G[m] = F[y] + G[m \ {y}]
  BY <1>3, PickIn DEF SumsIn, Sums
<1>6. x # y
  BY <1>4, <1>5
<1>7. \A s \in SUBSET m : s # m => \A z \in s : G[s] = F[z] + G[s \ {z}]
  BY <1>2, <1>3 DEF T
<1> DEFINE rest == (m \ {x}) \ {y}
<1>8. rest = (m \ {y}) \ {x}
  OBVIOUS
<1>9. G[m \ {y}] = F[x] + G[rest] /\ G[m \ {x}] = F[y] + G[rest]
  <2>1. /\ m \ {y} \in SUBSET m /\ m \ {y} # m /\ x \in m \ {y}
        /\ m \ {x} \in SUBSET m /\ m \ {x} # m /\ y \in m \ {x}
    BY <1>6
  <2>2. G[m \ {y}] = F[x] + G[(m \ {y}) \ {x}] /\ G[m \ {x}] = F[y] + G[(m \ {x}) \ {y}]
    BY <1>7, <2>1
  <2> QED
    BY <1>8, <2>2
<1>10. F[x] \in Nat /\ F[y] \in Nat /\ G[rest] \in Nat
  BY <1>3 DEF SumsIn
<1> HIDE DEF rest
<1> QED
  BY <1>4, <1>5, <1>9, <1>10
--------------------------------------------------------------------------------
(***************************************************************************)
(* One handler: the wallet is what its ledger says.                        *)
(***************************************************************************)
(* What MapThenSumSet computes is such a sum.                              *)
LEMMA AmountsSummed ==
  ASSUME NEW S, IsFiniteSet(S), \A x \in S : x.amount \in Nat
  PROVE  \E G \in [SUBSET S -> Nat] : Sums(G, [x \in S |-> x.amount], S) /\ Amounts(S) = G[S]
<1> DEFINE F == [x \in S |-> x.amount]
           it == CHOOSE g : g = [s \in SUBSET S |->
                                  IF s = {} THEN 0 ELSE Pick(s).amount + g[s \ {Pick(s)}]]
<1>1. PICK G \in [SUBSET S -> Nat] : Sums(G, F, S)
  <2>1. F \in [S -> Nat]
    OBVIOUS
  <2> HIDE DEF F
  <2> QED
    BY <2>1, SumExists
<1>2. ASSUME NEW g
      PROVE  Sums(g, F, S) <=>
               g = [s \in SUBSET S |-> IF s = {} THEN 0 ELSE Pick(s).amount + g[s \ {Pick(s)}]]
  <2>1. \A s \in SUBSET S : s # {} => F[Pick(s)] = Pick(s).amount
    BY PickIn
  <2> QED
    BY <2>1 DEF Sums
<1>3. Sums(it, F, S)
  BY <1>1, <1>2
<1>4. Amounts(S) = it[S]
  BY DEF Amounts, MapThenSumSet, MapThenFoldSet, Pick
<1>5. \A s \in SUBSET S : it[s] = G[s]
  <2> HIDE DEF it, F
  <2> QED
    BY <1>1, <1>3, SumUnique
<1> QED
  BY <1>1, <1>4, <1>5

LEMMA LossesSummed ==
  ASSUME NEW S, IsFiniteSet(S), \A x \in S : x.lost \in Nat
  PROVE  \E G \in [SUBSET S -> Nat] : Sums(G, [x \in S |-> x.lost], S) /\ Losses(S) = G[S]
<1> DEFINE F == [x \in S |-> x.lost]
           it == CHOOSE g : g = [s \in SUBSET S |->
                                  IF s = {} THEN 0 ELSE Pick(s).lost + g[s \ {Pick(s)}]]
<1>1. PICK G \in [SUBSET S -> Nat] : Sums(G, F, S)
  <2>1. F \in [S -> Nat]
    OBVIOUS
  <2> HIDE DEF F
  <2> QED
    BY <2>1, SumExists
<1>2. ASSUME NEW g
      PROVE  Sums(g, F, S) <=>
               g = [s \in SUBSET S |-> IF s = {} THEN 0 ELSE Pick(s).lost + g[s \ {Pick(s)}]]
  <2>1. \A s \in SUBSET S : s # {} => F[Pick(s)] = Pick(s).lost
    BY PickIn
  <2> QED
    BY <2>1 DEF Sums
<1>3. Sums(it, F, S)
  BY <1>1, <1>2
<1>4. Losses(S) = it[S]
  BY DEF Losses, MapThenSumSet, MapThenFoldSet, Pick
<1>5. \A s \in SUBSET S : it[s] = G[s]
  <2> HIDE DEF it, F
  <2> QED
    BY <1>1, <1>3, SumUnique
<1> QED
  BY <1>1, <1>4, <1>5

(* A sum of a set with one more member.                                    *)
LEMMA SumGrows ==
  ASSUME NEW M, IsFiniteSet(M), NEW x \in M, NEW S, S = M \ {x},
         NEW E, NEW F, \A y \in S : E[y] = F[y],
         NEW G, Sums(G, E, S), NEW H, SumsIn(H, F, M)
  PROVE  H[M] = F[x] + G[S]
<1>1. IsFiniteSet(S) /\ S \subseteq M /\ M \in SUBSET M
  BY FS_Subset
<1>2. H[M] = F[x] + H[M \ {x}]
  <2>1. Additive(H, F, M)
    BY SumRemoves
  <2> QED
    BY <1>1, <2>1 DEF Additive
<1>3. G[S] = H[S]
  <2>1. \A s \in SUBSET S : G[s] = H[s]
    BY <1>1, SumUnique DEF SumsIn
  <2> QED
    BY <2>1
<1> QED
  BY <1>2, <1>3

LEMMA AmountsGrow ==
  ASSUME NEW S, IsFiniteSet(S), NEW x, x \notin S, \A y \in S \cup {x} : y.amount \in Nat
  PROVE  Amounts(S) \in Nat /\ Amounts(S \cup {x}) = Amounts(S) + x.amount
<1>1. PICK G \in [SUBSET S -> Nat] : Sums(G, [y \in S |-> y.amount], S) /\ Amounts(S) = G[S]
  BY AmountsSummed
<1>2. PICK H \in [SUBSET (S \cup {x}) -> Nat] :
        /\ Sums(H, [y \in S \cup {x} |-> y.amount], S \cup {x})
        /\ Amounts(S \cup {x}) = H[S \cup {x}]
  BY FS_AddElement, AmountsSummed
<1> DEFINE E == [y \in S |-> y.amount]
           F == [y \in S \cup {x} |-> y.amount]
<1>3. /\ E \in [S -> Nat] /\ F \in [S \cup {x} -> Nat] /\ \A y \in S : E[y] = F[y]
      /\ F[x] = x.amount /\ Sums(G, E, S) /\ Sums(H, F, S \cup {x})
  BY <1>1, <1>2
<1> DEFINE M == S \cup {x}
<1>4. IsFiniteSet(M) /\ x \in M /\ S = M \ {x}
  BY FS_AddElement
<1>5. SumsIn(H, F, M)
  BY <1>3 DEF SumsIn
<1> HIDE DEF E, F, M
<1>6. H[M] = x.amount + G[S]
  BY <1>3, <1>4, <1>5, SumGrows
<1>7. G[S] \in Nat /\ x.amount \in Nat
  OBVIOUS
<1> QED
  BY <1>1, <1>2, <1>6, <1>7 DEF M

LEMMA LossesGrow ==
  ASSUME NEW S, IsFiniteSet(S), NEW x, x \notin S, \A y \in S \cup {x} : y.lost \in Nat
  PROVE  Losses(S) \in Nat /\ Losses(S \cup {x}) = Losses(S) + x.lost
<1>1. PICK G \in [SUBSET S -> Nat] : Sums(G, [y \in S |-> y.lost], S) /\ Losses(S) = G[S]
  BY LossesSummed
<1>2. PICK H \in [SUBSET (S \cup {x}) -> Nat] :
        /\ Sums(H, [y \in S \cup {x} |-> y.lost], S \cup {x})
        /\ Losses(S \cup {x}) = H[S \cup {x}]
  BY FS_AddElement, LossesSummed
<1> DEFINE E == [y \in S |-> y.lost]
           F == [y \in S \cup {x} |-> y.lost]
<1>3. /\ E \in [S -> Nat] /\ F \in [S \cup {x} -> Nat] /\ \A y \in S : E[y] = F[y]
      /\ F[x] = x.lost /\ Sums(G, E, S) /\ Sums(H, F, S \cup {x})
  BY <1>1, <1>2
<1> DEFINE M == S \cup {x}
<1>4. IsFiniteSet(M) /\ x \in M /\ S = M \ {x}
  BY FS_AddElement
<1>5. SumsIn(H, F, M)
  BY <1>3 DEF SumsIn
<1> HIDE DEF E, F, M
<1>6. H[M] = x.lost + G[S]
  BY <1>3, <1>4, <1>5, SumGrows
<1>7. G[S] \in Nat /\ x.lost \in Nat
  OBVIOUS
<1> QED
  BY <1>1, <1>2, <1>6, <1>7 DEF M

(* The books agree, and they are finite.                                   *)
Audited == IsFiniteSet(ledger) /\ WalletMatchesLedger

LEMMA NothingSummed ==
  Amounts({}) = 0 /\ Losses({}) = 0
<1>1. \A F : \A G \in [SUBSET {} -> Nat] : Sums(G, F, {}) => G[{}] = 0
  BY DEF Sums
<1> QED
  BY <1>1, FS_EmptySet, AmountsSummed, LossesSummed

LEMMA InitAudited == Init => Audited
<1> SUFFICES ASSUME Init PROVE Audited
  OBVIOUS
<1>1. IsFiniteSet(ledger) /\ \A u, K : Booked(u, K) = {}
  BY FS_EmptySet DEF Init, Booked
<1>2. \A u \in Users : /\ wallet[u].credited = 0 /\ wallet[u].debited = 0
                       /\ wallet[u].quarantined = 0 /\ ~wallet[u].held /\ spent[u] = 0
  BY DEF Init, NoWallet
<1>3. \A u, K : Amounts(Booked(u, K)) = 0 /\ Losses(Booked(u, K)) = 0
  BY <1>1, NothingSummed
<1>4. WalletMatchesLedger
  <2>1. SUFFICES ASSUME NEW u \in Users
                 PROVE  /\ wallet[u].credited = Amounts(Booked(u, {"credit"}))
                        /\ wallet[u].debited = Amounts(Booked(u, Terminal)) + spent[u]
                        /\ wallet[u].quarantined = Losses(Booked(u, Terminal))
                        /\ wallet[u].held <=> Losses(Booked(u, Terminal)) > 0
    BY DEF WalletMatchesLedger
  <2>2. /\ Amounts(Booked(u, {"credit"})) = 0 /\ Amounts(Booked(u, Terminal)) = 0
        /\ Losses(Booked(u, Terminal)) = 0
    BY <1>3
  <2> QED
    BY <1>2, <2>2
<1> QED
  BY <1>1, <1>4 DEF Audited

(* An entry that is new counts for its user and its source, and once.      *)
LEMMA EntryBooked ==
  ASSUME Base, IsFiniteSet(ledger), NEW row \in LedgerRows, row \notin ledger,
         ledger' = ledger \cup {row}, NEW u, NEW K
  PROVE  LET counts == row.source \in K /\ Owner[LinkOf[row.pay]] = u
         IN /\ Amounts(Booked(u, K)) \in Nat /\ Losses(Booked(u, K)) \in Nat
            /\ Amounts(Booked(u, K)') = Amounts(Booked(u, K)) + IF counts THEN row.amount ELSE 0
            /\ Losses(Booked(u, K)') = Losses(Booked(u, K)) + IF counts THEN row.lost ELSE 0
<1> DEFINE counts == row.source \in K /\ Owner[LinkOf[row.pay]] = u
           S == Booked(u, K)
<1>1. Booked(u, K)' = IF counts THEN S \cup {row} ELSE S
  BY DEF Booked
<1>2. S \subseteq ledger /\ row \notin S /\ IsFiniteSet(S)
  BY FS_Subset DEF Booked
<1>3. \A y \in S \cup {row} : y.amount \in Nat /\ y.lost \in Nat
  BY <1>2 DEF Base, TypeOK, LedgerRows
<1> HIDE DEF S
<1>4. /\ Amounts(S) \in Nat /\ Amounts(S \cup {row}) = Amounts(S) + row.amount
      /\ Losses(S) \in Nat /\ Losses(S \cup {row}) = Losses(S) + row.lost
  BY <1>2, <1>3, AmountsGrow, LossesGrow
<1> QED
  BY <1>1, <1>4 DEF S

(* The sums of the entries of a user are numbers.                          *)
LEMMA BookedTyped ==
  ASSUME Base, IsFiniteSet(ledger), NEW u, NEW K
  PROVE  Amounts(Booked(u, K)) \in Nat /\ Losses(Booked(u, K)) \in Nat
<1> DEFINE S == Booked(u, K)
<1>1. IsFiniteSet(S) /\ \A x \in S : x.amount \in Nat /\ x.lost \in Nat
  BY FS_Subset DEF Booked, Base, TypeOK, LedgerRows
<1> HIDE DEF S
<1>2. Amounts(S) \in Nat
  <2>1. PICK G \in [SUBSET S -> Nat] : Amounts(S) = G[S]
    BY <1>1, AmountsSummed
  <2> QED
    BY <2>1
<1>3. Losses(S) \in Nat
  <2>1. PICK G \in [SUBSET S -> Nat] : Losses(S) = G[S]
    BY <1>1, LossesSummed
  <2> QED
    BY <2>1
<1> QED
  BY <1>2, <1>3 DEF S

(* A step that leaves the wallets, the ledger and the spending alone.      *)
LEMMA AuditUntouched ==
  ASSUME Audited, UNCHANGED <<wallet, ledger, spent>>
  PROVE  Audited'
<1>1. \A u, K : Booked(u, K)' = Booked(u, K)
  BY DEF Booked
<1> QED
  BY <1>1 DEF Audited, WalletMatchesLedger

(* What the wallet of a user owes to the ledger.                           *)
Agrees(w, spend, granted, taken, short) ==
  /\ w.credited = granted
  /\ w.debited = taken + spend
  /\ w.quarantined = short
  /\ w.held <=> short > 0

LEMMA AgreesEach ==
  WalletMatchesLedger <=>
    \A u \in Users : Agrees(wallet[u], spent[u], Amounts(Booked(u, {"credit"})),
                            Amounts(Booked(u, Terminal)), Losses(Booked(u, Terminal)))
BY DEF WalletMatchesLedger, Agrees

LEMMA AgreesEachNext ==
  WalletMatchesLedger' <=>
    \A u \in Users : Agrees(wallet'[u], spent'[u], Amounts(Booked(u, {"credit"})'),
                            Amounts(Booked(u, Terminal)'), Losses(Booked(u, Terminal)'))
BY DEF WalletMatchesLedger, Agrees

LEMMA SpendAudited ==
  ASSUME Base, Audited, NEW u \in Users, Spend(u)
  PROVE  Audited'
<1>1. \A v, K : Booked(v, K)' = Booked(v, K)
  BY DEF Spend, Booked
<1>2. /\ wallet[u].debited \in Nat /\ spent[u] \in Nat
      /\ wallet'[u].credited = wallet[u].credited
      /\ wallet'[u].debited = wallet[u].debited + 1
      /\ wallet'[u].quarantined = wallet[u].quarantined
      /\ wallet'[u].held = wallet[u].held
      /\ spent'[u] = spent[u] + 1
  BY DEF Base, TypeOK, Spend, WalletRows
<1>3. \A v \in Users \ {u} : wallet'[v] = wallet[v] /\ spent'[v] = spent[v]
  BY DEF Base, TypeOK, Spend
<1>4. IsFiniteSet(ledger')
  BY DEF Audited, Spend
<1>5. ASSUME NEW v \in Users
      PROVE  Agrees(wallet'[v], spent'[v], Amounts(Booked(v, {"credit"})),
                    Amounts(Booked(v, Terminal)), Losses(Booked(v, Terminal)))
  <2> DEFINE granted == Amounts(Booked(v, {"credit"}))
             taken == Amounts(Booked(v, Terminal))
             short == Losses(Booked(v, Terminal))
  <2>1. Agrees(wallet[v], spent[v], granted, taken, short)
    BY AgreesEach DEF Audited
  <2>2. taken \in Nat
    BY BookedTyped DEF Audited
  <2> HIDE DEF granted, taken, short
  <2>3. v = u => Agrees(wallet'[v], spent'[v], granted, taken, short)
    BY <1>2, <2>1, <2>2 DEF Agrees
  <2>4. v # u => Agrees(wallet'[v], spent'[v], granted, taken, short)
    BY <1>3, <2>1
  <2> QED
    BY <2>3, <2>4 DEF granted, taken, short
<1> QED
  BY <1>1, <1>4, <1>5, AgreesEachNext DEF Audited

(* A new entry of a credit or of a reversal, and what it asks of the       *)
(* wallet of its user.                                                     *)
LEMMA EntryAudited ==
  ASSUME Base, Audited, NEW row \in LedgerRows, row \notin ledger, ledger' = ledger \cup {row},
         UNCHANGED spent, NEW u \in Users, Owner[LinkOf[row.pay]] = u,
         \A v \in Users \ {u} : wallet'[v] = wallet[v],
         row.source = "credit" => /\ wallet'[u].credited = wallet[u].credited + row.amount
                                  /\ wallet'[u].debited = wallet[u].debited
                                  /\ wallet'[u].quarantined = wallet[u].quarantined
                                  /\ wallet'[u].held = wallet[u].held,
         row.source \in Terminal => /\ wallet'[u].credited = wallet[u].credited
                                    /\ wallet'[u].debited = wallet[u].debited + row.amount
                                    /\ wallet'[u].quarantined = wallet[u].quarantined + row.lost
                                    /\ wallet'[u].held <=> (wallet[u].held \/ row.lost > 0)
  PROVE  Audited'
<1>1. IsFiniteSet(ledger')
  BY FS_AddElement DEF Audited
<1>2. row.source \in {"credit"} \cup Terminal /\ row.amount \in Nat /\ row.lost \in Nat
  BY DEF LedgerRows
<1>3. "credit" \notin Terminal
  BY DEF Terminal
<1>4. ASSUME NEW v \in Users
      PROVE  Agrees(wallet'[v], spent'[v], Amounts(Booked(v, {"credit"})'),
                    Amounts(Booked(v, Terminal)'), Losses(Booked(v, Terminal)'))
  <2> DEFINE granted == Amounts(Booked(v, {"credit"}))
             taken == Amounts(Booked(v, Terminal))
             short == Losses(Booked(v, Terminal))
  <2>1. Agrees(wallet[v], spent[v], granted, taken, short) /\ spent[v] \in Nat
    BY AgreesEach DEF Audited, Base, TypeOK
  <2>2. granted \in Nat /\ taken \in Nat /\ short \in Nat
    BY BookedTyped DEF Audited
  <2>3. /\ Amounts(Booked(v, {"credit"})') = granted + IF row.source = "credit" /\ u = v THEN row.amount ELSE 0
        /\ Amounts(Booked(v, Terminal)') = taken + IF row.source \in Terminal /\ u = v THEN row.amount ELSE 0
        /\ Losses(Booked(v, Terminal)') = short + IF row.source \in Terminal /\ u = v THEN row.lost ELSE 0
    <3>1. IsFiniteSet(ledger)
      BY DEF Audited
    <3> QED
      BY <3>1, EntryBooked
  <2> DEFINE granted1 == Amounts(Booked(v, {"credit"})')
             taken1 == Amounts(Booked(v, Terminal)')
             short1 == Losses(Booked(v, Terminal)')
  <2>4. /\ granted1 = granted + IF row.source = "credit" /\ u = v THEN row.amount ELSE 0
        /\ taken1 = taken + IF row.source \in Terminal /\ u = v THEN row.amount ELSE 0
        /\ short1 = short + IF row.source \in Terminal /\ u = v THEN row.lost ELSE 0
    BY <2>3
  <2> HIDE DEF granted, taken, short, granted1, taken1, short1
  <2>5. ASSUME v # u
        PROVE  Agrees(wallet'[v], spent'[v], granted1, taken1, short1)
    <3>1. granted1 = granted /\ taken1 = taken /\ short1 = short
      BY <2>2, <2>4, <2>5
    <3> QED
      BY <2>1, <2>5, <3>1
  <2>6. ASSUME v = u, row.source = "credit"
        PROVE  Agrees(wallet'[v], spent'[v], granted1, taken1, short1)
    <3>1. granted1 = granted + row.amount /\ taken1 = taken /\ short1 = short
      BY <1>2, <1>3, <2>2, <2>4, <2>6
    <3> QED
      BY <2>1, <2>6, <3>1 DEF Agrees
  <2>7. ASSUME v = u, row.source \in Terminal
        PROVE  Agrees(wallet'[v], spent'[v], granted1, taken1, short1)
    <3>1. granted1 = granted /\ taken1 = taken + row.amount /\ short1 = short + row.lost
      BY <1>2, <1>3, <2>2, <2>4, <2>7
    <3>2. /\ wallet'[u].credited = granted
          /\ wallet'[u].debited = (taken + spent[u]) + row.amount
          /\ wallet'[u].quarantined = short + row.lost
          /\ wallet'[u].held <=> (short > 0 \/ row.lost > 0)
      BY <2>1, <2>7 DEF Agrees
    <3>3. /\ (taken + spent[u]) + row.amount = taken1 + spent[u]
          /\ short1 > 0 <=> (short > 0 \/ row.lost > 0)
      BY <1>2, <2>1, <2>2, <2>7, <3>1
    <3> QED
      BY <2>7, <3>1, <3>2, <3>3 DEF Agrees
  <2> QED
    BY <1>2, <2>5, <2>6, <2>7 DEF granted1, taken1, short1
<1> QED
  BY <1>1, <1>4, AgreesEachNext DEF Audited

LEMMA CommitConfirmAudited ==
  ASSUME OneHandler, NEW h \in Handlers, One, Audited, CommitConfirm(h)
  PROVE  Audited'
<1> DEFINE u == userOf(h)
           amount == Credit[checkoutOf(h)]
           row == CreditRow(payOf(h))
<1>1. /\ u \in Users /\ Owner[checkoutOf(h)] = u
      /\ sawWallet[h] = wallet[u] /\ wallet \in [Users -> WalletRows]
      /\ UNCHANGED spent
  BY CommitFacts DEF CommitConfirm, Commits, One, Base, TypeOK
<1>2. /\ ~InLedger(payOf(h), "credit") /\ row \in LedgerRows
      /\ ledger' = IF amount = 0 THEN ledger ELSE ledger \cup {row}
  BY Granted DEF CommitConfirm
<1>3. row.pay = payOf(h) /\ row.source = "credit" /\ row.amount = amount /\ row \notin ledger
  BY <1>2 DEF CreditRow, checkoutOf, InLedger
<1>4. CASE amount = 0
  <2>1. wallet' = [wallet EXCEPT ![u].made = TRUE]
    BY <1>4 DEF CommitConfirm, CreditWallet
  <2>2. \A v \in Users : /\ wallet'[v].credited = wallet[v].credited
                         /\ wallet'[v].debited = wallet[v].debited
                         /\ wallet'[v].quarantined = wallet[v].quarantined
                         /\ wallet'[v].held = wallet[v].held
    BY <1>1, <2>1 DEF WalletRows
  <2>3. \A v, K : Booked(v, K)' = Booked(v, K)
    BY <1>2, <1>4 DEF Booked
  <2>4. \A v \in Users : Agrees(wallet'[v], spent'[v], Amounts(Booked(v, {"credit"})),
                                Amounts(Booked(v, Terminal)), Losses(Booked(v, Terminal)))
    BY <1>1, <2>2, AgreesEach DEF Agrees, Audited
  <2> QED
    BY <1>2, <1>4, <2>3, <2>4, AgreesEachNext DEF Audited
<1>5. CASE amount # 0
  <2>1. wallet' = [wallet EXCEPT ![u].made = TRUE,
                                 ![u].balance = sawWallet[h].balance + amount,
                                 ![u].credited = sawWallet[h].credited + amount]
    BY <1>2, <1>5 DEF CommitConfirm, CreditWallet
  <2>2. /\ \A v \in Users \ {u} : wallet'[v] = wallet[v]
        /\ wallet'[u].credited = wallet[u].credited + amount
        /\ wallet'[u].debited = wallet[u].debited
        /\ wallet'[u].quarantined = wallet[u].quarantined
        /\ wallet'[u].held = wallet[u].held
    BY <1>1, <2>1 DEF WalletRows
  <2>3. Owner[LinkOf[row.pay]] = u /\ row.source \notin Terminal /\ ledger' = ledger \cup {row}
    BY <1>1, <1>2, <1>3, <1>5 DEF checkoutOf, Terminal
  <2> HIDE DEF u, row, amount
  <2> QED
    BY <1>1, <1>2, <1>3, <2>2, <2>3, EntryAudited DEF One
<1> QED
  BY <1>4, <1>5

LEMMA CommitReversalAudited ==
  ASSUME OneHandler, NEW h \in Handlers, One, Audited, CommitReversal(h)
  PROVE  Audited'
<1> DEFINE u == userOf(h)
<1>1. /\ u \in Users /\ Owner[checkoutOf(h)] = u
      /\ sawWallet[h] = wallet[u] /\ wallet \in [Users -> WalletRows]
      /\ UNCHANGED spent
  BY CommitFacts DEF CommitReversal, Commits, One, Base, TypeOK
<1>2. CASE UNCHANGED <<wallet, ledger>>
  BY <1>1, <1>2, AuditUntouched
<1>3. ASSUME NEW taken \in Nat, NEW lost \in Nat, taken <= sawWallet[h].balance,
             TakeBack(h, taken, lost), ReversalRow(h, taken, lost) \in LedgerRows,
             ledger' = ledger \cup {ReversalRow(h, taken, lost)}
      PROVE  Audited'
  <2> DEFINE row == ReversalRow(h, taken, lost)
  <2>1. /\ row.pay = payOf(h) /\ row.source = target(h) /\ row.amount = taken /\ row.lost = lost
        /\ row \in LedgerRows /\ ledger' = ledger \cup {row}
    BY <1>3 DEF ReversalRow
  <2>2. row.source \in Terminal /\ row.source # "credit"
    BY <2>1, TargetTyped DEF CommitReversal, Commits, One, Terminal
  <2>3. row \notin ledger
    <3>1. ReversalsOf(checkoutOf(h)) = {}
      BY Taken DEF CommitReversal
    <3> QED
      BY <2>1, <2>2, <3>1 DEF ReversalsOf, checkoutOf
  <2>4. Owner[LinkOf[row.pay]] = u
    BY <1>1, <2>1 DEF checkoutOf
  <2>5. /\ \A v \in Users \ {u} : wallet'[v] = wallet[v]
        /\ wallet'[u].credited = wallet[u].credited
        /\ wallet'[u].debited = wallet[u].debited + taken
        /\ wallet'[u].quarantined = wallet[u].quarantined + lost
        /\ wallet'[u].held = (wallet[u].held \/ lost > 0)
    BY <1>1, <1>3 DEF TakeBack, Column, WalletRows
  <2> HIDE DEF u, row
  <2> QED
    BY <1>1, <2>1, <2>2, <2>3, <2>4, <2>5, EntryAudited DEF One
<1> QED
  BY <1>2, <1>3, Taken DEF CommitReversal

LEMMA NextAudited ==
  ASSUME OneHandler, One, Audited, [Next]_vars
  PROVE  Audited'
<1>1. ASSUME NEW p \in Payments, NEW t \in EventTypes, Emit(p, t)
      PROVE  Audited'
  BY <1>1, AuditUntouched DEF Emit, dbVars
<1>2. ASSUME NEW e \in sent, Deliver(e)
      PROVE  Audited'
  BY <1>2, AuditUntouched DEF Deliver, Ignore, Receive, dbVars
<1>3. ASSUME NEW h \in Handlers, LockCheckout(h) \/ FlushEntitlement(h) \/ Abort(h) \/ CommitLapse(h)
      PROVE  Audited'
  BY <1>3, AuditUntouched DEF LockCheckout, FlushEntitlement, Abort, CommitLapse, Commits, dbVars
<1>4. ASSUME NEW h \in Handlers, CommitConfirm(h) \/ CommitReversal(h)
      PROVE  Audited'
  BY <1>4, CommitConfirmAudited, CommitReversalAudited
<1>5. ASSUME NEW u \in Users, Spend(u)
      PROVE  Audited'
  BY <1>5, SpendAudited DEF One
<1>6. CASE UNCHANGED vars
  BY <1>6, AuditUntouched DEF vars, dbVars
<1> QED
  BY <1>1, <1>2, <1>3, <1>4, <1>5, <1>6 DEF Next, Commit

(* With one server process every wallet is what its ledger says, however   *)
(* many entries there are: no credit and no reversal is lost or applied    *)
(* twice, and a wallet is held just when a reversal fell short.            *)
THEOREM WalletIsLedger == ASSUME OneHandler PROVE Spec => []WalletMatchesLedger
<1>1. Init => One /\ Audited
  BY InitOne, InitAudited
<1>2. One /\ Audited /\ [Next]_vars => (One /\ Audited)'
  BY NextOne, NextAudited
<1>3. Audited => WalletMatchesLedger
  BY DEF Audited
<1> QED
  BY <1>1, <1>2, <1>3, PTL DEF Spec
================================================================================
