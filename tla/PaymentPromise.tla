----------------------------- MODULE PaymentPromise ----------------------------
(***************************************************************************)
(* What the webhooks of the payment provider promise for each checkout: it *)
(* is paid at most once, its credit is granted with the payment and taken  *)
(* back with the reversal, and nothing follows a reversal.                 *)
(***************************************************************************)
CONSTANTS
  Checkouts,
  Credited     \* the checkouts whose item includes credit

VARIABLES
  outcome,     \* "open", "closed", "paid" or "reversed"
  money        \* "none", "granted" or "taken"

promised == <<outcome, money>>

PromiseInit ==
  /\ outcome = [c \in Checkouts |-> "open"]
  /\ money = [c \in Checkouts |-> "none"]

Pay(c) ==
  /\ outcome[c] = "open"
  /\ outcome' = [outcome EXCEPT ![c] = "paid"]
  /\ money' = [money EXCEPT ![c] = IF c \in Credited THEN "granted" ELSE "none"]

Close(c) ==
  /\ outcome[c] = "open"
  /\ outcome' = [outcome EXCEPT ![c] = "closed"]
  /\ UNCHANGED money

Reverse(c) ==
  /\ outcome[c] # "reversed"
  /\ outcome' = [outcome EXCEPT ![c] = "reversed"]
  /\ money' = [money EXCEPT ![c] = IF @ = "granted" THEN "taken" ELSE @]

PromiseNext == \E c \in Checkouts : Pay(c) \/ Close(c) \/ Reverse(c)

PromiseSpec == PromiseInit /\ [][PromiseNext]_promised
================================================================================
