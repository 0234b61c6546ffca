-------------------------- MODULE MCBillingWebhookRace -------------------------
(***************************************************************************)
(* BillingWebhook on two server processes: one user, two plans with        *)
(* included credit, one payment each, so that the handlers meet on the     *)
(* checkout, on the entitlement and on the wallet.                         *)
(***************************************************************************)
EXTENDS BillingWebhook

CONSTANTS h1, h2, u1, c1, c2, p1, p2

MCOwner == [c \in Checkouts |-> u1]
MCKind == [c \in Checkouts |-> "plan"]
MCCredit == [c \in Checkouts |-> 1]
MCLinkOf == [p \in Payments |-> IF p = p1 THEN c1 ELSE c2]
================================================================================
