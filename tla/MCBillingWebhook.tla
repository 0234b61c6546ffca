--------------------------- MODULE MCBillingWebhook ----------------------------
(***************************************************************************)
(* BillingWebhook in one server process, as deployed.  u1 has a plan and a *)
(* top-up, so the two meet in the wallet; u2 has two plans, so they meet   *)
(* in the entitlement.                                                     *)
(***************************************************************************)
EXTENDS BillingWebhook, TLC

CONSTANTS h1, u1, u2, c1, c2, c3, c4, p1, p2, p3, p4

MCOwner == c1 :> u1 @@ c2 :> u1 @@ c3 :> u2 @@ c4 :> u2
MCKind == c1 :> "plan" @@ c2 :> "topup" @@ c3 :> "plan" @@ c4 :> "plan"
MCCredit == c1 :> 1 @@ c2 :> 2 @@ c3 :> 0 @@ c4 :> 1
MCLinkOf == p1 :> c1 @@ p2 :> c2 @@ p3 :> c3 @@ p4 :> c4
================================================================================
