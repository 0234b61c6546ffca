--------------------------- MODULE MCBillingCheckout ---------------------------
(* Three clients, two of which send the same idempotency key.              *)
EXTENDS BillingCheckout, TLC

CONSTANTS r1, r2, r3, k1, k2

MCKeyOf == r1 :> k1 @@ r2 :> k1 @@ r3 :> k2

================================================================================
