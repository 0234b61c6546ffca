---------------------------- MODULE CheckoutPromise ----------------------------
(***************************************************************************)
(* What create_checkout promises its caller about one idempotency key,     *)
(* with the database, the network and the retries taken away.  A key is    *)
(* claimed once; the provider issues at most one payment link for it; the  *)
(* key ends bound to that link, or failed with no link and none to come.   *)
(***************************************************************************)
CONSTANT Keys

VARIABLES
  phase,    \* phase[k]: where the key stands in the caller's eyes
  issued    \* issued[k]: the provider holds a payable link for the key

promiseVars == <<phase, issued>>

PromiseInit ==
  /\ phase = [k \in Keys |-> "none"]
  /\ issued = [k \in Keys |-> FALSE]

Move(k, from, to) ==
  /\ phase[k] = from
  /\ phase' = [phase EXCEPT ![k] = to]
  /\ UNCHANGED issued

Claim(k) == Move(k, "none", "claimed")

Issue(k) ==
  /\ phase[k] = "claimed"
  /\ ~issued[k]
  /\ issued' = [issued EXCEPT ![k] = TRUE]
  /\ UNCHANGED phase

Bind(k) == issued[k] /\ Move(k, "claimed", "bound")

Fail(k) == ~issued[k] /\ Move(k, "claimed", "failed")

PromiseNext == \E k \in Keys : Claim(k) \/ Issue(k) \/ Bind(k) \/ Fail(k)

PromiseSpec == PromiseInit /\ [][PromiseNext]_promiseVars
================================================================================
