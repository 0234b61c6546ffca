---------------------------- MODULE MCNativeAuth ----------------------------
(* Two accounts, two grants, two handlers at a time; the pools of tokens   *)
(* and sessions let two resets, or a reset and a login, overlap.           *)
EXTENDS NativeAuth, TLC

Symmetry ==
  Permutations(Accounts) \cup Permutations(Grants) \cup Permutations(Requests)
    \cup Permutations(Tokens) \cup Permutations(Sessions)
=============================================================================
