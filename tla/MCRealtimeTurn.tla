----------------------------- MODULE MCRealtimeTurn -----------------------------
(***************************************************************************)
(* RealtimeTurn on two turns: one that a single process is sent to both    *)
(* endpoints, twice to the final one, and one of a team that two processes *)
(* are sent at the same time.                                              *)
(***************************************************************************)
EXTENDS RealtimeTurn, TLC

CONSTANTS r1, r2, r3, r4, r5, t1, t2, s1, s2, m1, m2

MCTurnOf == [r \in Requests |-> IF r \in {r4, r5} THEN t2 ELSE t1]

MCEndpoint == [r \in Requests |-> IF r = r1 THEN "stream" ELSE IF r \in {r4, r5} THEN "team" ELSE "direct"]

MCProcessOf == [r \in Requests |-> IF r = r5 THEN s2 ELSE s1]
================================================================================
