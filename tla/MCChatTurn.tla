----------------------------- MODULE MCChatTurn -----------------------------
(* Either three audit directives on two processes, one of them a stream,   *)
(* with a limit of one invocation; or an audit directive, a plain stream   *)
(* and a team turn with two contributors.  A request that never comes is   *)
(* gone from the start.                                                    *)
EXTENDS ChatTurn, TLC

CONSTANTS j1, j2, s1, s2, t1, p1, p2

MCServer == j1 :> p1 @@ s1 :> p1 @@ j2 :> p2 @@ s2 :> p1 @@ t1 :> p2

MCInit ==
  /\ LedgerInit
  /\ \E coming \in {{j1, j2, s1}, {j2, s2, t1}} :
       pc = [r \in Requests |-> IF r \in coming THEN "idle" ELSE "gone"]
  /\ said = {} /\ answers = {} /\ ran = {} /\ unsure = {} /\ artifacts = {}
  /\ verdict = [r \in Requests |-> "none"]
  /\ left = [r \in Requests |-> Members]
  /\ trail = [r \in Requests |-> {}]
  /\ told = [r \in Requests |-> "none"]
  /\ faults = 0

MCSpec == MCInit /\ [][Next]_vars /\ Fairness
=============================================================================
