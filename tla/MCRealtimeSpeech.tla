--------------------------- MODULE MCRealtimeSpeech ---------------------------
(***************************************************************************)
(* Realtime turns and their speech.  Each initial state is one scenario:   *)
(*   - the turns t1 and t2 of MCRealtimeTurn, in an open session;          *)
(*   - t3, whose transcript is streamed by two processes at the same time  *)
(*     under a limit of one segment a minute, in a session that is opened. *)
(***************************************************************************)
EXTENDS RealtimeSpeech, TLC

CONSTANTS r1, r2, r3, r4, r5, r6, r7, t1, t2, t3, s1, s2, m1, m2, o1, o2

MCTurnOf ==
  [r \in Requests |-> IF r \in {r4, r5} THEN t2 ELSE IF r \in {r6, r7} THEN t3 ELSE t1]

MCEndpoint ==
  [r \in Requests |->
     IF r \in {r1, r6, r7} THEN "stream" ELSE IF r \in {r4, r5} THEN "team" ELSE "direct"]

MCProcessOf == [r \in Requests |-> IF r \in {r5, r7} THEN s2 ELSE s1]

MCSessionOf == [t \in Turns |-> IF t = t3 THEN o2 ELSE o1]

(* A session that is not part of the scenario has failed.                  *)
MCInit ==
  /\ Init /\ SegmentsInit
  /\ session \in {o1 :> "created" @@ o2 :> "failed", o1 :> "failed" @@ o2 :> "none"}

MCSpec == MCInit /\ [][SpeechNext]_allVars /\ SpeechFairness
===============================================================================
