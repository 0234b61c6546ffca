----------------------------- MODULE MCThreadFiles -----------------------------
(***************************************************************************)
(* The files of a thread: what is pasted, uploaded and generated           *)
(* (DocumentIntake), what a prompt is given of it (DocumentContext), and   *)
(* the audio of its messages (SpeechPlayback) under the voices in force    *)
(* (AgentVoice).  Each initial state is one scenario; a request that never *)
(* comes is gone from the start.                                           *)
(*   - three equal pastes;                                                 *)
(*   - two equal uploads and an artifact;                                  *)
(*   - two equal pastes, an upload and a prompt of their thread, one fault;*)
(*   - an upload, a PDF of too many pages and such a prompt;               *)
(*   - three playbacks, two of them with one Idempotency-Key;              *)
(*   - two playbacks with one key and one administrator's request;         *)
(*   - MaxJobs administrators' requests, two at a time, on the drafts d1   *)
(*     and d2 of one agent and d3 of another, d2 and d3 with one voice.    *)
(***************************************************************************)
EXTENDS DocumentContext, SpeechPlayback, TLC

CONSTANTS p1, p2, p3, u1, u2, u3, a1, k1, k2, k3, k4,
          y1, y2, y3, x1, d1, d2, d3, b1, b2, v1, v2, c1, c2

MCKeyOf == p1 :> k1 @@ p2 :> k1 @@ p3 :> k1 @@ u1 :> k2 @@ u2 :> k2 @@ u3 :> k4 @@ a1 :> k3

(* A paste is longer than PerFile; k2 fits the budgets, and so does what   *)
(* is read of the pages of k4, also both together.                         *)
MCChars == k1 :> 4 @@ k2 :> 2 @@ k3 :> 1 @@ k4 :> 3

MCExtracted == [MCChars EXCEPT ![k4] = 2]

MCPlayKey == y1 :> x1 @@ y2 :> x1 @@ y3 :> Keyless

MCAgentOf == d1 :> b1 @@ d2 :> b1 @@ d3 :> b2

MCVoiceOf == d1 :> v1 @@ d2 :> v2 @@ d3 :> v2

Row(state, verdict) == [state |-> state, verdict |-> verdict, active |-> TRUE]

(* The requests that come, whether a prompt is built, the voice assignment *)
(* that there is and the admin requests used.                              *)
Scenario(coming, prompt, row, used) ==
  /\ rows = {} /\ blobs = {} /\ companions = {}
  /\ pc = [r \in Requests |-> IF r \in coming THEN "idle" ELSE "gone"]
  /\ made = [r \in Requests |-> {}]
  /\ looked = {} /\ rejected = {} /\ unsure = {} /\ crossed = {}
  /\ faults = IF prompt THEN MaxFaults - 1 ELSE 0
  /\ ContextInit
  /\ step = IF prompt THEN "list" ELSE "none"
  /\ prompt \/ backend = "local"
  /\ FilesInit
  /\ play = [r \in Plays |-> IF r \in coming THEN "idle" ELSE "gone"]
  /\ assignment = [u \in Drafts |-> IF u = d1 THEN row ELSE NoRow]
  /\ job = [c \in Clerks |-> NoJob]
  /\ jobs = used

MCInit ==
  \/ Scenario(Pastes, FALSE, NoRow, MaxJobs)
  \/ Scenario({u1, u2} \cup Renders, FALSE, NoRow, MaxJobs)
  \/ Scenario({p1, p2, u1}, TRUE, NoRow, MaxJobs)
  \/ Scenario({u1, u3}, TRUE, NoRow, MaxJobs)
  \/ Scenario(Plays, FALSE, Row("ACTIVE", "VALIDATED"), MaxJobs)
  \/ Scenario({y1, y2}, FALSE, Row("DRAFT", "VALIDATED"), MaxJobs - 1)
  \/ Scenario({}, FALSE, NoRow, 0)

MCNext ==
  \/ Next /\ UNCHANGED <<contextVars, playVars, voiceVars>>
  \/ ContextNext /\ UNCHANGED <<playVars, voiceVars>>
  \/ PlayNext /\ UNCHANGED <<vars, contextVars, voiceVars>>
  \/ AdminStep /\ UNCHANGED <<vars, contextVars, playVars>>

MCSpec == MCInit /\ [][MCNext]_<<vars, contextVars, playVars, voiceVars>> /\ PlayFairness
================================================================================
