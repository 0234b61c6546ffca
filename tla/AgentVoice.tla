------------------------------ MODULE AgentVoice ------------------------------
(***************************************************************************)
(* The voice an agent speaks with: assignments that administrators draft,  *)
(* validate and activate (routes.py), and resolve_voice_profile            *)
(* (services/voice_binding.py), under src/src/orkio_v2.                    *)
(*                                                                         *)
(* An admin route reads, decides and commits in one transaction without    *)
(* row locks; routes run in threads, so two interleave between the read    *)
(* and the commit.  A commit writes only the columns that the route        *)
(* changed, to whatever the row is by then, and fails as a whole if it     *)
(* violates a constraint of the table.  Nothing in src/ changes the voice  *)
(* catalogue: the voices here are its eligible entries.                    *)
(***************************************************************************)
EXTENDS Naturals, FiniteSets

CONSTANTS
  Drafts,           \* assignment rows, each made by one upsert
  AgentOf, VoiceOf, \* the agent (and locale) and the voice of a row
  Clerks,           \* admin routes that run at the same time
  Env,              \* the binding of the environment
  MaxJobs           \* bound on admin requests

ASSUME VoiceConstants == Env \notin Drafts /\ MaxJobs \in Nat

Verdicts == {"UNVALIDATED", "VALIDATED", "FAILED"}

NoRow == [state |-> "none", verdict |-> "UNVALIDATED", active |-> FALSE]

AssignmentRows ==
  [state : {"none", "DRAFT", "ACTIVE", "DISABLED"}, verdict : Verdicts, active : BOOLEAN]

NoJob == [op |-> "none", row |-> Env, prior |-> {}, verdict |-> "UNVALIDATED"]

VARIABLES
  assignment,
  job,   \* what a route has read and is about to commit
  jobs   \* admin requests so far

voiceVars == <<assignment, job, jobs>>

VoiceInit ==
  /\ assignment = [u \in Drafts |-> NoRow]
  /\ job = [c \in Clerks |-> NoJob]
  /\ jobs = 0

StartJob(c, op, u, prior, verdict) ==
  /\ job[c] = NoJob /\ jobs < MaxJobs
  /\ job' = [job EXCEPT ![c] = [op |-> op, row |-> u, prior |-> prior, verdict |-> verdict]]
  /\ jobs' = jobs + 1
  /\ UNCHANGED assignment

(* The partial unique indexes and the check constraint of the table.       *)
OnePerAgentAndVoice(rows) ==
  \A u, v \in Drafts :
    rows[u].active /\ rows[v].active /\ (AgentOf[u] = AgentOf[v] \/ VoiceOf[u] = VoiceOf[v])
      => u = v

Constraints(rows) ==
  /\ OnePerAgentAndVoice(rows)
  /\ \A u \in Drafts : rows[u].state = "ACTIVE" => rows[u].verdict = "VALIDATED"

CommitJob(c, op, next) ==
  /\ job[c].op = op
  /\ job' = [job EXCEPT ![c] = NoJob]
  /\ assignment' = IF Constraints(next) THEN next ELSE assignment
  /\ UNCHANGED jobs

(* admin_upsert_agent_voice_assignment: a draft replaces the active row of *)
(* its agent.                                                              *)
DraftRead(c, u) ==
  /\ assignment[u] = NoRow /\ \A d \in Clerks : job[d].row # u
  /\ ~ \E v \in Drafts :
         assignment[v].active /\ VoiceOf[v] = VoiceOf[u] /\ AgentOf[v] # AgentOf[u]
  /\ StartJob(c, "draft", u,
           {v \in Drafts : assignment[v].active /\ AgentOf[v] = AgentOf[u]}, "UNVALIDATED")

Replaced(prior) ==
  [v \in Drafts |->
     IF v \in prior THEN [assignment[v] EXCEPT !.state = "DISABLED", !.active = FALSE]
     ELSE assignment[v]]

WithDraft(c) ==
  [Replaced(job[c].prior) EXCEPT
     ![job[c].row] = [state |-> "DRAFT", verdict |-> "UNVALIDATED", active |-> TRUE]]

(* Broken variant: the replaced row is committed before the draft.         *)
DraftCommitInTwo(c) ==
  /\ job[c].op = "draft"
  /\ job' = [job EXCEPT ![c] = NoJob]
  /\ assignment' = IF Constraints(WithDraft(c)) THEN WithDraft(c) ELSE Replaced(job[c].prior)
  /\ UNCHANGED jobs

DraftCommit(c) == CommitJob(c, "draft", WithDraft(c))

IsDraft(u) == assignment[u].active /\ assignment[u].state = "DRAFT"

(* admin_validate_agent_voice_assignment.  A verdict that is the row's     *)
(* already is not written.                                                 *)
JudgeRead(c, u, verdict) ==
  /\ IsDraft(u)
  /\ StartJob(c, IF verdict = assignment[u].verdict THEN "agree" ELSE "judge", u, {}, verdict)

JudgeCommit(c) ==
  \/ CommitJob(c, "agree", assignment)
  \/ CommitJob(c, "judge", [assignment EXCEPT ![job[c].row].verdict = job[c].verdict])

(* admin_activate_agent_voice_assignment                                   *)
ActivateRead(c, u) ==
  /\ IsDraft(u) /\ assignment[u].verdict = "VALIDATED"
  /\ StartJob(c, "activate", u, {}, "VALIDATED")

ActivateCommit(c) ==
  CommitJob(c, "activate", [assignment EXCEPT ![job[c].row].state = "ACTIVE"])

AdminStep ==
  \E c \in Clerks :
    \/ \E u \in Drafts :
         DraftRead(c, u) \/ ActivateRead(c, u)
           \/ \E verdict \in {"VALIDATED", "FAILED"} : JudgeRead(c, u, verdict)
    \/ DraftCommit(c) \/ JudgeCommit(c) \/ ActivateCommit(c)

VoiceSpec == VoiceInit /\ [][AdminStep]_voiceVars

(* _catalog_profile and resolve_voice_profile: the active assignment of    *)
(* the agent, or else the environment's binding.                           *)
InForce(agent) ==
  {u \in Drafts : AgentOf[u] = agent /\ assignment[u].active /\ assignment[u].state = "ACTIVE"}

Profiles(agent) == IF InForce(agent) = {} THEN {Env} ELSE InForce(agent)

VoiceTypeOK ==
  /\ assignment \in [Drafts -> AssignmentRows]
  /\ job \in [Clerks -> [op : {"none", "draft", "agree", "judge", "activate"},
                         row : Drafts \cup {Env}, prior : SUBSET Drafts, verdict : Verdicts]]
  /\ jobs \in 0 .. MaxJobs

(* An agent that has been given an assignment keeps one that is active,    *)
(* also when its replacement is refused because another agent took the     *)
(* voice meanwhile; and the voice in force was never judged otherwise than *)
(* valid since, however the routes interleave between read and commit.     *)
OneAssignment ==
  \A u \in Drafts :
    /\ assignment[u].state # "none" =>
         \E v \in Drafts : assignment[v].active /\ AgentOf[v] = AgentOf[u]
    /\ InForce(AgentOf[u]) \subseteq {v \in Drafts : assignment[v].verdict = "VALIDATED"}
===============================================================================
