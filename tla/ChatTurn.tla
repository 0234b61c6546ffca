------------------------------ MODULE ChatTurn ------------------------------
(***************************************************************************)
(* Chat turns of one user: send_message and stream_message of routes.py,   *)
(* stream_team_message of team_routes.py, and the governed audit           *)
(* invocation that a direct turn may start with,                           *)
(* services/audit_invocation_service.py (under src/src/orkio_v2).          *)
(*                                                                         *)
(* Handlers are coroutines of the event loop of their server process.      *)
(* They give the loop up where they wait for a model or a tool; the audit  *)
(* invocation is a synchronous call, and while it runs the process runs    *)
(* nothing else.  Every message, audit row and evidence record is a        *)
(* transaction of its own.                                                 *)
(*                                                                         *)
(* A commit may fail, and may be reported failed although it took effect;  *)
(* a process may die.  MaxFaults bounds both.  A model that fails or       *)
(* answers nothing, an operation that fails, and a client that leaves are  *)
(* ordinary and not bounded.                                               *)
(***************************************************************************)
EXTENDS AuditEvidence

CONSTANTS
  JsonTurns, StreamTurns, TeamTurns,
  Audits,     \* turns whose message is an /audit directive
  Members,    \* contributors of the team plan
  Owner,      \* turn_owner_agent_id
  Procs, Server,
  MaxFaults   \* bound on failed commits and deaths

ASSUME TurnConstants ==
  /\ Requests = JsonTurns \cup StreamTurns \cup TeamTurns
  /\ JsonTurns \cap StreamTurns = {} /\ TeamTurns \cap (JsonTurns \cup StreamTurns) = {}
  /\ Audits \subseteq JsonTurns \cup StreamTurns
  /\ Owner \notin Members
  /\ Server \in [Requests -> Procs] /\ IsFiniteSet(Procs)
  /\ MaxFaults \in Nat

Steps ==
  {"idle", "auditing", "recording", "asking", "consulting", "prompting", "generating",
   "contributing", "synthesizing", "closing", "ended", "gone"}

(* How a request ends for its client: done with a status, an HTTP error,   *)
(* or a stream cut without done.                                           *)
Ends == {"none", "completed", "failed", "refused", "cut"}

VARIABLES
  pc,
  said,     \* requests whose user message is durable
  answers,  \* durable agent messages, as <<request, author>>
  ran,      \* audit turns whose operation was run
  verdict,  \* what the invocation gives its handler; "error" has no reference
  left,     \* members that have not spoken yet
  trail,    \* outcomes of team_completed and team_failed audit rows
  told,     \* how the client was told the request ended
  unsure,   \* requests whose final answer was reported lost but is durable
  artifacts,  \* streams whose rendered file is stored beside the answer
  faults

turnVars == <<said, answers, left, trail, unsure, artifacts>>
auditVars == <<record, recent, ran, verdict>>
vars == <<pc, turnVars, auditVars, told, faults>>

Init ==
  /\ LedgerInit
  /\ pc = [r \in Requests |-> "idle"]
  /\ said = {} /\ answers = {} /\ ran = {} /\ unsure = {} /\ artifacts = {}
  /\ verdict = [r \in Requests |-> "none"]
  /\ left = [r \in Requests |-> Members]
  /\ trail = [r \in Requests |-> {}]
  /\ told = [r \in Requests |-> "none"]
  /\ faults = 0

Sound == UNCHANGED faults
Fault == faults < MaxFaults /\ faults' = faults + 1

Active(r) == pc[r] \notin {"idle", "ended", "gone"}

(* No other request of the process is inside the synchronous invocation.   *)
Turnable(r) ==
  \A o \in Requests \ {r} :
    Server[o] = Server[r] => pc[o] \notin {"auditing", "recording"}

Goto(r, from, to) ==
  /\ pc[r] = from /\ Turnable(r)
  /\ pc' = [pc EXCEPT ![r] = to]
  /\ UNCHANGED told

End(r, from, end) ==
  /\ pc[r] = from /\ Turnable(r)
  /\ pc' = [pc EXCEPT ![r] = "ended"]
  /\ told' = [told EXCEPT ![r] = end]

(* An error is an HTTP status before the stream starts and for a JSON      *)
(* request, and error then done once a stream has started.                 *)
Failed(r) == IF r \in JsonTurns THEN "refused" ELSE "failed"

(* Access to the thread, the target, the team's plan and the configuration *)
(* are checked before anything is stored.                                  *)
Refuse(r) ==
  /\ End(r, "idle", "refused")
  /\ UNCHANGED <<turnVars, auditVars, faults>>

(* Without a configured model the direct stream answers with error, done.  *)
NotConfigured(r) ==
  /\ r \in StreamTurns
  /\ End(r, "idle", "failed")
  /\ UNCHANGED <<turnVars, auditVars, faults>>

(* The user message is committed before anything else is asked.            *)
Ask(r) ==
  /\ r \notin TeamTurns
  /\ \/ /\ Sound
        /\ Goto(r, "idle", IF r \in Audits THEN "auditing" ELSE "asking")
        /\ said' = said \cup {r}
     \/ /\ Fault
        /\ End(r, "idle", "refused")
        /\ said' \in {said, said \cup {r}}
  /\ UNCHANGED <<answers, left, trail, unsure, artifacts, auditVars>>

(* A team turn commits two audit rows before its user message, and reads   *)
(* the history of the thread after it.                                     *)
AskTeam(r) ==
  /\ r \in TeamTurns
  /\ \/ /\ Sound
        /\ Goto(r, "idle", "contributing")
        /\ said' = said \cup {r}
     \/ /\ Fault
        /\ End(r, "idle", "refused")
        /\ said' \in {said, said \cup {r}}
  /\ UNCHANGED <<answers, left, trail, unsure, artifacts, auditVars>>

(* Specialists are consulted for a stream only.                            *)
Prepared(r) == IF r \in StreamTurns THEN "consulting" ELSE "prompting"

(* Where the handler goes with the outcome of the invocation.  The JSON    *)
(* request ends on an error; the stream reports it when it starts.         *)
Return(r, from, outcome) ==
  /\ verdict' = [verdict EXCEPT ![r] = outcome]
  /\ IF r \in JsonTurns /\ outcome # "completed"
     THEN End(r, from, "refused")
     ELSE Goto(r, from, Prepared(r))

(* invoke_if_directive: the abuse limiter or the parser refuses, without   *)
(* evidence.                                                               *)
RefuseDirective(r) ==
  /\ Return(r, "auditing", "error")
  /\ UNCHANGED <<turnVars, record, recent, ran, faults>>

(* What is decided of a directive, and whether an operation ran for it.    *)
Ruled(r, status, used) ==
  /\ verdict' = [verdict EXCEPT ![r] = status]
  /\ ran' = IF used THEN ran \cup {r} ELSE ran

(* _preflight_reason: the agent, and how the turn was addressed.           *)
PreflightDenies(r) == Ruled(r, "denied", FALSE)

(* CapabilityRegistry.authorize: the policy, and last the limit.           *)
Unauthorized(r) == Ruled(r, "denied", FALSE)

(* The resolver finds no artifact of the tenant: recorded as denied.       *)
FindsNoArtifact(r) == Ruled(r, "denied", TRUE)

(* AuditCapabilityGuard.execute runs an operation in one attempt; it fails *)
(* or times out, or returns too much.                                      *)
OperationFails(r) == Ruled(r, "failed", TRUE)

(* What it returned is bound to the request.                               *)
OperationCompletes(r) == Ruled(r, "completed", TRUE)

Decide(r) ==
  /\ Goto(r, "auditing", "recording")
  /\ \/ PreflightDenies(r)
     \/ Unauthorized(r)
     \/ UnderLimit /\ FindsNoArtifact(r)
     \/ UnderLimit /\ OperationFails(r)
     \/ UnderLimit /\ OperationCompletes(r)
  /\ UNCHANGED <<turnVars, record, recent, faults>>

(* _persist_evidence.                                                      *)
(* Broken variant: a failure of append_evidence is swallowed.              *)
RecordQuietly(r) ==
  /\ Return(r, "recording", verdict[r])
  /\ \/ Sound /\ Stored(r, verdict[r])
     \/ Fault /\ AppendRaises(r, verdict[r])
  /\ UNCHANGED <<turnVars, ran>>

Record(r) ==
  /\ \/ /\ Sound
        /\ Stored(r, verdict[r])
        /\ Return(r, "recording", verdict[r])
     \/ /\ Fault
        /\ AppendRaises(r, verdict[r])
        /\ Return(r, "recording", "error")
  /\ UNCHANGED <<turnVars, ran>>

(* A step of the preparation of a prompt; what is not an expected error of *)
(* it is an HTTP error.                                                    *)
Prepare(r, from, to) ==
  /\ \/ Sound /\ Goto(r, from, to)
     \/ Fault /\ End(r, from, "refused")
  /\ UNCHANGED <<turnVars, auditVars>>

(* github_context_messages and runtime_capability_messages, both awaited,  *)
(* and left out for a directive.                                           *)
Fetch(r) == Prepare(r, "asking", Prepared(r))

(* build_internal_consultation_context, awaited; specialists that fail are *)
(* left out.                                                               *)
Consult(r) == Prepare(r, "consulting", "prompting")

(* _history; a stream whose invocation failed still gets there, and then   *)
(* sends error, done.                                                      *)
Prompt(r) ==
  /\ \/ /\ Sound
        /\ IF verdict[r] \in {"none", "completed"}
           THEN Goto(r, "prompting", "generating")
           ELSE End(r, "prompting", "failed")
     \/ /\ Fault
        /\ End(r, "prompting", "refused")
  /\ UNCHANGED <<turnVars, auditVars>>

(* Model errors and empty answers.                                         *)
ModelFails(r) ==
  /\ End(r, "generating", Failed(r))
  /\ UNCHANGED <<turnVars, auditVars, faults>>

(* persist_agent_response and persist_team_final.  What follows the commit *)
(* in the same try (the refresh of the row) may fail too.                  *)
PersistFinal(r, from) ==
  \/ /\ Sound
     /\ Goto(r, from, "closing")
     /\ answers' = answers \cup {<<r, Owner>>}
     /\ UNCHANGED <<trail, unsure>>
  \/ /\ Fault
     /\ End(r, from, Failed(r))
     /\ \/ UNCHANGED <<answers, unsure>>
        \/ answers' = answers \cup {<<r, Owner>>} /\ unsure' = unsure \cup {r}
     /\ trail' = [trail EXCEPT ![r] = @ \cup IF r \in TeamTurns THEN {"failed"} ELSE {}]

Answer(r) ==
  /\ PersistFinal(r, "generating")
  /\ UNCHANGED <<said, left, artifacts, auditVars>>

(* The contributors of the plan speak one after the other.  One whose      *)
(* model fails is skipped; one whose message cannot be stored ends the     *)
(* turn.                                                                   *)
Contribute(r) ==
  \E m \in left[r] :
    \/ /\ Sound
       /\ Goto(r, "contributing", "contributing")
       /\ left' = [left EXCEPT ![r] = @ \ {m}]
       /\ answers' \in {answers, answers \cup {<<r, m>>}}
       /\ UNCHANGED <<said, trail, unsure, artifacts, auditVars>>
    \/ /\ Fault
       /\ End(r, "contributing", "failed")
       /\ answers' \in {answers, answers \cup {<<r, m>>}}
       /\ trail' = [trail EXCEPT ![r] = @ \cup {"failed"}]
       /\ UNCHANGED <<said, left, unsure, artifacts, auditVars>>

Contributors(r) == {m \in Members : <<r, m>> \in answers}

(* After the last contributor.                                             *)
(* Broken variant: a turn that nobody contributed to is left where it is.  *)
Contributed(r) ==
  /\ left[r] = {} /\ Contributors(r) # {}
  /\ Goto(r, "contributing", "synthesizing")
  /\ UNCHANGED <<turnVars, auditVars, faults>>

Consolidate(r) ==
  \/ Contributed(r)
  \/ /\ left[r] = {} /\ Contributors(r) = {}
     /\ End(r, "contributing", "failed")
     /\ trail' = [trail EXCEPT ![r] = @ \cup {"failed"}]
     /\ UNCHANGED <<said, answers, left, unsure, artifacts, auditVars, faults>>

SynthesisFails(r) ==
  /\ End(r, "synthesizing", "failed")
  /\ trail' = [trail EXCEPT ![r] = @ \cup {"failed"}]
  /\ UNCHANGED <<said, answers, left, unsure, artifacts, auditVars, faults>>

(* Broken variant: the handler of a failed commit does not return.         *)
SynthesizeThrough(r) ==
  /\ \/ PersistFinal(r, "synthesizing")
     \/ /\ Fault
        /\ Goto(r, "synthesizing", "closing")
        /\ trail' = [trail EXCEPT ![r] = @ \cup {"failed"}]
        /\ UNCHANGED <<answers, unsure>>
  /\ UNCHANGED <<said, left, artifacts, auditVars>>

Synthesize(r) ==
  /\ PersistFinal(r, "synthesizing")
  /\ UNCHANGED <<said, left, artifacts, auditVars>>

(* A stream that was asked for a file renders and stores it once its answer *)
(* is durable; when that fails, done says so and the turn is completed.    *)
Attach(r) ==
  /\ r \in StreamTurns \ Audits /\ r \notin artifacts
  /\ Goto(r, "closing", "closing")
  /\ artifacts' = artifacts \cup {r}
  /\ UNCHANGED <<said, answers, left, trail, unsure, auditVars, faults>>

(* The response, or done; a team turn commits team_completed before it.    *)
Close(r) ==
  /\ End(r, "closing", "completed")
  /\ trail' = [trail EXCEPT ![r] = @ \cup IF r \in TeamTurns THEN {"success"} ELSE {}]
  /\ UNCHANGED <<said, answers, left, unsure, artifacts, auditVars, faults>>

(* team_audit raises inside the generator: the stream ends without done.   *)
Cut(r) ==
  /\ r \in TeamTurns /\ pc[r] \in {"contributing", "synthesizing", "closing"}
  /\ Fault
  /\ End(r, pc[r], "cut")
  /\ \E outcome \in {"success", "failed"} :
       trail' \in {trail, [trail EXCEPT ![r] = @ \cup {outcome}]}
  /\ UNCHANGED <<said, answers, left, unsure, artifacts, auditVars>>

(* The client leaves a stream that is waiting for a model or for its       *)
(* reader.  A team turn records it when the task is cancelled, and not     *)
(* when the generator is closed at a yield.                                *)
Leave(r) ==
  /\ r \notin JsonTurns
  /\ pc[r] \in {"generating", "contributing", "synthesizing"}
  /\ Goto(r, pc[r], "gone")
  /\ IF r \in TeamTurns
     THEN trail' \in {trail, [trail EXCEPT ![r] = @ \cup {"cancelled"}]}
     ELSE UNCHANGED trail
  /\ UNCHANGED <<said, answers, left, unsure, artifacts, auditVars, faults>>

(* Death of a server process.                                              *)
Die(p) ==
  /\ Fault
  /\ \E r \in Requests : Server[r] = p /\ Active(r)
  /\ pc' = [r \in Requests |-> IF Server[r] = p /\ Active(r) THEN "gone" ELSE pc[r]]
  /\ UNCHANGED <<turnVars, auditVars, told>>

Window ==
  \E r \in Requests :
    Age(r) /\ UNCHANGED <<pc, turnVars, ran, verdict, told, faults>>

Direct(r) == Fetch(r) \/ Consult(r) \/ Prompt(r) \/ ModelFails(r) \/ Answer(r)

Invoke(r) == RefuseDirective(r) \/ Decide(r) \/ Record(r)

Team(r) == Contribute(r) \/ Consolidate(r) \/ SynthesisFails(r) \/ Synthesize(r)

(* What the handler of a request does once it has started.                 *)
Proceed(r) == Invoke(r) \/ Direct(r) \/ Team(r) \/ Attach(r) \/ Close(r)

Next ==
  \/ \E r \in Requests :
       Refuse(r) \/ NotConfigured(r) \/ Ask(r) \/ AskTeam(r) \/ Proceed(r) \/ Cut(r) \/ Leave(r)
  \/ \E p \in Procs : Die(p)
  \/ Window

(* A handler that runs is scheduled again: models and tools have timeouts. *)
Fairness == \A r \in Requests : WF_vars(Proceed(r))

Spec == Init /\ [][Next]_vars /\ Fairness

------------------------------------------------------------------------------

TypeOK ==
  /\ LedgerTypeOK
  /\ pc \in [Requests -> Steps]
  /\ said \subseteq Requests
  /\ answers \subseteq Requests \X (Members \cup {Owner})
  /\ ran \subseteq Audits
  /\ verdict \in [Requests -> Statuses \cup {"none", "error"}]
  /\ left \in [Requests -> SUBSET Members]
  /\ trail \in [Requests -> SUBSET {"success", "failed", "cancelled"}]
  /\ told \in [Requests -> Ends]
  /\ unsure \subseteq Requests /\ artifacts \subseteq StreamTurns
  /\ faults \in 0 .. MaxFaults

(* No evidence is given that the ledger does not hold: what a prompt was   *)
(* built with, and what an error refers to, is the status of a durable     *)
(* record; and an operation that ran leaves a record unless its handler    *)
(* died or told that the record could not be stored.                       *)
EvidenceStands ==
  \A r \in Audits :
    /\ pc[r] \in {"generating", "closing"} \/ told[r] = "completed"
         => record[r] = "completed"
    /\ pc[r] \in {"consulting", "prompting", "ended"} /\ verdict[r] \in Statuses
         => record[r] = verdict[r]
    /\ r \in ran /\ pc[r] = "ended" => record[r] # "none" \/ verdict[r] = "error"

(* The ledger is counted before the operation and written after it, and    *)
(* the processes share nothing else; since an invocation holds the loop of *)
(* its process, the limit is passed by at most one for each other process. *)
RateBound ==
  Cardinality(recent \cap ran) < UserLimit + Cardinality(Procs)

(* What the client is told of a turn is what the thread and the audit      *)
(* trail say: done with status completed stands for a durable question and *)
(* answer, and for a team at least one contribution and no failure in the  *)
(* trail; a turn told as failed has no answer in the thread, unless its    *)
(* commit was reported lost, nor a file, and a team's trail says that it   *)
(* failed.                                                                 *)
DoneIsTrue ==
  \A r \in Requests :
    /\ told[r] = "completed" =>
         /\ r \in said /\ <<r, Owner>> \in answers
         /\ r \in TeamTurns => trail[r] = {"success"} /\ Contributors(r) # {}
    /\ told[r] \in {"failed", "refused"} /\ <<r, Owner>> \in answers => r \in unsure
    /\ r \in artifacts => <<r, Owner>> \in answers /\ told[r] \in {"none", "completed"}
    /\ told[r] = "failed" /\ r \in TeamTurns => trail[r] = {"failed"}

(* A turn whose question is in the thread ends: with done or an HTTP       *)
(* error, unless the client left, the process died, or a team turn's own   *)
(* audit row could not be stored.                                          *)
TurnEnds ==
  []<>(\A r \in said :
         \/ told[r] \in {"completed", "failed", "refused"}
         \/ pc[r] = "gone"
         \/ told[r] = "cut" /\ r \in TeamTurns)
=============================================================================
