------------------------------ MODULE RealtimeTurn ------------------------------
(***************************************************************************)
(* A final transcript of a realtime session becomes a turn of the thread:  *)
(* realtime_final_turn and realtime_stream_turn (src/src/orkio_v2/         *)
(* realtime_routes.py), the receipts of services/realtime_bridge.py and    *)
(* the executions of services/realtime_execution.py.                       *)
(*                                                                         *)
(* The client may send one transcript several times, to both endpoints;    *)
(* a receipt under the key of the turn is to let one request execute it.   *)
(* The endpoints are coroutines: the requests of one server process take   *)
(* turns only where one of them awaits (a model, speech, its client), and  *)
(* several processes interleave between any two statements.                *)
(*                                                                         *)
(* A request executes its turn at most once, because the receipt is never  *)
(* deleted: the messages that r persists are named by r.  An answer 409    *)
(* changes nothing and is no step.                                         *)
(***************************************************************************)
EXTENDS Naturals, FiniteSets

CONSTANTS
  Requests,    \* what clients send: one transcript, to one endpoint
  Turns,       \* keys of realtime_turn_key
  TurnOf,
  Endpoint,    \* "stream", or the target mode of a final turn
  Processes,   \* server processes
  ProcessOf,
  Members,     \* contributors of the team
  None,
  MaxLosses    \* bound on deaths and on requests that vanish

ASSUME TurnConstants ==
  /\ TurnOf \in [Requests -> Turns]
  /\ Endpoint \in [Requests -> {"stream", "direct", "team"}]
  /\ ProcessOf \in [Requests -> Processes]
  /\ None \notin Requests
  /\ MaxLosses \in Nat

Steps == {"idle", "loaded", "reserved", "consulting", "thinking", "answered"}

Outcomes == {"completed", "failed"}

VARIABLES
  \* the receipt of each turn: its state and the answer that it names
  receipt,
  \* the thread: requests whose question, contributions, answer it shows
  asked, contributed, answered,
  \* the running requests, and the members of the team still to consult
  pc, left,
  \* what clients were given as the answer of a turn
  told,
  \* turns of which a request vanished without a word
  lost, losses

threadVars == <<asked, contributed, answered>>
vars == <<receipt, threadVars, pc, left, told, lost, losses>>

Init ==
  /\ receipt = [t \in Turns |-> [state |-> "none", answer |-> None]]
  /\ asked = {} /\ contributed = {} /\ answered = {}
  /\ pc = [r \in Requests |-> "idle"]
  /\ left = [r \in Requests |-> {}]
  /\ told = [t \in Turns |-> {}]
  /\ lost = {} /\ losses = 0

(***************************************************************************)
(* The event loop                                                          *)
(***************************************************************************)

(* A request keeps the loop from one await to the next.  The stream awaits *)
(* its client once more before its generator starts.                       *)
KeepsLoop(r) ==
  \/ pc[r] \in {"loaded", "answered"}
  \/ pc[r] = "reserved" /\ Endpoint[r] # "stream"

Goto(r, from, to) ==
  /\ pc[r] = from
  /\ \A q \in Requests \ {r} : ProcessOf[q] = ProcessOf[r] => ~KeepsLoop(q)
  /\ pc' = [pc EXCEPT ![r] = to]

(***************************************************************************)
(* The request                                                             *)
(***************************************************************************)

(* Broken variant: the turn of a failed attempt may be executed again.     *)
ArriveAfterFailure(r) ==
  /\ Goto(r, "idle", "loaded")
  /\ receipt[TurnOf[r]].state \in {"none", "failed"}
  /\ UNCHANGED <<receipt, threadVars, left, told, lost, losses>>

Arrive(r) ==
  /\ Goto(r, "idle", "loaded")
  /\ receipt[TurnOf[r]].state = "none"
  /\ UNCHANGED <<receipt, threadVars, left, told, lost, losses>>

(* A final turn that is completed is answered from its receipt.            *)
Reconcile(r) ==
  LET t == TurnOf[r] IN
  /\ Goto(r, "idle", "idle")
  /\ Endpoint[r] # "stream"
  /\ receipt[t].state = "completed"
  /\ receipt[t].answer \in answered
  /\ told' = [told EXCEPT ![t] = @ \cup {receipt[t].answer}]
  /\ UNCHANGED <<receipt, threadVars, left, lost, losses>>

(* reserve_receipt leaves an existing receipt alone and returns it; both   *)
(* callers go on whatever it returns.                                      *)
Reserve(r) ==
  LET t == TurnOf[r] IN
  /\ Goto(r, "loaded", "reserved")
  /\ receipt' = [receipt EXCEPT ![t].state = IF @ = "none" THEN "processing" ELSE @]
  /\ UNCHANGED <<threadVars, left, told, lost, losses>>

(* persist_user_message; a team consults its members one after the other.  *)
Ask(r) ==
  LET team == Endpoint[r] = "team" IN
  /\ Goto(r, "reserved", IF team THEN "consulting" ELSE "thinking")
  /\ asked' = asked \cup {r}
  /\ left' = [left EXCEPT ![r] = IF team THEN Members ELSE {}]
  /\ UNCHANGED <<receipt, contributed, answered, told, lost, losses>>

Contribute(r, m) ==
  /\ Goto(r, "consulting", "consulting")
  /\ m \in left[r]
  /\ left' = [left EXCEPT ![r] = @ \ {m}]
  /\ contributed' = contributed \cup {<<r, m>>}
  /\ UNCHANGED <<receipt, asked, answered, told, lost, losses>>

(* The member's model fails or says nothing.                               *)
SkipMember(r, m) ==
  /\ Goto(r, "consulting", "consulting")
  /\ m \in left[r]
  /\ left' = [left EXCEPT ![r] = @ \ {m}]
  /\ UNCHANGED <<receipt, threadVars, told, lost, losses>>

Contributors(r) == {m \in Members : <<r, m>> \in contributed}

Synthesize(r) ==
  /\ Goto(r, "consulting", "thinking")
  /\ left[r] = {} /\ Contributors(r) # {}
  /\ UNCHANGED <<receipt, threadVars, left, told, lost, losses>>

(* Broken variant: the answer is added to the session but not committed.   *)
PersistAnswerUnflushed(r) ==
  /\ Goto(r, "thinking", "answered")
  /\ UNCHANGED <<receipt, threadVars, left, told, lost, losses>>

(* persist_agent_response, persist_team_final                              *)
PersistAnswer(r) ==
  /\ Goto(r, "thinking", "answered")
  /\ answered' = answered \cup {r}
  /\ UNCHANGED <<receipt, asked, contributed, left, told, lost, losses>>

(* complete_receipt, whatever the receipt says by now, and the response.   *)
Complete(r) ==
  LET t == TurnOf[r] IN
  /\ Goto(r, "answered", "idle")
  /\ Endpoint[r] # "stream"
  /\ receipt' = [receipt EXCEPT ![t] = [state |-> "completed", answer |-> r]]
  /\ told' = [told EXCEPT ![t] = @ \cup {r}]
  /\ UNCHANGED <<threadVars, left, lost, losses>>

(* fail_receipt, whatever the receipt says by now.  Reading the row and    *)
(* writing it is one step, here and in complete_receipt.                   *)
RecordFailure(r, from) ==
  /\ Goto(r, from, "idle")
  /\ receipt' = [receipt EXCEPT ![TurnOf[r]].state = "failed"]
  /\ left' = [left EXCEPT ![r] = {}]
  /\ UNCHANGED <<threadVars, told, lost, losses>>

(* The target cannot be resolved, or the team's plan is refused.           *)
RefuseTarget(r) == RecordFailure(r, "reserved")

(* The history of the thread cannot be assembled; a direct turn that fails  *)
(* there gives up like one whose model fails.                              *)
HistoryFails(r) ==
  /\ left[r] = Members
  /\ RecordFailure(r, "consulting")

NoContribution(r) ==
  /\ left[r] = {} /\ Contributors(r) = {}
  /\ RecordFailure(r, "consulting")

(* Broken variant: a failure that no except clause catches.                *)
GiveUpSilently(r) ==
  /\ Goto(r, "thinking", "idle")
  /\ UNCHANGED <<receipt, threadVars, left, told, lost, losses>>

(* The model fails or says nothing; for a stream also: speech fails, a     *)
(* limit is reached, or the client disconnects during an await.            *)
GiveUp(r) == RecordFailure(r, "thinking")

(* Broken variant: the receipt is completed, but the stream does not note  *)
(* that its last event is out, and may still be cut off.                   *)
StreamDoneUnmarked(r) ==
  /\ Goto(r, "answered", "thinking")
  /\ Endpoint[r] = "stream"
  /\ receipt' = [receipt EXCEPT ![TurnOf[r]] = [state |-> "completed", answer |-> r]]
  /\ UNCHANGED <<threadVars, left, told, lost, losses>>

(* The last item of stream_realtime_direct carries no execution_id: the    *)
(* KeyError is caught and the turn recorded as failed.                     *)
StreamDone(r) ==
  /\ Endpoint[r] = "stream"
  /\ RecordFailure(r, "answered")

(* The request ends and nothing is written: the database refuses a write,  *)
(* after which fail_receipt cannot use the session either, or the client   *)
(* of a stream is gone when the stream sends.                              *)
Vanish(r) ==
  /\ pc[r] # "idle"
  /\ losses < MaxLosses
  /\ losses' = losses + 1
  /\ Goto(r, pc[r], "idle")
  /\ lost' = lost \cup {TurnOf[r]}
  /\ left' = [left EXCEPT ![r] = {}]
  /\ UNCHANGED <<receipt, threadVars, told>>

(* A server process dies, with all its requests.                           *)
Die(s) ==
  LET dying == {r \in Requests : ProcessOf[r] = s /\ pc[r] # "idle"} IN
  /\ dying # {}
  /\ losses < MaxLosses
  /\ losses' = losses + 1
  /\ pc' = [r \in Requests |-> IF r \in dying THEN "idle" ELSE pc[r]]
  /\ left' = [r \in Requests |-> IF r \in dying THEN {} ELSE left[r]]
  /\ lost' = lost \cup {TurnOf[r] : r \in dying}
  /\ UNCHANGED <<receipt, threadVars, told>>

Proceed(r) ==
  \/ Reserve(r) \/ RefuseTarget(r) \/ Ask(r)
  \/ \E m \in Members : Contribute(r, m) \/ SkipMember(r, m)
  \/ Synthesize(r) \/ HistoryFails(r) \/ NoContribution(r)
  \/ GiveUp(r) \/ PersistAnswer(r)
  \/ Complete(r) \/ StreamDone(r)

Next ==
  \/ \E r \in Requests : Arrive(r) \/ Reconcile(r) \/ Proceed(r) \/ Vanish(r)
  \/ \E s \in Processes : Die(s)

Spec == Init /\ [][Next]_vars

(* A request that can take a step takes it in the end: every wait for a    *)
(* model or for speech has a timeout, and the event loop is fair.          *)
Fairness == \A r \in Requests : SF_vars(Proceed(r))

FairSpec == Spec /\ Fairness

--------------------------------------------------------------------------------
(***************************************************************************)
(* Properties                                                              *)
(***************************************************************************)

(* Every variable has its type.                                            *)
TypeOK ==
  /\ receipt \in [Turns -> [state : {"none", "processing"} \cup Outcomes,
                            answer : Requests \cup {None}]]
  /\ asked \subseteq Requests /\ answered \subseteq Requests
  /\ contributed \subseteq Requests \X Members
  /\ pc \in [Requests -> Steps]
  /\ left \in [Requests -> SUBSET Members]
  /\ told \in [Turns -> SUBSET Requests]
  /\ lost \subseteq Turns
  /\ losses \in 0 .. MaxLosses

(* However often a transcript is sent, to whichever endpoint, one server   *)
(* process asks its question and persists its answer at most once: no      *)
(* retry, disconnect or failure makes it run again.                        *)
OneExecution ==
  \A r, q \in asked \cup answered :
    TurnOf[r] = TurnOf[q] /\ ProcessOf[r] = ProcessOf[q] => r = q

(* The answer that a receipt names, and every answer a client was given,   *)
(* is in the thread and belongs to that turn.                              *)
ReceiptNamesAnswer ==
  \A t \in Turns :
    /\ receipt[t].state = "completed" => receipt[t].answer # None
    /\ \A r \in told[t] \cup {receipt[t].answer} :
         r # None => r \in answered /\ TurnOf[r] = t

(* A turn is left in processing, where every retry is answered 409, only   *)
(* while a request is running it, or if one vanished: no error path ends   *)
(* without an outcome.                                                     *)
NoSilentEnd ==
  \A t \in Turns \ lost :
    receipt[t].state = "processing" =>
      \E r \in Requests : TurnOf[r] = t /\ pc[r] \notin {"idle", "loaded"}

(* The requests of a turn reach one process.                               *)
Sole(t) == \A r, q \in Requests : TurnOf[r] = t /\ TurnOf[q] = t => ProcessOf[r] = ProcessOf[q]

(* The outcome of a turn that one process serves is final: a failure does  *)
(* not replace a completed turn, nor the reverse, and a client that asks   *)
(* again is given the same answer.                                         *)
OutcomeStep ==
  \A t \in Turns : Sole(t) /\ receipt[t].state \in Outcomes => receipt'[t] = receipt[t]

OutcomeFinal == [][OutcomeStep]_vars

(* Every reserved turn reaches an outcome, unless a request of it          *)
(* vanished: with the requests sent once each, a time comes when no turn   *)
(* is left in processing.                                                  *)
InProcess(t) == receipt[t].state = "processing" /\ t \notin lost

TurnEnds == []<>(\A t \in Turns : ~ InProcess(t))

(* A turn that is recorded as failed shows no answer in the thread.  The   *)
(* stream endpoint breaks it in every turn that succeeds.                  *)
FailedHasNoAnswer ==
  \A t \in Turns : receipt[t].state = "failed" => \A r \in answered : TurnOf[r] # t
================================================================================
