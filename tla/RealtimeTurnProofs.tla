--------------------------- MODULE RealtimeTurnProofs ---------------------------
(***************************************************************************)
(* Proofs about RealtimeTurn, for any number of requests, turns, server    *)
(* processes, members and losses.  The inductive invariant says that a     *)
(* running request has its receipt reserved (Reserved), that it is the     *)
(* only one of its turn in its process and the first there (Alone), that   *)
(* its answer is in the thread before the receipt names it (Persisted),    *)
(* and that nobody runs a settled turn that one process serves (Closed).   *)
(* The last part carries this over to RealtimeSpeech and bounds its        *)
(* segments.                                                               *)
(***************************************************************************)
EXTENDS RealtimeSpeech, FiniteSetTheorems, TLAPS

Reserved ==
  \A r \in Requests :
    (r \in asked \cup answered \/ pc[r] \notin {"idle", "loaded"})
      => receipt[TurnOf[r]].state # "none"

Twins(q, r) == q # r /\ TurnOf[q] = TurnOf[r] /\ ProcessOf[q] = ProcessOf[r]

Alone ==
  \A q, r \in Requests :
    Twins(q, r) /\ pc[q] # "idle" => pc[r] = "idle" /\ r \notin asked \cup answered

Persisted == \A r \in Requests : pc[r] = "answered" => r \in answered

Closed ==
  \A t \in Turns : Sole(t) /\ receipt[t].state \in Outcomes =>
    \A r \in Requests : TurnOf[r] = t => pc[r] = "idle"

IInv ==
  /\ TypeOK
  /\ Reserved
  /\ Alone
  /\ Persisted
  /\ Closed
  /\ OneExecution
  /\ ReceiptNamesAnswer
  /\ NoSilentEnd
--------------------------------------------------------------------------------
(* Init establishes the invariant.                                         *)
LEMMA InitEstablishes == Init => IInv
BY TurnConstants
   DEF TurnConstants, Init, IInv, TypeOK, Reserved, Alone, Persisted, Closed, OneExecution,
       ReceiptNamesAnswer, NoSilentEnd, Steps, Outcomes, Twins

States == {"none", "processing"} \cup Outcomes

(* A receipt whose state is set to another one is a receipt.               *)
LEMMA ReceiptTyped ==
  ASSUME NEW f \in [Turns -> [state : States, answer : Requests \cup {None}]],
         NEW t \in Turns, NEW s \in States
  PROVE  [f EXCEPT ![t].state = s] \in [Turns -> [state : States, answer : Requests \cup {None}]]
<1> DEFINE rec == [f[t] EXCEPT !.state = s]
<1>1. rec \in [state : States, answer : Requests \cup {None}]
  OBVIOUS
<1>2. [f EXCEPT ![t].state = s] = [f EXCEPT ![t] = rec]
  OBVIOUS
<1> HIDE DEF rec
<1>3. QED
  BY <1>1, <1>2

(* A step of a request that leaves idle finds no twin at work.             *)
LEMMA ArriveKeeps ==
  ASSUME NEW r \in Requests, IInv, Arrive(r)
  PROVE  IInv'
<1> USE TurnConstants DEF TurnConstants, IInv, Arrive, Goto, threadVars
<1>1. TypeOK'
  BY DEF TypeOK, Steps
<1>2. Reserved' /\ Persisted'
  BY DEF TypeOK, Reserved, Persisted
<1>3. \A q \in Requests : Twins(q, r) => pc[q] = "idle" /\ q \notin asked \cup answered
  BY DEF Reserved, Twins, KeepsLoop, TypeOK, Steps
<1>4. Alone'
  BY <1>3 DEF Alone, Twins, TypeOK
<1>5. Closed'
  BY DEF Closed, TypeOK, Outcomes, Sole
<1>6. OneExecution' /\ ReceiptNamesAnswer'
  BY DEF OneExecution, ReceiptNamesAnswer
<1>7. NoSilentEnd'
  BY DEF NoSilentEnd, TypeOK
<1>8. QED
  BY <1>1, <1>2, <1>4, <1>5, <1>6, <1>7

(* What every later step of a request keeps: it is still alone, and nobody *)
(* else of its process executed its turn.                                  *)
LEMMA StepKeepsAlone ==
  ASSUME NEW r \in Requests, NEW to \in Steps, IInv, pc[r] # "idle",
         pc' = [pc EXCEPT ![r] = to],
         asked' \in {asked, asked \cup {r}}, answered' \in {answered, answered \cup {r}}
  PROVE  Alone' /\ OneExecution'
<1> USE DEF IInv, TypeOK, Alone, Twins
<1>1. Alone'
  OBVIOUS
<1>2. OneExecution'
  BY DEF OneExecution
<1>3. QED
  BY <1>1, <1>2

(* Answering from the receipt moves nobody.                                *)
LEMMA ReconcileKeeps ==
  ASSUME NEW r \in Requests, IInv, Reconcile(r)
  PROVE  IInv'
<1> USE TurnConstants DEF TurnConstants, IInv, Reconcile, Goto, threadVars
<1>1. pc' = pc
  BY DEF TypeOK
<1>2. TypeOK'
  <2>1. receipt[TurnOf[r]].answer \in Requests
    BY DEF TypeOK
  <2>2. told' \in [Turns -> SUBSET Requests]
    BY <2>1 DEF TypeOK
  <2>3. QED
    BY <1>1, <2>2 DEF TypeOK
<1>3. Reserved' /\ Alone' /\ Persisted' /\ Closed' /\ OneExecution' /\ NoSilentEnd'
  BY <1>1 DEF Reserved, Alone, Persisted, Closed, OneExecution, NoSilentEnd, Sole
<1>4. ReceiptNamesAnswer'
  BY DEF ReceiptNamesAnswer, TypeOK
<1>5. QED
  BY <1>2, <1>3, <1>4

(* A reservation leaves an outcome alone, and finds none that is closed.   *)
LEMMA ReserveKeeps ==
  ASSUME NEW r \in Requests, IInv, Reserve(r)
  PROVE  IInv'
<1> USE TurnConstants DEF TurnConstants, IInv, Reserve, Goto, threadVars
<1>1. TypeOK'
  <2>1. receipt' \in [Turns -> [state : States, answer : Requests \cup {None}]]
    <3>1. receipt \in [Turns -> [state : States, answer : Requests \cup {None}]]
      BY DEF TypeOK, States
    <3>2. CASE receipt[TurnOf[r]].state = "none"
      BY <3>1, <3>2, ReceiptTyped DEF States
    <3>3. CASE receipt[TurnOf[r]].state # "none"
      BY <3>1, <3>3
    <3>4. QED
      BY <3>2, <3>3
  <2>2. pc' \in [Requests -> Steps]
    BY DEF TypeOK, Steps
  <2>3. QED
    BY <2>1, <2>2 DEF TypeOK, States
<1>2. Reserved' /\ Persisted'
  <2>1. /\ receipt'[TurnOf[r]].state # "none"
        /\ \A t \in Turns : receipt[t].state # "none" => receipt'[t].state # "none"
    BY DEF TypeOK
  <2>2. \A q \in Requests : q # r => pc'[q] = pc[q]
    BY DEF TypeOK
  <2>3. pc'[r] = "reserved"
    BY DEF TypeOK
  <2>4. QED
    BY <2>1, <2>2, <2>3 DEF Reserved, Persisted
<1>3. Alone' /\ OneExecution'
  BY StepKeepsAlone DEF Steps, TypeOK
<1>4. Closed'
  BY DEF Closed, TypeOK, Alone, Twins, Outcomes, Sole
<1>5. ReceiptNamesAnswer' /\ NoSilentEnd'
  BY DEF ReceiptNamesAnswer, NoSilentEnd, TypeOK, Outcomes, Reserved, Persisted
<1>6. QED
  BY <1>1, <1>2, <1>3, <1>4, <1>5

(* The question is asked by a request that is alone.                       *)
LEMMA AskKeeps ==
  ASSUME NEW r \in Requests, IInv, Ask(r)
  PROVE  IInv'
<1> USE TurnConstants DEF TurnConstants, IInv, Ask, Goto, threadVars
<1>1. TypeOK'
  BY DEF TypeOK, Steps, Outcomes
<1>2. Reserved' /\ Persisted'
  BY DEF TypeOK, Reserved, Persisted, Steps
<1>3. Alone' /\ OneExecution'
  BY StepKeepsAlone DEF Steps, TypeOK
<1>4. Closed'
  BY DEF Closed, TypeOK, Alone, Twins, Outcomes, Sole
<1>5. ReceiptNamesAnswer' /\ NoSilentEnd'
  BY DEF ReceiptNamesAnswer, NoSilentEnd, TypeOK, Outcomes, Reserved, Persisted
<1>6. QED
  BY <1>1, <1>2, <1>3, <1>4, <1>5

(* A contribution changes only the thread.                                 *)
LEMMA ContributeKeeps ==
  ASSUME NEW r \in Requests, NEW m \in Members, IInv, Contribute(r, m)
  PROVE  IInv'
<1> USE TurnConstants DEF TurnConstants, IInv, Contribute, Goto, threadVars
<1>1. TypeOK'
  BY DEF TypeOK, Steps, Outcomes
<1>2. Reserved' /\ Persisted'
  BY DEF TypeOK, Reserved, Persisted, Steps
<1>3. Alone' /\ OneExecution'
  BY StepKeepsAlone DEF Steps, TypeOK
<1>4. Closed'
  BY DEF Closed, TypeOK, Alone, Twins, Outcomes, Sole
<1>5. ReceiptNamesAnswer' /\ NoSilentEnd'
  BY DEF ReceiptNamesAnswer, NoSilentEnd, TypeOK, Outcomes, Reserved, Persisted
<1>6. QED
  BY <1>1, <1>2, <1>3, <1>4, <1>5

(* Skipping a member changes nothing that others see.                      *)
LEMMA SkipMemberKeeps ==
  ASSUME NEW r \in Requests, NEW m \in Members, IInv, SkipMember(r, m)
  PROVE  IInv'
<1> USE TurnConstants DEF TurnConstants, IInv, SkipMember, Goto, threadVars
<1>1. TypeOK'
  BY DEF TypeOK, Steps, Outcomes
<1>2. Reserved' /\ Persisted'
  BY DEF TypeOK, Reserved, Persisted, Steps
<1>3. Alone' /\ OneExecution'
  BY StepKeepsAlone DEF Steps, TypeOK
<1>4. Closed'
  BY DEF Closed, TypeOK, Alone, Twins, Outcomes, Sole
<1>5. ReceiptNamesAnswer' /\ NoSilentEnd'
  BY DEF ReceiptNamesAnswer, NoSilentEnd, TypeOK, Outcomes, Reserved, Persisted
<1>6. QED
  BY <1>1, <1>2, <1>3, <1>4, <1>5

(* The synthesis starts without a write.                                   *)
LEMMA SynthesizeKeeps ==
  ASSUME NEW r \in Requests, IInv, Synthesize(r)
  PROVE  IInv'
<1> USE TurnConstants DEF TurnConstants, IInv, Synthesize, Goto, threadVars
<1>1. TypeOK'
  BY DEF TypeOK, Steps, Outcomes
<1>2. Reserved' /\ Persisted'
  BY DEF TypeOK, Reserved, Persisted, Steps
<1>3. Alone' /\ OneExecution'
  BY StepKeepsAlone DEF Steps, TypeOK
<1>4. Closed'
  BY DEF Closed, TypeOK, Alone, Twins, Outcomes, Sole
<1>5. ReceiptNamesAnswer' /\ NoSilentEnd'
  BY DEF ReceiptNamesAnswer, NoSilentEnd, TypeOK, Outcomes, Reserved, Persisted
<1>6. QED
  BY <1>1, <1>2, <1>3, <1>4, <1>5

(* The answer is in the thread before the receipt names it.                *)
LEMMA PersistAnswerKeeps ==
  ASSUME NEW r \in Requests, IInv, PersistAnswer(r)
  PROVE  IInv'
<1> USE TurnConstants DEF TurnConstants, IInv, PersistAnswer, Goto, threadVars
<1>1. TypeOK'
  BY DEF TypeOK, Steps, Outcomes
<1>2. Reserved' /\ Persisted'
  BY DEF TypeOK, Reserved, Persisted, Steps
<1>3. Alone' /\ OneExecution'
  BY StepKeepsAlone DEF Steps, TypeOK
<1>4. Closed'
  BY DEF Closed, TypeOK, Alone, Twins, Outcomes, Sole
<1>5. ReceiptNamesAnswer' /\ NoSilentEnd'
  BY DEF ReceiptNamesAnswer, NoSilentEnd, TypeOK, Outcomes, Reserved, Persisted
<1>6. QED
  BY <1>1, <1>2, <1>3, <1>4, <1>5

(* The receipt names an answer of its turn that is in the thread.          *)
LEMMA CompleteKeeps ==
  ASSUME NEW r \in Requests, IInv, Complete(r)
  PROVE  IInv'
<1> USE TurnConstants DEF TurnConstants, IInv, Complete, Goto, threadVars
<1>1. TypeOK'
  BY DEF TypeOK, Steps, Outcomes
<1>2. Reserved' /\ Persisted'
  BY DEF TypeOK, Reserved, Persisted, Steps
<1>3. Alone' /\ OneExecution'
  BY StepKeepsAlone DEF Steps, TypeOK
<1>4. Closed'
  <2>1. \A t \in Turns \ {TurnOf[r]} : receipt'[t] = receipt[t]
    BY DEF TypeOK
  <2>2. \A q \in Requests : pc[q] = "idle" \/ q = r => pc'[q] = "idle"
    BY DEF TypeOK
  <2>3. ASSUME Sole(TurnOf[r]), NEW q \in Requests, TurnOf[q] = TurnOf[r], q # r
        PROVE  pc[q] = "idle"
    BY <2>3 DEF Alone, Twins, Sole
  <2>4. QED
    BY <2>1, <2>2, <2>3 DEF Closed, Sole
<1>5. ReceiptNamesAnswer' /\ NoSilentEnd'
  BY DEF ReceiptNamesAnswer, NoSilentEnd, TypeOK, Outcomes, Reserved, Persisted
<1>6. QED
  BY <1>1, <1>2, <1>3, <1>4, <1>5

(* A request that vanishes accounts for its turn in lost.                  *)
LEMMA VanishKeeps ==
  ASSUME NEW r \in Requests, IInv, Vanish(r)
  PROVE  IInv'
<1> USE TurnConstants DEF TurnConstants, IInv, Vanish, Goto, threadVars
<1>1. TypeOK'
  <2>1. lost' \subseteq Turns
    BY DEF TypeOK
  <2>2. losses \in 0 .. MaxLosses /\ losses < MaxLosses /\ losses' = losses + 1
    BY DEF TypeOK
  <2>3. losses' \in 0 .. MaxLosses
    BY <2>2
  <2>4. pc' \in [Requests -> Steps] /\ left' \in [Requests -> SUBSET Members]
    BY DEF TypeOK, Steps
  <2>5. QED
    BY <2>1, <2>3, <2>4 DEF TypeOK
<1>2. Reserved' /\ Persisted'
  BY DEF TypeOK, Reserved, Persisted, Steps
<1>3. Alone' /\ OneExecution'
  BY StepKeepsAlone DEF Steps, TypeOK
<1>4. Closed'
  BY DEF Closed, TypeOK, Alone, Twins, Outcomes, Sole
<1>5. ReceiptNamesAnswer' /\ NoSilentEnd'
  BY DEF ReceiptNamesAnswer, NoSilentEnd, TypeOK, Outcomes, Reserved, Persisted
<1>6. QED
  BY <1>1, <1>2, <1>3, <1>4, <1>5

(* A recorded failure closes the turn: the request was alone in it.        *)
LEMMA RecordFailureKeeps ==
  ASSUME NEW r \in Requests, NEW from \in Steps \ {"idle", "loaded"},
         IInv, RecordFailure(r, from)
  PROVE  IInv'
<1> USE TurnConstants DEF TurnConstants, IInv, RecordFailure, Goto, threadVars
<1>1. TypeOK'
  <2>1. receipt' \in [Turns -> [state : States, answer : Requests \cup {None}]]
    BY ReceiptTyped DEF TypeOK, States, Outcomes
  <2>2. pc' \in [Requests -> Steps] /\ left' \in [Requests -> SUBSET Members]
    BY DEF TypeOK, Steps
  <2>3. QED
    BY <2>1, <2>2 DEF TypeOK, States
<1>2. Reserved' /\ Persisted'
  BY DEF TypeOK, Reserved, Persisted, Steps
<1>3. Alone' /\ OneExecution'
  BY StepKeepsAlone DEF Steps, TypeOK
<1>4. Closed'
  BY DEF Closed, TypeOK, Alone, Twins, Outcomes, Sole
<1>5. ReceiptNamesAnswer' /\ NoSilentEnd'
  BY DEF ReceiptNamesAnswer, NoSilentEnd, TypeOK, Outcomes, Reserved, Persisted
<1>6. QED
  BY <1>1, <1>2, <1>3, <1>4, <1>5

(* The death of a process accounts for the turns of all its requests.      *)
LEMMA DieKeeps ==
  ASSUME NEW s \in Processes, IInv, Die(s)
  PROVE  IInv'
<1> USE TurnConstants DEF TurnConstants, IInv, Die, threadVars
<1>1. \A r \in Requests : pc'[r] \in {"idle", pc[r]}
  OBVIOUS
<1>2. TypeOK'
  BY DEF TypeOK, Steps
<1>3. Reserved' /\ Persisted' /\ Closed' /\ OneExecution' /\ ReceiptNamesAnswer'
  BY <1>1 DEF Reserved, Persisted, Closed, OneExecution, ReceiptNamesAnswer, Sole
<1>4. Alone'
  BY <1>1 DEF Alone, Twins
<1>5. NoSilentEnd'
  BY DEF NoSilentEnd, TypeOK
<1>6. QED
  BY <1>2, <1>3, <1>4, <1>5

(* Every step keeps the invariant.                                         *)
LEMMA NextKeeps == IInv /\ [Next]_vars => IInv'
<1> SUFFICES ASSUME IInv, [Next]_vars PROVE IInv'
  OBVIOUS
<1>1. ASSUME NEW r \in Requests, Arrive(r) \/ Reconcile(r) \/ Vanish(r) PROVE IInv'
  BY <1>1, ArriveKeeps, ReconcileKeeps, VanishKeeps
<1>2. ASSUME NEW r \in Requests, NEW m \in Members, Contribute(r, m) \/ SkipMember(r, m)
      PROVE  IInv'
  BY <1>2, ContributeKeeps, SkipMemberKeeps
<1>3. ASSUME NEW r \in Requests,
             Reserve(r) \/ Ask(r) \/ Synthesize(r) \/ PersistAnswer(r) \/ Complete(r)
      PROVE  IInv'
  BY <1>3, ReserveKeeps, AskKeeps, SynthesizeKeeps, PersistAnswerKeeps, CompleteKeeps
<1>4. ASSUME NEW r \in Requests,
             RefuseTarget(r) \/ HistoryFails(r) \/ NoContribution(r) \/ GiveUp(r) \/ StreamDone(r)
      PROVE  IInv'
  BY <1>4, RecordFailureKeeps
     DEF RefuseTarget, HistoryFails, NoContribution, GiveUp, StreamDone, Steps
<1>5. ASSUME NEW s \in Processes, Die(s) PROVE IInv'
  BY <1>5, DieKeeps
<1>6. CASE UNCHANGED vars
  BY <1>6 DEF vars, threadVars, IInv, TypeOK, Reserved, Alone, Persisted, Closed,
              OneExecution, ReceiptNamesAnswer, NoSilentEnd, Sole
<1>7. QED
  BY <1>1, <1>2, <1>3, <1>4, <1>5, <1>6 DEF Next, Proceed

(* The invariant holds in every reachable state.                           *)
THEOREM Invariant == Spec => []IInv
BY InitEstablishes, NextKeeps, PTL DEF Spec
--------------------------------------------------------------------------------
(* Every variable has its type.                                            *)
THEOREM TypeCorrect == Spec => []TypeOK
<1>1. IInv => TypeOK
  BY DEF IInv
<1>2. QED
  BY <1>1, Invariant, PTL

(* One process executes a turn at most once, however often its transcript  *)
(* is sent and whatever fails: reserve_receipt under the event loop.       *)
THEOREM ExecutedOnce == Spec => []OneExecution
<1>1. IInv => OneExecution
  BY DEF IInv
<1>2. QED
  BY <1>1, Invariant, PTL

(* The answer that a receipt names, and each that a client was given, is   *)
(* in the thread and belongs to the turn, for any number of processes.     *)
THEOREM ReceiptsNameAnswers == Spec => []ReceiptNamesAnswer
<1>1. IInv => ReceiptNamesAnswer
  BY DEF IInv
<1>2. QED
  BY <1>1, Invariant, PTL

(* A turn in processing is being run, or a request of it vanished: every   *)
(* error path of the endpoints records an outcome.                         *)
THEOREM NoSilentEnds == Spec => []NoSilentEnd
<1>1. IInv => NoSilentEnd
  BY DEF IInv
<1>2. QED
  BY <1>1, Invariant, PTL

(* A step that writes a receipt finds it without an outcome, if one        *)
(* process serves the turn.                                                *)
LEMMA NextKeepsOutcomes == IInv /\ [Next]_vars => [OutcomeStep]_vars
<1> SUFFICES ASSUME IInv, Next, NEW t \in Turns, Sole(t), receipt[t].state \in Outcomes
             PROVE  receipt'[t] = receipt[t]
  BY DEF OutcomeStep
<1>1. \A r \in Requests : TurnOf[r] = t => pc[r] = "idle"
  BY DEF IInv, Closed
<1>2. \A r \in Requests, from \in Steps \ {"idle"} :
        RecordFailure(r, from) => receipt'[t] = receipt[t]
  BY <1>1, TurnConstants DEF TurnConstants, RecordFailure, Goto, IInv, TypeOK
<1>3. \A r \in Requests :
        RefuseTarget(r) \/ HistoryFails(r) \/ NoContribution(r) \/ GiveUp(r) \/ StreamDone(r)
          => receipt'[t] = receipt[t]
  BY <1>2 DEF RefuseTarget, HistoryFails, NoContribution, GiveUp, StreamDone, Steps
<1>4. \A r \in Requests : Reserve(r) \/ Complete(r) => receipt'[t] = receipt[t]
  BY <1>1, TurnConstants DEF TurnConstants, Reserve, Complete, Goto, IInv, TypeOK
<1>5. QED
  BY <1>3, <1>4
     DEF Next, Proceed, Arrive, Reconcile, Ask, Contribute, SkipMember, Synthesize,
         PersistAnswer, Vanish, Die

(* The outcome of a turn that one process serves is final: no late         *)
(* complete_receipt or fail_receipt replaces it.                           *)
THEOREM OutcomesFinal == Spec => OutcomeFinal
BY Invariant, NextKeepsOutcomes, PTL DEF Spec, OutcomeFinal
--------------------------------------------------------------------------------
(***************************************************************************)
(* The turns inside their sessions and their speech: RealtimeSpeech only   *)
(* adds conditions to the steps of RealtimeTurn, so that whatever holds of *)
(* the turns holds there, and its own counting of segments is bounded.     *)
(***************************************************************************)
(* Every step of a session or of speech is a step of the turns or leaves   *)
(* them alone.                                                             *)
LEMMA SpeechStepsTurns == [SpeechNext]_allVars => [Next]_vars
<1> SUFFICES ASSUME [SpeechNext]_allVars PROVE [Next]_vars
  OBVIOUS
<1>1. ASSUME NEW s \in Sessions, Authorize(s) \/ CreateCall(s) \/ Ineligible(s) \/ CallFails(s)
      PROVE  UNCHANGED vars
  BY <1>1 DEF Authorize, CreateCall, Ineligible, CallFails, SessionStep
<1>2. ASSUME NEW r \in Requests, Turn(r, Arrive(r) \/ Reconcile(r) \/ Vanish(r))
      PROVE  Next
  BY <1>2 DEF Turn, Next
<1>3. ASSUME NEW r \in Requests, Serve(r)
      PROVE  Next \/ UNCHANGED vars
  BY <1>3 DEF Serve, Turn, SegmentReady, SegmentAdmitted, SegmentSpoken, Next
<1>4. ASSUME NEW row \in minute, MinutePasses(row)
      PROVE  UNCHANGED vars
  BY <1>4 DEF MinutePasses
<1>5. ASSUME NEW p \in Processes, ServerDies(p)
      PROVE  Next
  BY <1>5 DEF ServerDies, Next
<1>6. CASE UNCHANGED allVars
  BY <1>6 DEF allVars
<1> QED
  BY <1>1, <1>2, <1>3, <1>4, <1>5, <1>6 DEF SpeechNext

(* The endpoints with their sessions and their speech behave, towards the  *)
(* thread and the receipts, as RealtimeTurn says.                          *)
THEOREM SpeechKeepsTurns == SpeechSpec => Spec
BY SpeechStepsTurns, PTL DEF SpeechSpec, Spec

(* The processes of which a request has counted the minute and not yet     *)
(* inserted its segment.                                                   *)
Counting ==
  {p \in Processes : \E r \in Requests : ProcessOf[r] = p /\ speech[r] = "counted"}

(* One request of a process does so at a time: nothing is awaited between  *)
(* the two statements.                                                     *)
OneCounts ==
  \A r, q \in Requests :
    speech[r] = "counted" /\ speech[q] = "counted" /\ ProcessOf[r] = ProcessOf[q] => r = q

(* A segment under way has its number.                                     *)
Numbered == \A r \in Requests : speech[r] # "none" => segments[r] # 0

(* Each segment under way was counted in a minute that had room for it.    *)
Counted ==
  /\ IsFiniteSet(minute)
  /\ Cardinality(minute) + Cardinality(Counting) < UserLimit + Cardinality(Processes)

SpeechInv == SpeechTypeOK /\ Numbered /\ OneCounts /\ Counted

LEMMA CountingFinite ==
  /\ IsFiniteSet(Counting) /\ Cardinality(Counting) \in Nat
  /\ IsFiniteSet(Processes) /\ Cardinality(Processes) \in Nat
  /\ Cardinality(Counting) <= Cardinality(Processes)
<1>1. Counting \subseteq Processes /\ IsFiniteSet(Processes)
  BY SpeechConstants DEF SpeechConstants, Counting
<1> QED
  BY <1>1, FS_Subset, FS_CardinalityType

LEMMA SpeechInitEstablishes == SpeechInit => SpeechInv
<1> SUFFICES ASSUME SpeechInit PROVE SpeechInv
  OBVIOUS
<1>1. SpeechTypeOK /\ Numbered /\ OneCounts
  BY SpeechConstants DEF SpeechConstants, Numbered, SpeechInit, SegmentsInit, SpeechTypeOK, OneCounts
<1>2. Counting = {} /\ minute = {}
  BY DEF SpeechInit, SegmentsInit, Counting
<1>3. Cardinality(Processes) \in Nat /\ UserLimit \in Nat \ {0}
  BY CountingFinite, SpeechConstants DEF SpeechConstants
<1>4. Counted
  BY <1>2, <1>3, FS_EmptySet DEF Counted
<1> QED
  BY <1>1, <1>4 DEF SpeechInv

(* A step that makes nobody count and adds no row.                         *)
LEMMA FewerCount ==
  ASSUME SpeechInv, minute' \subseteq minute,
         \A r \in Requests : speech'[r] = "counted" => speech[r] = "counted"
  PROVE  OneCounts' /\ Counted'
<1>1. OneCounts'
  BY DEF SpeechInv, OneCounts
<1>2. Counting' \subseteq Counting
  BY DEF Counting
<1>3. /\ IsFiniteSet(Counting') /\ IsFiniteSet(minute')
      /\ Cardinality(Counting') <= Cardinality(Counting)
      /\ Cardinality(minute') <= Cardinality(minute)
  BY <1>2, CountingFinite, FS_Subset DEF SpeechInv, Counted
<1>4. /\ Cardinality(Counting') \in Nat /\ Cardinality(Counting) \in Nat
      /\ Cardinality(minute') \in Nat /\ Cardinality(minute) \in Nat
      /\ Cardinality(Processes) \in Nat /\ UserLimit \in Nat
  BY <1>3, CountingFinite, FS_CardinalityType, SpeechConstants DEF SpeechConstants, SpeechInv, Counted
<1>5. Counted'
  BY <1>3, <1>4 DEF SpeechInv, Counted
<1> QED
  BY <1>1, <1>5

LEMMA TurnKeepsSpeech ==
  ASSUME SpeechInv, NEW r \in Requests, UNCHANGED <<session, minute>>,
         speech' = [speech EXCEPT ![r] = IF pc'[r] = "thinking" THEN @ ELSE "none"],
         segments' = [segments EXCEPT ![r] = IF pc'[r] = "thinking" THEN @ ELSE 0]
  PROVE  SpeechInv'
<1>1. /\ speech \in [Requests -> {"none", "counted", "speaking"}]
      /\ segments \in [Requests -> 0 .. MaxSegments] /\ 0 \in 0 .. MaxSegments
  BY SpeechConstants DEF SpeechConstants, SpeechInv, SpeechTypeOK
<1>2. \A q \in Requests : speech'[q] = "none" \/ (speech'[q] = speech[q] /\ segments'[q] = segments[q])
  BY <1>1
<1>3. SpeechTypeOK'
  BY <1>1 DEF SpeechInv, SpeechTypeOK
<1>4. Numbered'
  BY <1>2 DEF SpeechInv, Numbered
<1>5. minute' = minute /\ \A q \in Requests : speech'[q] = "counted" => speech[q] = "counted"
  BY <1>2
<1> QED
  BY <1>3, <1>4, <1>5, FewerCount DEF SpeechInv

LEMMA SegmentReadyKeeps ==
  ASSUME SpeechInv, NEW r \in Requests, SegmentReady(r)
  PROVE  SpeechInv'
<1>1. SpeechTypeOK' /\ Numbered'
  BY SpeechConstants DEF SpeechConstants, SpeechInv, SpeechTypeOK, Numbered, SegmentReady, Streaming
<1>2. OneCounts'
  BY DEF SpeechInv, SpeechTypeOK, OneCounts, SegmentReady, LoopFree
<1>3. minute' = minute /\ IsFiniteSet(minute) /\ Cardinality(minute) < UserLimit
  BY DEF SpeechInv, Counted, SegmentReady, UnderLimit
<1>4. Counting' \subseteq Processes
  BY DEF Counting
<1>5. /\ Cardinality(Counting') <= Cardinality(Processes)
      /\ Cardinality(Counting') \in Nat /\ Cardinality(Processes) \in Nat
  BY <1>4, CountingFinite, FS_Subset, FS_CardinalityType
<1>6. Cardinality(minute) \in Nat /\ UserLimit \in Nat
  BY <1>3, FS_CardinalityType, SpeechConstants DEF SpeechConstants
<1>7. Counted'
  BY <1>3, <1>5, <1>6 DEF Counted
<1> QED
  BY <1>1, <1>2, <1>7 DEF SpeechInv

LEMMA SegmentAdmittedKeeps ==
  ASSUME SpeechInv, NEW r \in Requests, SegmentAdmitted(r)
  PROVE  SpeechInv'
<1>1. SpeechTypeOK' /\ Numbered'
  <2>1. segments[r] \in 1 .. MaxSegments
    BY DEF SpeechInv, SpeechTypeOK, Numbered, SegmentAdmitted
  <2> QED
    BY <2>1 DEF SpeechInv, SpeechTypeOK, Numbered, SegmentAdmitted
<1>2. OneCounts'
  BY DEF SpeechInv, SpeechTypeOK, OneCounts, SegmentAdmitted
<1> DEFINE p == ProcessOf[r]
           row == <<r, segments[r]>>
<1>3. p \in Counting /\ Counting' = Counting \ {p}
  <2>1. p \in Processes /\ speech[r] = "counted"
    BY TurnConstants DEF TurnConstants, SegmentAdmitted
  <2>2. \A q \in Requests : speech'[q] = "counted" <=> speech[q] = "counted" /\ q # r
    BY DEF SpeechInv, SpeechTypeOK, SegmentAdmitted
  <2>3. \A q \in Requests : speech[q] = "counted" /\ ProcessOf[q] = p => q = r
    BY <2>1 DEF SpeechInv, OneCounts
  <2> HIDE DEF p
  <2>4. \A o \in Processes :
          (\E q \in Requests : ProcessOf[q] = o /\ speech'[q] = "counted")
            <=> (\E q \in Requests : ProcessOf[q] = o /\ speech[q] = "counted") /\ o # p
    BY <2>2, <2>3 DEF p
  <2>5. p \in Counting
    BY <2>1 DEF Counting, p
  <2> QED
    BY <2>4, <2>5 DEF Counting
<1>4. Cardinality(Counting') = Cardinality(Counting) - 1
  BY <1>3, CountingFinite, FS_RemoveElement
<1>5. minute' = minute \cup {row} /\ IsFiniteSet(minute)
  BY DEF SegmentAdmitted, SpeechInv, Counted
<1> HIDE DEF row
<1>6. /\ IsFiniteSet(minute') /\ Cardinality(minute) \in Nat /\ Cardinality(minute') \in Nat
      /\ Cardinality(minute') <= Cardinality(minute) + 1
  BY <1>5, FS_AddElement, FS_CardinalityType
<1>7. Cardinality(Counting) \in Nat /\ Cardinality(Processes) \in Nat /\ UserLimit \in Nat
  BY CountingFinite, SpeechConstants DEF SpeechConstants
<1>8. Counted'
  BY <1>4, <1>6, <1>7 DEF SpeechInv, Counted
<1> QED
  BY <1>1, <1>2, <1>8 DEF SpeechInv

LEMMA SpeechNextKeeps == SpeechInv /\ [SpeechNext]_allVars => SpeechInv'
<1> SUFFICES ASSUME SpeechInv, [SpeechNext]_allVars PROVE SpeechInv'
  OBVIOUS
<1>1. ASSUME NEW s \in Sessions, Authorize(s) \/ CreateCall(s) \/ Ineligible(s) \/ CallFails(s)
      PROVE  SpeechInv'
  <2>1. UNCHANGED <<speech, segments, minute>>
    BY <1>1 DEF Authorize, CreateCall, Ineligible, CallFails, SessionStep
  <2>2. SpeechTypeOK' /\ Numbered'
    BY <1>1, <2>1 DEF SpeechInv, SpeechTypeOK, Numbered,
                      Authorize, CreateCall, Ineligible, CallFails, SessionStep
  <2> QED
    BY <2>1, <2>2, FewerCount DEF SpeechInv
<1>2. ASSUME NEW r \in Requests, Turn(r, Arrive(r) \/ Reconcile(r) \/ Vanish(r)) \/ Serve(r)
      PROVE  SpeechInv'
  <2>1. CASE SegmentSpoken(r)
    <3>1. SpeechTypeOK' /\ Numbered'
      BY <2>1 DEF SpeechInv, SpeechTypeOK, Numbered, SegmentSpoken
    <3>2. minute' = minute /\ \A q \in Requests : speech'[q] = "counted" => speech[q] = "counted"
      BY <2>1 DEF SpeechInv, SpeechTypeOK, SegmentSpoken
    <3> QED
      BY <3>1, <3>2, FewerCount DEF SpeechInv
  <2> QED
    BY <1>2, <2>1, TurnKeepsSpeech, SegmentReadyKeeps, SegmentAdmittedKeeps DEF Serve, Turn
<1>3. ASSUME NEW row \in minute, MinutePasses(row)
      PROVE  SpeechInv'
  <2>1. SpeechTypeOK' /\ Numbered' /\ minute' \subseteq minute /\ speech' = speech
    BY <1>3 DEF SpeechInv, SpeechTypeOK, Numbered, MinutePasses
  <2> QED
    BY <2>1, FewerCount DEF SpeechInv
<1>4. ASSUME NEW p \in Processes, ServerDies(p)
      PROVE  SpeechInv'
  <2>1. SpeechTypeOK' /\ Numbered'
    BY <1>4, SpeechConstants DEF SpeechConstants, SpeechInv, SpeechTypeOK, Numbered, ServerDies
  <2>2. minute' = minute /\ \A q \in Requests : speech'[q] = "counted" => speech[q] = "counted"
    BY <1>4 DEF SpeechInv, SpeechTypeOK, ServerDies
  <2> QED
    BY <2>1, <2>2, FewerCount DEF SpeechInv
<1>5. CASE UNCHANGED allVars
  <2>1. SpeechTypeOK' /\ Numbered' /\ minute' = minute /\ speech' = speech
    BY <1>5 DEF SpeechInv, SpeechTypeOK, Numbered, allVars, speechVars
  <2> QED
    BY <2>1, FewerCount DEF SpeechInv
<1> QED
  BY <1>1, <1>2, <1>3, <1>4, <1>5 DEF SpeechNext

(* The variables of sessions and speech keep their types.                  *)
THEOREM SpeechTypeCorrect == SpeechSpec => []SpeechTypeOK
<1>1. SpeechInv => SpeechTypeOK
  BY DEF SpeechInv
<1> QED
  BY <1>1, SpeechInitEstablishes, SpeechNextKeeps, PTL DEF SpeechSpec

(* However many streams speak at once, the segments of a minute pass the   *)
(* limit of their user by at most one for each other server process        *)
(* (_enforce_realtime_segment_limits).                                     *)
THEOREM SegmentsBounded == SpeechSpec => []SegmentBound
<1>1. SpeechInv => SegmentBound
  <2>1. SUFFICES ASSUME SpeechInv PROVE SegmentBound
    OBVIOUS
  <2>2. /\ Cardinality(minute) \in Nat /\ UserLimit \in Nat
        /\ Cardinality(Counting) \in Nat /\ Cardinality(Processes) \in Nat
    BY <2>1, CountingFinite, FS_CardinalityType, SpeechConstants DEF SpeechConstants, SpeechInv, Counted
  <2> QED
    BY <2>1, <2>2 DEF SpeechInv, Counted, SegmentBound
<1> QED
  BY <1>1, SpeechInitEstablishes, SpeechNextKeeps, PTL DEF SpeechSpec
================================================================================
