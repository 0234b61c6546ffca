----------------------------- MODULE ChatTurnProofs -----------------------------
(***************************************************************************)
(* Proofs about ChatTurn, for any number of requests, members and faults,  *)
(* and any finite number of processes.  A request's own components are     *)
(* changed by its own steps only, so the inductive invariant is one about  *)
(* each request (Sane): what the thread, the audit trail, the ledger and   *)
(* the client know of it at each of its steps.  The bound on audit         *)
(* invocations counts across requests and has an invariant of its own      *)
(* (Rated): no two requests of a process are inside the invocation, and    *)
(* operations that ran and still count, or are about to be recorded, are   *)
(* fewer than the limit and the processes together.                        *)
(***************************************************************************)
EXTENDS ChatTurn, FiniteSetTheorems, TLAPS

(* What the thread holds of a request, and what its client was told.       *)
Threaded(r) ==
  /\ pc[r] \notin {"idle", "ended", "gone"} => r \in said
  /\ told[r] = "none" <=> pc[r] # "ended"
  /\ <<r, Owner>> \in answers =>
       pc[r] \in {"closing", "gone"} \/ told[r] \in {"completed", "cut"} \/ r \in unsure
  /\ pc[r] = "closing" \/ told[r] = "completed" => r \in said /\ <<r, Owner>> \in answers
  /\ r \in artifacts =>
       /\ r \in StreamTurns /\ <<r, Owner>> \in answers
       /\ pc[r] \in {"closing", "gone"} \/ told[r] = "completed"

(* What the audit trail says of a team turn.                               *)
Audited(r) ==
  /\ r \in TeamTurns =>
       /\ pc[r] \in {"idle", "contributing", "synthesizing", "closing", "ended", "gone"}
       /\ pc[r] \notin {"ended", "gone"} => trail[r] = {}
       /\ pc[r] \in {"synthesizing", "closing"} => Contributors(r) # {}
       /\ told[r] = "failed" => trail[r] = {"failed"}
       /\ told[r] = "completed" => trail[r] = {"success"} /\ Contributors(r) # {}
  /\ r \notin TeamTurns => pc[r] \notin {"contributing", "synthesizing"}

(* What the ledger holds of a directive at each step of its request.       *)
Evident(r) ==
  /\ r \notin Audits => pc[r] \notin {"auditing", "recording"}
  /\ r \in Audits =>
       /\ pc[r] # "asking"
       /\ pc[r] \in {"idle", "auditing"} =>
            verdict[r] = "none" /\ record[r] = "none" /\ r \notin ran
       /\ pc[r] = "recording" => verdict[r] \in Statuses /\ record[r] = "none"
       /\ pc[r] \in {"consulting", "prompting"} => verdict[r] # "none"
       /\ pc[r] \in {"consulting", "prompting", "ended"} /\ verdict[r] \in Statuses =>
            record[r] = verdict[r]
       /\ pc[r] \in {"generating", "closing"} \/ told[r] = "completed" =>
            verdict[r] = "completed" /\ record[r] = "completed"
       /\ pc[r] = "ended" /\ r \in ran => record[r] # "none" \/ verdict[r] = "error"

Sane(r) == Threaded(r) /\ Audited(r) /\ Evident(r)

Inside(r) == pc[r] \in {"auditing", "recording"}

(* Operations that count, or will as soon as they are recorded.            *)
Pending == {r \in Requests : pc[r] = "recording" /\ r \in ran}
Load == (recent \cap ran) \cup Pending

Rated ==
  /\ IsFiniteSet(recent)
  /\ \A q, r \in Requests : Inside(q) /\ Inside(r) /\ Server[q] = Server[r] => q = r
  /\ IsFiniteSet(Load) /\ Cardinality(Load) < UserLimit + Cardinality(Procs)

IInv ==
  /\ TypeOK
  /\ \A r \in Requests : Sane(r)
  /\ Rated
--------------------------------------------------------------------------------
(* Init establishes the invariant.                                         *)
LEMMA InitEstablishes == Init => IInv
<1> SUFFICES ASSUME Init PROVE IInv
  OBVIOUS
<1> USE TurnConstants, LimitConstants DEF TurnConstants, LimitConstants, Init, LedgerInit
<1>1. TypeOK
  BY DEF TypeOK, LedgerTypeOK, Steps, Ends, Statuses
<1>2. \A r \in Requests : Sane(r)
  BY DEF Sane, Threaded, Audited, Evident
<1>3. Rated
  <2>1. recent = {} /\ Load = {}
    BY DEF Load, Pending
  <2>2. IsFiniteSet({}) /\ Cardinality({}) = 0
    BY FS_EmptySet
  <2>3. Cardinality(Procs) \in Nat
    BY FS_CardinalityType
  <2>4. QED
    BY <2>1, <2>2, <2>3 DEF Rated, Inside
<1>4. QED
  BY <1>1, <1>2, <1>3 DEF IInv

(* What is not changed of a request.                                       *)
Same(q) ==
  /\ pc'[q] = pc[q] /\ told'[q] = told[q]
  /\ q \in said' <=> q \in said
  /\ \A m \in Members \cup {Owner} : <<q, m>> \in answers' <=> <<q, m>> \in answers
  /\ q \in ran' <=> q \in ran
  /\ verdict'[q] = verdict[q] /\ record'[q] = record[q] /\ trail'[q] = trail[q]
  /\ q \in unsure' <=> q \in unsure
  /\ q \in artifacts' <=> q \in artifacts

LEMMA SameKeeps ==
  ASSUME NEW q \in Requests, Sane(q), Same(q)
  PROVE  Sane(q)'
<1>1. Threaded(q)'
  BY DEF Sane, Same, Threaded
<1>2. Contributors(q)' = Contributors(q)
  BY DEF Same, Contributors
<1>3. Audited(q)'
  BY <1>2 DEF Sane, Same, Audited
<1>4. Evident(q)'
  BY DEF Sane, Same, Evident
<1>5. QED
  BY <1>1, <1>3, <1>4 DEF Sane

(***************************************************************************)
(* Steps before anything is asked                                          *)
(***************************************************************************)

LEMMA BeginKeeps ==
  ASSUME NEW r \in Requests, TypeOK, Sane(r),
         Refuse(r) \/ NotConfigured(r) \/ Ask(r) \/ AskTeam(r)
  PROVE  TypeOK' /\ Sane(r)' /\ (\A q \in Requests : q # r => Same(q))
<1> USE TurnConstants DEF TurnConstants, Refuse, NotConfigured, Ask, AskTeam, End, Goto, Sound, Fault, turnVars,
        auditVars
<1>1. /\ pc[r] = "idle" /\ faults' \in 0 .. MaxFaults
      /\ UNCHANGED <<answers, left, trail, unsure, artifacts, record, recent, ran, verdict>>
      /\ \/ /\ pc' = [pc EXCEPT ![r] = "ended"]
            /\ told' \in {[told EXCEPT ![r] = "refused"], [told EXCEPT ![r] = "failed"]}
            /\ told' = [told EXCEPT ![r] = "failed"] => r \in StreamTurns
            /\ said' \in {said, said \cup {r}}
         \/ /\ pc' = [pc EXCEPT ![r] = IF r \in TeamTurns THEN "contributing"
                                       ELSE IF r \in Audits THEN "auditing" ELSE "asking"]
            /\ told' = told /\ said' = said \cup {r}
  BY DEF TypeOK
<1>2. TypeOK'
  BY <1>1 DEF TypeOK, LedgerTypeOK, Steps, Ends
<1>3. Sane(r)'
  BY <1>1 DEF TypeOK, LedgerTypeOK, Sane, Threaded, Audited, Evident, Ends, Contributors, Statuses
<1>4. \A q \in Requests : q # r => Same(q)
  BY <1>1 DEF TypeOK, Same
<1>5. QED
  BY <1>2, <1>3, <1>4

(***************************************************************************)
(* The audit invocation                                                    *)
(***************************************************************************)

(* Where a handler that leaves the invocation goes.                        *)
LEMMA ReturnGoes ==
  ASSUME NEW r \in Requests, NEW from \in {"auditing", "recording"}, NEW outcome, TypeOK, Sane(r),
         Return(r, from, outcome)
  PROVE  /\ r \in Audits /\ r \notin TeamTurns /\ pc[r] = from
         /\ verdict' = [verdict EXCEPT ![r] = outcome]
         /\ \/ pc' = [pc EXCEPT ![r] = "ended"] /\ told' = [told EXCEPT ![r] = "refused"]
            \/ /\ \E to \in {"consulting", "prompting"} : pc' = [pc EXCEPT ![r] = to]
               /\ told' = told
BY TurnConstants DEF TurnConstants, Return, End, Goto, Prepared, Sane, Evident

(* A directive that is refused leaves no evidence and ran nothing.         *)
LEMMA RefuseDirectiveKeeps ==
  ASSUME NEW r \in Requests, TypeOK, Sane(r), RefuseDirective(r)
  PROVE  TypeOK' /\ Sane(r)' /\ (\A q \in Requests : q # r => Same(q))
<1> USE DEF turnVars
<1>1. /\ r \in Audits /\ r \notin TeamTurns /\ pc[r] = "auditing"
      /\ verdict' = [verdict EXCEPT ![r] = "error"]
      /\ \/ pc' = [pc EXCEPT ![r] = "ended"] /\ told' = [told EXCEPT ![r] = "refused"]
         \/ /\ \E to \in {"consulting", "prompting"} : pc' = [pc EXCEPT ![r] = to]
            /\ told' = told
  BY ReturnGoes DEF RefuseDirective
<1>2. UNCHANGED <<said, answers, left, trail, unsure, artifacts, record, recent, ran, faults>>
  BY DEF RefuseDirective
<1>3. TypeOK'
  BY <1>1, <1>2 DEF TypeOK, LedgerTypeOK, Steps, Ends, Statuses
<1>4. Sane(r)'
  BY <1>1, <1>2 DEF TypeOK, Sane, Threaded, Audited, Evident, Ends, Statuses
<1>5. \A q \in Requests : q # r => Same(q)
  BY <1>1, <1>2 DEF TypeOK, Same
<1>6. QED
  BY <1>3, <1>4, <1>5

(* What Decide can do.                                                     *)
LEMMA DecideEffect ==
  ASSUME NEW r \in Requests, TypeOK, Sane(r), Decide(r)
  PROVE  /\ r \in Audits /\ r \notin TeamTurns /\ r \notin ran /\ pc[r] = "auditing"
         /\ record[r] = "none" /\ r \in said
         /\ pc' = [pc EXCEPT ![r] = "recording"] /\ told' = told
         /\ \E s \in Statuses : verdict' = [verdict EXCEPT ![r] = s]
         /\ ran' = ran \/ (ran' = ran \cup {r} /\ UnderLimit)
         /\ UNCHANGED <<said, answers, left, trail, unsure, artifacts, record, recent, faults>>
BY TurnConstants
   DEF TurnConstants, Decide, Goto, PreflightDenies, Unauthorized, FindsNoArtifact, OperationFails,
       OperationCompletes, Ruled, turnVars, Sane, Evident, Threaded, Statuses

LEMMA DecideKeeps ==
  ASSUME NEW r \in Requests, TypeOK, Sane(r), Decide(r)
  PROVE  TypeOK' /\ Sane(r)' /\ (\A q \in Requests : q # r => Same(q))
<1>1. /\ r \in Audits /\ r \notin TeamTurns /\ r \notin ran /\ pc[r] = "auditing"
      /\ record[r] = "none" /\ r \in said
      /\ pc' = [pc EXCEPT ![r] = "recording"] /\ told' = told
      /\ \E s \in Statuses : verdict' = [verdict EXCEPT ![r] = s]
      /\ ran' \in {ran, ran \cup {r}}
      /\ UNCHANGED <<said, answers, left, trail, unsure, artifacts, record, recent, faults>>
  BY DecideEffect
<1>2. TypeOK'
  BY <1>1 DEF TypeOK, LedgerTypeOK, Steps
<1>3. Sane(r)'
  BY <1>1 DEF TypeOK, Sane, Threaded, Audited, Evident, Ends, Statuses
<1>4. \A q \in Requests : q # r => Same(q)
  BY <1>1 DEF TypeOK, Same
<1>5. QED
  BY <1>2, <1>3, <1>4

(* What Record can do.                                                     *)
LEMMA RecordEffect ==
  ASSUME NEW r \in Requests, TypeOK, Sane(r), Record(r)
  PROVE  /\ r \in Audits /\ r \notin TeamTurns /\ pc[r] = "recording"
         /\ verdict[r] \in Statuses /\ record[r] = "none" /\ r \in said
         /\ \/ /\ record' = [record EXCEPT ![r] = verdict[r]]
               /\ recent' = recent \cup {r} /\ verdict' = verdict
            \/ /\ \/ record' = record /\ recent' = recent
                  \/ record' = [record EXCEPT ![r] = verdict[r]] /\ recent' = recent \cup {r}
               /\ verdict' = [verdict EXCEPT ![r] = "error"]
         /\ \/ pc' = [pc EXCEPT ![r] = "ended"] /\ told' = [told EXCEPT ![r] = "refused"]
            \/ /\ \E to \in {"consulting", "prompting"} : pc' = [pc EXCEPT ![r] = to]
               /\ told' = told
         /\ faults' \in 0 .. MaxFaults
         /\ UNCHANGED <<said, answers, left, trail, unsure, artifacts, ran>>
<1>1. PICK outcome \in {verdict[r], "error"} :
        /\ Return(r, "recording", outcome)
        /\ \/ outcome = verdict[r] /\ Stored(r, verdict[r])
           \/ outcome = "error" /\ AppendRaises(r, verdict[r])
        /\ faults' \in 0 .. MaxFaults
  BY TurnConstants DEF TurnConstants, Record, Sound, Fault, TypeOK
<1>2. /\ r \in Audits /\ r \notin TeamTurns /\ pc[r] = "recording"
      /\ verdict' = [verdict EXCEPT ![r] = outcome]
      /\ \/ pc' = [pc EXCEPT ![r] = "ended"] /\ told' = [told EXCEPT ![r] = "refused"]
         \/ /\ \E to \in {"consulting", "prompting"} : pc' = [pc EXCEPT ![r] = to]
            /\ told' = told
  BY <1>1, ReturnGoes
<1>3. \/ /\ outcome = verdict[r]
         /\ record' = [record EXCEPT ![r] = verdict[r]] /\ recent' = recent \cup {r}
      \/ /\ outcome = "error"
         /\ \/ record' = record /\ recent' = recent
            \/ record' = [record EXCEPT ![r] = verdict[r]] /\ recent' = recent \cup {r}
  BY <1>1 DEF Stored, AppendRaises, NotStored, Unverified, ledgerVars
<1>4. outcome = verdict[r] => verdict' = verdict
  BY <1>2 DEF TypeOK
<1>5. verdict[r] \in Statuses /\ record[r] = "none" /\ r \in said
  BY <1>2 DEF Sane, Evident, Threaded
<1>6. UNCHANGED <<said, answers, left, trail, unsure, artifacts, ran>>
  BY DEF Record, turnVars
<1>7. QED
  BY <1>1, <1>2, <1>3, <1>4, <1>5, <1>6

LEMMA RecordKeeps ==
  ASSUME NEW r \in Requests, TypeOK, Sane(r), Record(r)
  PROVE  TypeOK' /\ Sane(r)' /\ (\A q \in Requests : q # r => Same(q))
<1>1. /\ r \in Audits /\ r \notin TeamTurns /\ pc[r] = "recording"
      /\ verdict[r] \in Statuses /\ record[r] = "none" /\ r \in said
  BY RecordEffect
<1>2. \/ /\ record' = [record EXCEPT ![r] = verdict[r]]
         /\ recent' = recent \cup {r} /\ verdict' = verdict
      \/ /\ \/ record' = record /\ recent' = recent
            \/ record' = [record EXCEPT ![r] = verdict[r]] /\ recent' = recent \cup {r}
         /\ verdict' = [verdict EXCEPT ![r] = "error"]
  BY RecordEffect
<1>3. \/ pc' = [pc EXCEPT ![r] = "ended"] /\ told' = [told EXCEPT ![r] = "refused"]
      \/ /\ \E to \in {"consulting", "prompting"} : pc' = [pc EXCEPT ![r] = to]
         /\ told' = told
  BY RecordEffect
<1>4. faults' \in 0 .. MaxFaults /\ UNCHANGED <<said, answers, left, trail, unsure, artifacts, ran>>
  BY RecordEffect
<1>5. TypeOK'
  <2>1. LedgerTypeOK'
    BY <1>1, <1>2 DEF TypeOK, LedgerTypeOK, Statuses
  <2>2. verdict' \in [Requests -> Statuses \cup {"none", "error"}]
    BY <1>1, <1>2 DEF TypeOK
  <2>3. pc' \in [Requests -> Steps] /\ told' \in [Requests -> Ends]
    BY <1>3 DEF TypeOK, Steps, Ends
  <2>4. QED
    BY <1>4, <2>1, <2>2, <2>3 DEF TypeOK
<1>6. \/ /\ record'[r] = verdict[r] /\ verdict'[r] = verdict[r]
      \/ verdict'[r] = "error" /\ record'[r] \in {"none", verdict[r]}
  BY <1>1, <1>2 DEF TypeOK, LedgerTypeOK
<1>7. \/ pc'[r] = "ended" /\ told'[r] = "refused"
      \/ pc'[r] \in {"consulting", "prompting"} /\ told'[r] = told[r]
  BY <1>3 DEF TypeOK
<1>8. Threaded(r)' /\ Audited(r)'
  BY <1>1, <1>4, <1>7 DEF Sane, Threaded, Audited
<1>9. Evident(r)'
  BY <1>1, <1>4, <1>6, <1>7 DEF Evident, Sane, Threaded, Statuses
<1>10. \A q \in Requests : q # r => Same(q)
  BY <1>2, <1>3, <1>4 DEF TypeOK, LedgerTypeOK, Same
<1>11. QED
  BY <1>5, <1>8, <1>9, <1>10 DEF Sane

(***************************************************************************)
(* Direct and team turns                                                   *)
(***************************************************************************)

(* The preparation of a prompt stores nothing.                             *)
LEMMA DirectKeeps ==
  ASSUME NEW r \in Requests, TypeOK, Sane(r),
         Fetch(r) \/ Consult(r) \/ Prompt(r) \/ ModelFails(r)
  PROVE  TypeOK' /\ Sane(r)' /\ (\A q \in Requests : q # r => Same(q))
<1> USE TurnConstants DEF TurnConstants, turnVars, auditVars
<1>1. /\ faults' \in 0 .. MaxFaults
      /\ UNCHANGED <<said, answers, left, trail, unsure, artifacts, record, recent, ran, verdict>>
  BY DEF Fetch, Consult, Prepare, Prompt, ModelFails, Sound, Fault, TypeOK
<1>2. /\ pc[r] \in {"asking", "consulting", "prompting", "generating"}
      /\ \/ /\ pc' = [pc EXCEPT ![r] = "ended"]
            /\ told' \in {[told EXCEPT ![r] = "refused"], [told EXCEPT ![r] = "failed"]}
         \/ /\ pc[r] # "generating" /\ told' = told
            /\ \E to \in {"consulting", "prompting", "generating"} :
                 /\ pc' = [pc EXCEPT ![r] = to]
                 /\ to = "generating" => verdict[r] \in {"none", "completed"} /\ pc[r] = "prompting"
  BY DEF Fetch, Consult, Prepare, Prompt, ModelFails, Prepared, End, Goto, Failed
<1>3. r \notin TeamTurns
  BY <1>2 DEF Sane, Audited
<1>4. TypeOK'
  BY <1>1, <1>2 DEF TypeOK, LedgerTypeOK, Steps, Ends
<1>5. Threaded(r)' /\ Audited(r)'
  BY <1>1, <1>2, <1>3 DEF TypeOK, Sane, Threaded, Audited
<1>6. Evident(r)'
  BY <1>1, <1>2, <1>3 DEF TypeOK, Sane, Threaded, Evident, Statuses
<1>7. \A q \in Requests : q # r => Same(q)
  BY <1>1, <1>2 DEF TypeOK, Same
<1>8. QED
  BY <1>4, <1>5, <1>6, <1>7 DEF Sane

(* An answer becomes durable as the turn goes to its close, or with a      *)
(* commit that is reported lost.                                           *)
LEMMA FinalKeeps ==
  ASSUME NEW r \in Requests, TypeOK, Sane(r), Answer(r) \/ Synthesize(r)
  PROVE  TypeOK' /\ Sane(r)' /\ (\A q \in Requests : q # r => Same(q))
<1> USE TurnConstants DEF TurnConstants, auditVars
<1>1. /\ faults' \in 0 .. MaxFaults
      /\ UNCHANGED <<said, left, artifacts, record, recent, ran, verdict>>
  BY DEF Answer, Synthesize, PersistFinal, Sound, Fault, TypeOK
<1>2. pc[r] = IF r \in TeamTurns THEN "synthesizing" ELSE "generating"
  BY DEF Answer, Synthesize, PersistFinal, End, Goto, Sane, Audited
<1>3. \/ /\ pc' = [pc EXCEPT ![r] = "closing"] /\ told' = told
         /\ answers' = answers \cup {<<r, Owner>>}
         /\ UNCHANGED <<trail, unsure>>
      \/ /\ pc' = [pc EXCEPT ![r] = "ended"]
         /\ told' \in {[told EXCEPT ![r] = "failed"], [told EXCEPT ![r] = "refused"]}
         /\ \/ UNCHANGED <<answers, unsure>>
            \/ answers' = answers \cup {<<r, Owner>>} /\ unsure' = unsure \cup {r}
         /\ trail' = [trail EXCEPT ![r] = @ \cup IF r \in TeamTurns THEN {"failed"} ELSE {}]
  BY DEF Answer, Synthesize, PersistFinal, End, Goto, Failed
<1>4. TypeOK'
  <2>1. trail' \in [Requests -> SUBSET {"success", "failed", "cancelled"}]
    BY <1>3 DEF TypeOK
  <2>2. pc' \in [Requests -> Steps] /\ told' \in [Requests -> Ends]
    BY <1>3 DEF TypeOK, Steps, Ends
  <2>3. answers' \subseteq Requests \X (Members \cup {Owner}) /\ unsure' \subseteq Requests
    BY <1>3 DEF TypeOK
  <2>4. QED
    BY <1>1, <2>1, <2>2, <2>3 DEF TypeOK, LedgerTypeOK
<1>5. r \in said /\ told[r] = "none" /\ r \notin artifacts
  BY <1>2 DEF Sane, Threaded
<1>6. Threaded(r)'
  BY <1>1, <1>2, <1>3, <1>5 DEF TypeOK, Sane, Threaded
<1>7. Contributors(r)' = Contributors(r)
  BY <1>3 DEF Contributors
<1>8. Audited(r)'
  BY <1>2, <1>3, <1>5, <1>7 DEF TypeOK, Sane, Audited
<1>9. Evident(r)'
  BY <1>1, <1>2, <1>3, <1>5 DEF TypeOK, Sane, Evident
<1>10. \A q \in Requests : q # r => Same(q)
  BY <1>1, <1>3 DEF TypeOK, Same
<1>11. QED
  BY <1>4, <1>6, <1>8, <1>9, <1>10 DEF Sane

(* A contribution, stored or not, does not touch the final answer.         *)
LEMMA ContributeKeeps ==
  ASSUME NEW r \in Requests, TypeOK, Sane(r), Contribute(r)
  PROVE  TypeOK' /\ Sane(r)' /\ (\A q \in Requests : q # r => Same(q))
<1> USE TurnConstants DEF TurnConstants, auditVars
<1>1. PICK m \in left[r] :
        /\ pc[r] = "contributing" /\ faults' \in 0 .. MaxFaults
        /\ answers' \in {answers, answers \cup {<<r, m>>}}
        /\ UNCHANGED <<said, unsure, artifacts, record, recent, ran, verdict>>
        /\ \/ pc' = pc /\ told' = told /\ left' = [left EXCEPT ![r] = @ \ {m}] /\ trail' = trail
           \/ /\ pc' = [pc EXCEPT ![r] = "ended"] /\ told' = [told EXCEPT ![r] = "failed"]
              /\ left' = left /\ trail' = [trail EXCEPT ![r] = @ \cup {"failed"}]
  BY DEF Contribute, Goto, End, Sound, Fault, TypeOK
<1>2. m \in Members /\ m # Owner /\ r \in TeamTurns /\ r \notin Audits
  BY <1>1 DEF TypeOK, Sane, Audited
<1>3. TypeOK'
  <2>1. /\ pc' \in [Requests -> Steps] /\ told' \in [Requests -> Ends]
        /\ left' \in [Requests -> SUBSET Members]
    BY <1>1 DEF TypeOK, Steps, Ends
  <2>2. trail' \in [Requests -> SUBSET {"success", "failed", "cancelled"}]
    BY <1>1 DEF TypeOK
  <2>3. answers' \subseteq Requests \X (Members \cup {Owner})
    BY <1>1, <1>2 DEF TypeOK
  <2>4. QED
    BY <1>1, <2>1, <2>2, <2>3 DEF TypeOK, LedgerTypeOK
<1>4. <<r, Owner>> \in answers' <=> <<r, Owner>> \in answers
  BY <1>1, <1>2
<1>5. Threaded(r)'
  BY <1>1, <1>4 DEF TypeOK, Sane, Threaded
<1>6. Audited(r)'
  BY <1>1, <1>2 DEF TypeOK, Sane, Audited, Threaded
<1>7. Evident(r)'
  BY <1>1, <1>2 DEF TypeOK, Evident
<1>8. \A q \in Requests : q # r => Same(q)
  BY <1>1 DEF TypeOK, Same
<1>9. QED
  BY <1>3, <1>5, <1>6, <1>7, <1>8 DEF Sane

(* The other steps of a turn that has something to answer with.            *)
LEMMA TailKeeps ==
  ASSUME NEW r \in Requests, TypeOK, Sane(r),
         Consolidate(r) \/ SynthesisFails(r) \/ Attach(r) \/ Close(r) \/ Cut(r) \/ Leave(r)
  PROVE  TypeOK' /\ Sane(r)' /\ (\A q \in Requests : q # r => Same(q))
<1> USE TurnConstants DEF TurnConstants, auditVars, turnVars
<1>1. /\ faults' \in 0 .. MaxFaults
      /\ UNCHANGED <<said, answers, left, unsure, record, recent, ran, verdict>>
      /\ pc[r] \in {"generating", "contributing", "synthesizing", "closing"}
      /\ artifacts' = artifacts \/ (Attach(r) /\ artifacts' = artifacts \cup {r})
  BY DEF Consolidate, Contributed, SynthesisFails, Attach, Close, Cut, Leave, Goto, End, Fault, TypeOK
<1>2. \E to \in Steps : pc' = [pc EXCEPT ![r] = to]
  BY DEF Consolidate, Contributed, SynthesisFails, Attach, Close, Cut, Leave, Goto, End, Steps
<1>3. \E end \in Ends : told' \in {told, [told EXCEPT ![r] = end]}
  BY DEF Consolidate, Contributed, SynthesisFails, Attach, Close, Cut, Leave, Goto, End, Ends
<1>4. \E S \in SUBSET {"success", "failed", "cancelled"} :
        trail' \in {trail, [trail EXCEPT ![r] = @ \cup S]}
  <2>1. CASE Consolidate(r) \/ SynthesisFails(r)
    BY <2>1 DEF Consolidate, Contributed, SynthesisFails
  <2>2. CASE Attach(r) \/ Close(r)
    BY <2>2 DEF Attach, Close
  <2>3. CASE Cut(r) \/ Leave(r)
    BY <2>3 DEF Cut, Leave
  <2>4. QED
    BY <2>1, <2>2, <2>3
<1>5. TypeOK'
  <2>1. pc' \in [Requests -> Steps] /\ told' \in [Requests -> Ends]
    BY <1>2, <1>3 DEF TypeOK
  <2>2. trail' \in [Requests -> SUBSET {"success", "failed", "cancelled"}]
    <3>1. PICK S \in SUBSET {"success", "failed", "cancelled"} :
            trail' \in {trail, [trail EXCEPT ![r] = @ \cup S]}
      BY <1>4
    <3>2. trail[r] \cup S \in SUBSET {"success", "failed", "cancelled"}
      BY DEF TypeOK
    <3>3. QED
      BY <3>1, <3>2 DEF TypeOK
  <2>3. artifacts' \subseteq StreamTurns
    BY <1>1 DEF TypeOK, Attach
  <2>4. QED
    BY <1>1, <2>1, <2>2, <2>3 DEF TypeOK, LedgerTypeOK
<1>6. \A q \in Requests : q # r => Same(q)
  BY <1>1, <1>2, <1>3, <1>4 DEF TypeOK, Same
<1>7. Contributors(r)' = Contributors(r)
  BY <1>1 DEF Contributors
<1>8. r \in said /\ told[r] = "none"
  BY <1>1 DEF Sane, Threaded
<1>9. r \in TeamTurns => trail[r] = {}
  BY <1>1 DEF Sane, Audited
<1>10. CASE Consolidate(r) \/ SynthesisFails(r)
  <2>1. r \in TeamTurns /\ r \notin Audits /\ artifacts' = artifacts
    BY <1>10 DEF Consolidate, Contributed, SynthesisFails, Goto, End, Sane, Audited
  <2>2. \/ pc'[r] = "ended" /\ told'[r] = "failed" /\ trail'[r] = {"failed"}
        \/ pc'[r] = "synthesizing" /\ told'[r] = "none" /\ trail'[r] = {} /\ Contributors(r) # {}
    BY <1>8, <1>9, <1>10, <2>1 DEF Consolidate, Contributed, SynthesisFails, Goto, End, TypeOK
  <2>3. <<r, Owner>> \in answers => r \in unsure
    BY <1>8, <1>10 DEF Consolidate, Contributed, SynthesisFails, Goto, End, Sane, Threaded
  <2>4. Threaded(r)'
    BY <1>1, <1>8, <2>1, <2>2, <2>3 DEF Threaded, Sane
  <2>5. Audited(r)'
    BY <1>7, <2>1, <2>2 DEF Audited
  <2>6. Evident(r)'
    BY <2>1, <2>2 DEF Evident
  <2>7. QED
    BY <1>5, <1>6, <2>4, <2>5, <2>6 DEF Sane
<1>11. CASE Attach(r)
  <2>1. /\ pc' = pc /\ told' = told /\ trail' = trail /\ pc[r] = "closing" /\ r \in StreamTurns
        /\ r \notin TeamTurns /\ artifacts' = artifacts \cup {r}
    BY <1>11 DEF Attach, Goto, TypeOK
  <2>2. Threaded(r)'
    BY <1>1, <2>1 DEF Threaded, Sane
  <2>3. Audited(r)' /\ Evident(r)'
    BY <1>1, <2>1 DEF Audited, Evident, Sane
  <2>4. QED
    BY <1>5, <1>6, <2>2, <2>3 DEF Sane
<1>12. CASE Close(r)
  <2>1. /\ pc[r] = "closing" /\ pc'[r] = "ended" /\ told'[r] = "completed" /\ artifacts' = artifacts
        /\ r \in TeamTurns => trail'[r] = {"success"}
    BY <1>9, <1>12 DEF Close, End, TypeOK
  <2>2. Threaded(r)'
    BY <1>1, <2>1 DEF Threaded, Sane
  <2>3. Audited(r)'
    BY <1>7, <2>1 DEF Audited, Sane
  <2>4. Evident(r)'
    BY <1>1, <2>1 DEF Evident, Sane
  <2>5. QED
    BY <1>5, <1>6, <2>2, <2>3, <2>4 DEF Sane
<1>13. CASE Cut(r)
  <2>1. /\ r \in TeamTurns /\ r \notin Audits /\ r \notin StreamTurns
        /\ pc'[r] = "ended" /\ told'[r] = "cut" /\ artifacts' = artifacts
    BY <1>13 DEF Cut, End, TypeOK
  <2>2. Threaded(r)'
    BY <1>1, <1>8, <2>1 DEF Threaded, Sane
  <2>3. Audited(r)' /\ Evident(r)'
    BY <2>1 DEF Audited, Evident
  <2>4. QED
    BY <1>5, <1>6, <2>2, <2>3 DEF Sane
<1>14. CASE Leave(r)
  <2>1. pc'[r] = "gone" /\ told'[r] = "none" /\ artifacts' = artifacts
    BY <1>8, <1>14 DEF Leave, Goto, TypeOK
  <2>2. Threaded(r)'
    BY <1>1, <1>8, <2>1 DEF Threaded, Sane
  <2>3. Audited(r)' /\ Evident(r)'
    BY <1>1, <1>7, <2>1 DEF Audited, Evident, Sane
  <2>4. QED
    BY <1>5, <1>6, <2>2, <2>3 DEF Sane
<1>15. QED
  BY <1>10, <1>11, <1>12, <1>13, <1>14

(* The steps of one request.                                               *)
Step(r) ==
  Refuse(r) \/ NotConfigured(r) \/ Ask(r) \/ AskTeam(r) \/ Proceed(r) \/ Cut(r) \/ Leave(r)

LEMMA StepKeepsSane ==
  ASSUME NEW r \in Requests, TypeOK, Sane(r), Step(r)
  PROVE  TypeOK' /\ Sane(r)' /\ (\A q \in Requests : q # r => Same(q))
<1>1. CASE Refuse(r) \/ NotConfigured(r) \/ Ask(r) \/ AskTeam(r)
  BY <1>1, BeginKeeps
<1>2. CASE Invoke(r)
  BY <1>2, RefuseDirectiveKeeps, DecideKeeps, RecordKeeps DEF Invoke
<1>3. CASE Direct(r)
  BY <1>3, DirectKeeps, FinalKeeps DEF Direct
<1>4. CASE Team(r)
  BY <1>4, ContributeKeeps, TailKeeps, FinalKeeps DEF Team
<1>5. CASE Attach(r) \/ Close(r) \/ Cut(r) \/ Leave(r)
  BY <1>5, TailKeeps
<1>6. QED
  BY <1>1, <1>2, <1>3, <1>4, <1>5 DEF Step, Proceed

(* A process that dies leaves its requests where they were.                *)
LEMMA DieKeepsSane ==
  ASSUME NEW p \in Procs, TypeOK, \A r \in Requests : Sane(r), Die(p)
  PROVE  TypeOK' /\ \A r \in Requests : Sane(r)'
<1>1. /\ faults' \in 0 .. MaxFaults
      /\ UNCHANGED <<said, answers, left, trail, unsure, artifacts, record, recent, ran, verdict, told>>
      /\ \A r \in Requests :
           \/ pc'[r] = pc[r]
           \/ pc[r] \notin {"idle", "ended", "gone"} /\ pc'[r] = "gone"
  BY TurnConstants DEF TurnConstants, Die, Fault, TypeOK, Active, turnVars, auditVars
<1>2. TypeOK'
  BY <1>1 DEF TypeOK, LedgerTypeOK, Die, Steps
<1>3. ASSUME NEW r \in Requests, pc[r] \notin {"idle", "ended", "gone"}, pc'[r] = "gone"
      PROVE  Sane(r)'
  <2>1. Threaded(r)'
    BY <1>1, <1>3 DEF Sane, Threaded
  <2>2. Contributors(r)' = Contributors(r) /\ told[r] = "none"
    BY <1>1, <1>3 DEF Contributors, Sane, Threaded
  <2>3. Audited(r)' /\ Evident(r)'
    BY <1>1, <1>3, <2>2 DEF Sane, Audited, Evident
  <2>4. QED
    BY <2>1, <2>3 DEF Sane
<1>4. ASSUME NEW r \in Requests, pc'[r] = pc[r] PROVE Sane(r)'
  BY <1>1, <1>4, SameKeeps DEF Same
<1>5. QED
  BY <1>1, <1>2, <1>3, <1>4

(***************************************************************************)
(* The limit                                                               *)
(***************************************************************************)

(* What counts only becomes less unless an operation runs.                 *)
LEMMA LessKeepsRated ==
  ASSUME Rated, recent' \subseteq recent, Load' \subseteq Load,
         \A q \in Requests : Inside(q)' => Inside(q)
  PROVE  Rated'
<1>1. IsFiniteSet(recent') /\ IsFiniteSet(Load') /\ Cardinality(Load') <= Cardinality(Load)
  BY FS_Subset DEF Rated
<1>2. Cardinality(Load') \in Nat /\ Cardinality(Load) \in Nat /\ Cardinality(Procs) \in Nat
  BY <1>1, FS_CardinalityType, TurnConstants DEF Rated, TurnConstants
<1>3. Cardinality(Load') < UserLimit + Cardinality(Procs)
  BY <1>1, <1>2, LimitConstants DEF Rated, LimitConstants
<1>4. QED
  BY <1>1, <1>3 DEF Rated

(* A request enters the invocation when nobody of its process is inside.   *)
LEMMA EnterKeepsRated ==
  ASSUME NEW r \in Requests, TypeOK, Rated, Ask(r)
  PROVE  Rated'
<1>1. /\ recent' = recent /\ ran' = ran /\ pc[r] = "idle"
      /\ \E to \in {"auditing", "asking", "ended"} : pc' = [pc EXCEPT ![r] = to]
      /\ \A q \in Requests : q # r /\ Server[q] = Server[r] => ~Inside(q)
  BY DEF Ask, Goto, End, Turnable, Inside, auditVars
<1>2. \A q \in Requests : q # r => pc'[q] = pc[q]
  BY <1>1 DEF TypeOK
<1>3. pc'[r] \in {"auditing", "asking", "ended"}
  BY <1>1 DEF TypeOK
<1>4. Pending' = Pending
  BY <1>1, <1>2, <1>3 DEF Pending
<1>5. Load' = Load
  BY <1>1, <1>4 DEF Load
<1>6. \A q, s \in Requests : Inside(q)' /\ Inside(s)' /\ Server[q] = Server[s] => q = s
  BY <1>1, <1>2 DEF Inside, Rated
<1>7. QED
  BY <1>1, <1>5, <1>6 DEF Rated

(* One operation for each process is pending at most.                      *)
LEMMA PendingBounded ==
  ASSUME NEW S \in SUBSET Requests,
         \A q, r \in S : Server[q] = Server[r] => q = r
  PROVE  IsFiniteSet(S) /\ Cardinality(S) <= Cardinality(Procs)
<1> DEFINE f == [r \in S |-> Server[r]]
<1>1. f \in [S -> Procs]
  BY TurnConstants DEF TurnConstants
<1>2. \A q, r \in S : f[q] = f[r] => q = r
  OBVIOUS
<1>3. f \in Injection(S, Procs)
  BY <1>1, <1>2 DEF Injection, IsInjective
<1>4. QED
  BY <1>3, FS_Injection, TurnConstants DEF TurnConstants

(* An operation runs only below the limit.                                 *)
LEMMA DecideKeepsRated ==
  ASSUME NEW r \in Requests, TypeOK, Sane(r), Rated, Decide(r)
  PROVE  Rated'
<1>1. /\ r \notin ran /\ pc[r] = "auditing" /\ pc' = [pc EXCEPT ![r] = "recording"]
      /\ recent' = recent
      /\ ran' = ran \/ (ran' = ran \cup {r} /\ UnderLimit)
  BY DecideEffect
<1>2. \A q \in Requests : pc'[q] = IF q = r THEN "recording" ELSE pc[q]
  BY <1>1 DEF TypeOK
<1>3. \A q \in Requests : Inside(q)' => Inside(q)
  BY <1>1, <1>2 DEF Inside
<1>4. CASE ran' = ran
  <2>1. Pending' = Pending
    BY <1>1, <1>2, <1>4 DEF Pending
  <2>2. Load' = Load
    BY <1>1, <1>4, <2>1 DEF Load
  <2>3. QED
    BY <1>1, <1>3, <2>2, LessKeepsRated
<1>5. CASE ran' = ran \cup {r} /\ UnderLimit
  <2>1. \A q, s \in Pending' : Server[q] = Server[s] => q = s
    BY <1>3 DEF Pending, Inside, Rated
  <2>2. Pending' \in SUBSET Requests
    BY DEF Pending
  <2>3. IsFiniteSet(Pending') /\ Cardinality(Pending') <= Cardinality(Procs)
    BY <2>1, <2>2, PendingBounded
  <2>4. /\ IsFiniteSet(recent \cap ran')
        /\ Cardinality(recent \cap ran') <= Cardinality(recent)
    BY FS_Subset DEF Rated
  <2>5. Load' = (recent \cap ran') \cup Pending'
    BY <1>1 DEF Load
  <2>6. /\ IsFiniteSet(Load')
        /\ Cardinality(Load') =
             Cardinality(recent \cap ran') + Cardinality(Pending')
               - Cardinality((recent \cap ran') \cap Pending')
    BY <2>3, <2>4, <2>5, FS_Union
  <2>7. IsFiniteSet((recent \cap ran') \cap Pending')
    BY <2>3, FS_Subset
  <2>8. /\ Cardinality(recent) \in Nat /\ Cardinality(recent \cap ran') \in Nat
        /\ Cardinality(Pending') \in Nat /\ Cardinality(Procs) \in Nat
        /\ Cardinality((recent \cap ran') \cap Pending') \in Nat
    BY <2>3, <2>4, <2>7, FS_CardinalityType, TurnConstants DEF Rated, TurnConstants
  <2>9. Cardinality(recent) < UserLimit
    BY <1>5 DEF UnderLimit
  <2>10. Cardinality(Load') < UserLimit + Cardinality(Procs)
    BY <2>3, <2>4, <2>6, <2>8, <2>9, LimitConstants DEF LimitConstants
  <2>11. QED
    BY <1>1, <1>3, <2>6, <2>10 DEF Rated
<1>6. QED
  BY <1>1, <1>4, <1>5

(* The record of an operation takes the place of the operation.            *)
LEMMA RecordKeepsRated ==
  ASSUME NEW r \in Requests, TypeOK, Sane(r), Rated, Record(r)
  PROVE  Rated'
<1>1. pc[r] = "recording" /\ recent' \in {recent, recent \cup {r}} /\ ran' = ran
  BY RecordEffect
<1>2. \E to \in {"ended", "consulting", "prompting"} : pc' = [pc EXCEPT ![r] = to]
  BY RecordEffect
<1>3. /\ \A q \in Requests : q # r => pc'[q] = pc[q]
      /\ pc'[r] \in {"ended", "consulting", "prompting"}
  BY <1>2 DEF TypeOK
<1>4. Pending' \subseteq Pending
  BY <1>1, <1>3 DEF Pending
<1>5. recent' \cap ran \subseteq (recent \cap ran) \cup Pending
  BY <1>1 DEF Pending
<1>6. Load' \subseteq Load
  BY <1>1, <1>4, <1>5 DEF Load
<1>7. \A q \in Requests : Inside(q)' => Inside(q)
  BY <1>3 DEF Inside
<1>8. IsFiniteSet(recent')
  BY <1>1, FS_AddElement DEF Rated
<1>9. IsFiniteSet(Load') /\ Cardinality(Load') <= Cardinality(Load)
  BY <1>6, FS_Subset DEF Rated
<1>10. Cardinality(Load') \in Nat /\ Cardinality(Load) \in Nat /\ Cardinality(Procs) \in Nat
  BY <1>9, FS_CardinalityType, TurnConstants DEF Rated, TurnConstants
<1>11. Cardinality(Load') < UserLimit + Cardinality(Procs)
  BY <1>9, <1>10, LimitConstants DEF Rated, LimitConstants
<1>12. QED
  BY <1>7, <1>8, <1>9, <1>11 DEF Rated

(* Every other step of a request neither enters nor records.               *)
LEMMA StepKeepsRated ==
  ASSUME NEW r \in Requests, TypeOK, Sane(r), Rated, Step(r)
  PROVE  Rated'
<1>1. CASE Ask(r)
  BY <1>1, EnterKeepsRated
<1>2. CASE Decide(r)
  BY <1>2, DecideKeepsRated
<1>3. CASE Record(r)
  BY <1>3, RecordKeepsRated
<1>4. ASSUME UNCHANGED <<recent, ran>>,
             \E to \in Steps \ {"auditing", "recording"} : pc' = [pc EXCEPT ![r] = to]
      PROVE  Rated'
  <2>1. \A q \in Requests : pc'[q] # pc[q] => pc'[q] \notin {"auditing", "recording"}
    BY <1>4 DEF TypeOK
  <2>2. Pending' \subseteq Pending
    BY <1>4, <2>1 DEF Pending
  <2>3. Load' \subseteq Load
    BY <1>4, <2>2 DEF Load
  <2>4. \A q \in Requests : Inside(q)' => Inside(q)
    BY <2>1 DEF Inside
  <2>5. QED
    BY <1>4, <2>3, <2>4, LessKeepsRated
<1>5. CASE Refuse(r) \/ NotConfigured(r) \/ AskTeam(r)
  BY <1>4, <1>5 DEF Refuse, NotConfigured, AskTeam, End, Goto, auditVars, Steps
<1>6. CASE RefuseDirective(r)
  <2>1. \/ pc' = [pc EXCEPT ![r] = "ended"]
        \/ \E to \in {"consulting", "prompting"} : pc' = [pc EXCEPT ![r] = to]
    BY <1>6, ReturnGoes DEF RefuseDirective
  <2>2. QED
    BY <1>4, <1>6, <2>1 DEF RefuseDirective, Steps
<1>7. CASE Direct(r)
  BY <1>4, <1>7 DEF Direct, Fetch, Consult, Prepare, Prompt, ModelFails, Answer, PersistFinal, Prepared,
                    End, Goto, auditVars, Steps
<1>8. CASE Team(r)
  <2>1. CASE Contribute(r)
    BY <1>4, <2>1 DEF Contribute, End, Goto, auditVars, Steps
  <2>2. CASE Consolidate(r) \/ SynthesisFails(r) \/ Synthesize(r)
    BY <1>4, <2>2 DEF Consolidate, Contributed, SynthesisFails, Synthesize, PersistFinal, End, Goto,
                      auditVars, Steps
  <2>3. QED
    BY <1>8, <2>1, <2>2 DEF Team
<1>9. CASE Attach(r) \/ Close(r) \/ Cut(r) \/ Leave(r)
  BY <1>4, <1>9 DEF Attach, Close, Cut, Leave, End, Goto, auditVars, Steps
<1>10. QED
  BY <1>1, <1>2, <1>3, <1>5, <1>6, <1>7, <1>8, <1>9 DEF Step, Proceed, Invoke

(* A death, the passing of time and a stutter.                             *)
LEMMA RestKeepsRated ==
  ASSUME TypeOK, Rated, (\E p \in Procs : Die(p)) \/ Window \/ UNCHANGED vars
  PROVE  Rated'
<1>1. ran' = ran /\ recent' \subseteq recent
  BY DEF Die, Window, Age, vars, auditVars
<1>2. \A q \in Requests : pc'[q] # pc[q] => pc'[q] = "gone"
  BY DEF Die, Window, vars
<1>3. Pending' \subseteq Pending
  BY <1>1, <1>2 DEF Pending
<1>4. Load' \subseteq Load
  BY <1>1, <1>3 DEF Load
<1>5. \A q \in Requests : Inside(q)' => Inside(q)
  BY <1>2 DEF Inside
<1>6. QED
  BY <1>1, <1>4, <1>5, LessKeepsRated

(***************************************************************************)
(* Every step                                                              *)
(***************************************************************************)

LEMMA StepKeeps == IInv /\ [Next]_vars => IInv'
<1> SUFFICES ASSUME IInv, [Next]_vars PROVE IInv'
  OBVIOUS
<1>0. TypeOK /\ Rated /\ \A q \in Requests : Sane(q)
  BY DEF IInv
<1>1. ASSUME NEW r \in Requests, Step(r) PROVE IInv'
  <2>1. TypeOK' /\ Sane(r)' /\ (\A q \in Requests : q # r => Same(q))
    BY <1>0, <1>1, StepKeepsSane
  <2>2. \A q \in Requests : q # r => Sane(q)'
    BY <1>0, <2>1, SameKeeps
  <2>3. Rated'
    BY <1>0, <1>1, StepKeepsRated
  <2>4. QED
    BY <2>1, <2>2, <2>3 DEF IInv
<1>2. ASSUME NEW p \in Procs, Die(p) PROVE IInv'
  BY <1>0, <1>2, DieKeepsSane, RestKeepsRated DEF IInv
<1>3. CASE Window \/ UNCHANGED vars
  <2>1. TypeOK'
    BY <1>0, <1>3 DEF TypeOK, LedgerTypeOK, Window, Age, vars, turnVars, auditVars
  <2>2. \A q \in Requests : Same(q)
    BY <1>3 DEF Same, Window, Age, vars, turnVars, auditVars
  <2>3. \A q \in Requests : Sane(q)'
    BY <1>0, <2>2, SameKeeps
  <2>4. QED
    BY <1>0, <1>3, <2>1, <2>3, RestKeepsRated DEF IInv
<1>4. QED
  BY <1>1, <1>2, <1>3 DEF Next, Step

(* The invariant holds in every reachable state.                           *)
THEOREM InvariantHolds == Spec => []IInv
BY InitEstablishes, StepKeeps, PTL DEF Spec

(* Every variable keeps its type.                                          *)
THEOREM TypeCorrect == Spec => []TypeOK
<1>1. IInv => TypeOK
  BY DEF IInv
<1>2. QED
  BY <1>1, InvariantHolds, PTL

(* What the client of a turn is told is what the thread and the audit      *)
(* trail say of it, whichever commits fail or are reported lost.           *)
THEOREM DoneHolds == Spec => []DoneIsTrue
<1>1. IInv => DoneIsTrue
  BY DEF IInv, Sane, Threaded, Audited, DoneIsTrue
<1>2. QED
  BY <1>1, InvariantHolds, PTL

(* The evidence a prompt is built with, and an error refers to, is in the  *)
(* ledger, and no operation ran without a record or a failure told.        *)
THEOREM EvidenceHolds == Spec => []EvidenceStands
<1>1. IInv => EvidenceStands
  BY TurnConstants DEF TurnConstants, IInv, Sane, Evident, EvidenceStands
<1>2. QED
  BY <1>1, InvariantHolds, PTL

(* However the invocations of a user overlap, the operations that ran in   *)
(* the window exceed the limit by less than the number of processes.       *)
THEOREM RateHolds == Spec => []RateBound
<1>1. IInv => RateBound
  <2>1. SUFFICES ASSUME IInv PROVE RateBound
    OBVIOUS
  <2>2. IsFiniteSet(Load) /\ Cardinality(Load) < UserLimit + Cardinality(Procs)
    BY <2>1 DEF IInv, Rated
  <2>3. recent \cap ran \subseteq Load
    BY DEF Load
  <2>4. IsFiniteSet(recent \cap ran) /\ Cardinality(recent \cap ran) <= Cardinality(Load)
    BY <2>2, <2>3, FS_Subset
  <2>5. /\ Cardinality(recent \cap ran) \in Nat /\ Cardinality(Load) \in Nat
        /\ Cardinality(Procs) \in Nat
    BY <2>2, <2>4, FS_CardinalityType, TurnConstants DEF TurnConstants
  <2>6. QED
    BY <2>2, <2>4, <2>5, LimitConstants DEF LimitConstants, RateBound
<1>2. QED
  BY <1>1, InvariantHolds, PTL
================================================================================
