---------------------------- MODULE RealtimeSpeech ----------------------------
(***************************************************************************)
(* Realtime sessions and the speech of streamed turns, around the turns of *)
(* RealtimeTurn: realtime_call, _session_intent,                           *)
(* _enforce_realtime_segment_limits and the loop of realtime_stream_turn   *)
(* (src/src/orkio_v2/realtime_routes.py) over stream_realtime_direct       *)
(* (services/realtime_execution.py).                                       *)
(*                                                                         *)
(* A session is two audit rows, one before and one after the call to the   *)
(* provider; both endpoints refuse a turn of a session that lacks one.     *)
(* While its model answers, a stream speaks one segment after the other;   *)
(* before each it counts the rows of the last minute and inserts one.      *)
(* Between the two it does not await, so that only another process can     *)
(* come in between.  The limit here is that of one user.                   *)
(***************************************************************************)
EXTENDS RealtimeTurn

CONSTANTS
  Sessions, SessionOf,  \* the session of a turn
  UserLimit,            \* tts_user_rate_limit_per_minute
  MaxSegments           \* _REALTIME_STREAM_MAX_SEGMENTS

ASSUME SpeechConstants ==
  /\ SessionOf \in [Turns -> Sessions]
  /\ UserLimit \in Nat \ {0} /\ MaxSegments \in Nat \ {0}
  /\ IsFiniteSet(Processes)

VARIABLES
  session,
  speech,    \* what the stream of a request is doing with a segment
  segments,  \* segments_count
  minute     \* rows realtime_tts_segment of the last minute

speechVars == <<session, speech, segments, minute>>
allVars == <<vars, speechVars>>

SegmentsInit ==
  /\ speech = [r \in Requests |-> "none"]
  /\ segments = [r \in Requests |-> 0]
  /\ minute = {}

SpeechInit == SegmentsInit /\ session = [s \in Sessions |-> "none"]

(* realtime_call.  The route may end, or its process die, after either     *)
(* commit.                                                                 *)
SessionStep(s, from, to) ==
  /\ session[s] = from
  /\ session' = [session EXCEPT ![s] = to]
  /\ UNCHANGED <<vars, speech, segments, minute>>

Authorize(s) == SessionStep(s, "none", "authorized")

(* The voice is resolved, the provider answers, the second row commits.    *)
CreateCall(s) == SessionStep(s, "authorized", "created")

(* realtime_capability: realtime or its bridge is not configured.          *)
Ineligible(s) == SessionStep(s, "authorized", "failed")

(* The voice, the provider or the commit fails.                            *)
CallFails(s) == SessionStep(s, "authorized", "failed")

HasSession(r) == session[SessionOf[TurnOf[r]]] = "created"

(* No other request of the process is between its count and its insert.    *)
LoopFree(r) ==
  \A q \in Requests \ {r} : ProcessOf[q] = ProcessOf[r] => speech[q] # "counted"

(* A step of the turn.  A stream persists its answer after the last        *)
(* segment; however a request stops thinking, its speech ends with it.     *)
Turn(r, step) ==
  /\ step
  /\ LoopFree(r)
  /\ pc'[r] = "loaded" \/ pc'[r] = pc[r] => HasSession(r)
  /\ pc'[r] = "answered" => speech[r] = "none"
  /\ speech' = [speech EXCEPT ![r] = IF pc'[r] = "thinking" THEN @ ELSE "none"]
  /\ segments' = [segments EXCEPT ![r] = IF pc'[r] = "thinking" THEN @ ELSE 0]
  /\ UNCHANGED <<session, minute>>

(* Broken variant: the request that counts is not among the counted.       *)
UnderLimitInclusive == Cardinality(minute) <= UserLimit

UnderLimit == Cardinality(minute) < UserLimit

(* The text so far may hold a whole sentence at any point of the answer.   *)
Streaming(r) == Endpoint[r] = "stream" /\ pc[r] = "thinking" /\ speech[r] = "none"

SegmentReady(r) ==
  /\ Streaming(r)
  /\ \A q \in Requests \ {r} : ProcessOf[q] = ProcessOf[r] => ~KeepsLoop(q)
  /\ LoopFree(r)
  /\ segments[r] < MaxSegments
  /\ UnderLimit
  /\ speech' = [speech EXCEPT ![r] = "counted"]
  /\ segments' = [segments EXCEPT ![r] = @ + 1]
  /\ UNCHANGED <<vars, session, minute>>

SegmentAdmitted(r) ==
  /\ speech[r] = "counted"
  /\ speech' = [speech EXCEPT ![r] = "speaking"]
  /\ minute' = minute \cup {<<r, segments[r]>>}
  /\ UNCHANGED <<vars, session, segments>>

(* synthesize_speech answers.  If it fails, the turn gives up.             *)
SegmentSpoken(r) ==
  /\ speech[r] = "speaking"
  /\ \A q \in Requests \ {r} : ProcessOf[q] = ProcessOf[r] => ~KeepsLoop(q)
  /\ LoopFree(r)
  /\ speech' = [speech EXCEPT ![r] = "none"]
  /\ UNCHANGED <<vars, session, segments, minute>>

MinutePasses(row) ==
  /\ row \in minute
  /\ minute' = minute \ {row}
  /\ UNCHANGED <<vars, session, speech, segments>>

ServerDies(p) ==
  /\ Die(p)
  /\ speech' = [r \in Requests |-> IF ProcessOf[r] = p THEN "none" ELSE speech[r]]
  /\ segments' = [r \in Requests |-> IF ProcessOf[r] = p THEN 0 ELSE segments[r]]
  /\ UNCHANGED <<session, minute>>

Serve(r) ==
  \/ Turn(r, Proceed(r))
  \/ SegmentReady(r) \/ SegmentAdmitted(r) \/ SegmentSpoken(r)

SpeechNext ==
  \/ \E s \in Sessions : Authorize(s) \/ CreateCall(s) \/ Ineligible(s) \/ CallFails(s)
  \/ \E r \in Requests : Turn(r, Arrive(r) \/ Reconcile(r) \/ Vanish(r)) \/ Serve(r)
  \/ \E row \in minute : MinutePasses(row)
  \/ \E p \in Processes : ServerDies(p)

SpeechFairness == \A r \in Requests : SF_allVars(Serve(r))

SpeechSpec == Init /\ SpeechInit /\ [][SpeechNext]_allVars /\ SpeechFairness

-------------------------------------------------------------------------------

SpeechTypeOK ==
  /\ session \in [Sessions -> {"none", "authorized", "created", "failed"}]
  /\ speech \in [Requests -> {"none", "counted", "speaking"}]
  /\ segments \in [Requests -> 0 .. MaxSegments]
  /\ minute \subseteq Requests \X (1 .. MaxSegments)

(* The count and the insert of a segment are two statements: the segments  *)
(* of a minute pass the limit by at most one for each other process,       *)
(* however many streams a process runs.                                    *)
SegmentBound == Cardinality(minute) < UserLimit + Cardinality(Processes)
===============================================================================
