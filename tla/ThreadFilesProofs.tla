--------------------------- MODULE ThreadFilesProofs ---------------------------
(***************************************************************************)
(* Proofs about the files of a thread, one part per module:                *)
(*   - DocumentIntake: for any pastes, uploads and renders, what a thread  *)
(*     lists has the bytes and the companion that it promises;             *)
(*   - DocumentContext: what a prompt says of the attachments is true;     *)
(*   - AgentVoice: for any drafts, agents, voices and administrators, an   *)
(*     agent that was given an assignment keeps an active one, judged      *)
(*     valid;                                                              *)
(*   - SpeechPlayback: for any requests, keys and deaths, what is played   *)
(*     has the voice that was resolved, and is synthesized once per key.   *)
(***************************************************************************)
EXTENDS DocumentContext, SpeechPlayback, TLAPS

(***************************************************************************)
(* DocumentIntake.  A step of a request touches its own progress and the   *)
(* stores at its own key (Own), so what is to be shown of another request  *)
(* concerns the same key; and of two requests of one key that were active  *)
(* together both know it (Crossing).  A request that crossed none had the  *)
(* key to itself until it was ready, and what comes later finds its row    *)
(* and its manifest (Whole).                                               *)
(***************************************************************************)

(* Which steps a kind of request takes, and what it has made by then.      *)
Kinds ==
  \A r \in Requests :
    /\ r \in Renders => pc[r] \notin {"validating", "finding", "reusing", "storing", "discarding"}
    /\ r \in Uploads => pc[r] \notin {"validating", "withdrawing"}
    /\ r \notin Renders => pc[r] # "describing"
    /\ r \in looked => pc[r] = "storing" \/ (pc[r] = "idle" /\ r \in Pastes)
    /\ pc[r] = "idle" => made[r] = {}
    /\ pc[r] = "withdrawing" /\ r \in Pastes => "companion" \in made[r]

(* Requests of one key that are active together have crossed.              *)
Crossing ==
  \A q, r \in Requests :
    q # r /\ KeyOf[q] = KeyOf[r] /\ Active(q) /\ Active(r) => q \in crossed

(* The reasons for a row without content.                                  *)
Excuse(k) ==
  \E r \in Requests :
    KeyOf[r] = k /\ (r \in unsure \cap Renders \/ r \in rejected \cap crossed)

Contents ==
  /\ \A k \in rows : k \in blobs \/ Excuse(k)
  /\ \A r \in Requests :
       pc[r] \in {"inserting", "describing"} => KeyOf[r] \in blobs \/ Excuse(KeyOf[r])
  /\ \A r \in Requests :
       pc[r] = "discarding" => r \in rejected /\ (KeyOf[r] \in rows => r \in crossed)
  /\ \A r \in Renders : KeyOf[r] \in rows => pc[r] = "ready" \/ r \in unsure

(* A rival of a file that is ready cannot take it apart.                   *)
Harmless(o, r) ==
  /\ pc[o] # "discarding"
  /\ r \in Pastes /\ o \in Pastes =>
       (Active(o) => "companion" \notin made[o]) /\ (o \in looked => pc[o] # "idle")

Whole(r) ==
  /\ pc[r] \in {"inserting", "describing", "ready"} => KeyOf[r] \in blobs
  /\ pc[r] \in {"reusing", "ready"} => KeyOf[r] \in rows
  /\ r \in Pastes /\ pc[r] \in {"finding", "reusing", "storing", "inserting", "ready"} =>
       KeyOf[r] \in companions
  /\ r \in Renders /\ pc[r] \in {"inserting", "ready"} => KeyOf[r] \in companions
  /\ pc[r] = "ready" => \A o \in Requests : o # r /\ KeyOf[o] = KeyOf[r] => Harmless(o, r)

IInv ==
  /\ TypeOK
  /\ Kinds
  /\ Crossing
  /\ Contents
  /\ \A r \in Requests \ crossed : Whole(r)
--------------------------------------------------------------------------------
(* Init establishes the invariant.                                         *)
LEMMA InitEstablishes == Init => IInv
BY IntakeConstants
   DEF IntakeConstants, Init, IInv, TypeOK, Kinds, Crossing, Contents, Whole, Active, Steps, Requests

(* What a step of r leaves alone, and whom it has crossed.                 *)
Own(r) ==
  /\ \A o \in Requests : o # r =>
       pc'[o] = pc[o] /\ made'[o] = made[o] /\ (o \in looked' <=> o \in looked)
  /\ \A k \in Keys : k # KeyOf[r] =>
       (k \in rows' <=> k \in rows) /\ (k \in blobs' <=> k \in blobs)
         /\ (k \in companions' <=> k \in companions)
  /\ rows \subseteq rows' /\ crossed \subseteq crossed'
  /\ rejected \subseteq rejected' /\ unsure \subseteq unsure'
  /\ \A q \in Requests : q # r /\ KeyOf[q] = KeyOf[r] /\ Active(q) =>
       q \in crossed' /\ (r \in crossed' \/ ~Active(r)')

Act(r) ==
  \/ Look(r) \/ PutManifest(r) \/ ValidateManifest(r) \/ Upload(r)
  \/ FindExisting(r) \/ Store(r) \/ PersistRow(r) \/ Discard(r)
  \/ Render(r) \/ Describe(r) \/ Withdraw(r)
  \/ Die(r)

(* A request that begins crosses whoever is active on its key.             *)
LEMMA BeginCrosses ==
  ASSUME NEW r \in Requests, TypeOK, Begin(r)
  PROVE  /\ crossed \subseteq crossed' /\ crossed' \subseteq Requests
         /\ \A q \in Requests : q # r /\ KeyOf[q] = KeyOf[r] /\ Active(q) => q \in crossed' /\ r \in crossed'
BY DEF Begin, Rivals, TypeOK

(* A step of r moves r, and changes the stores at its key.                 *)
LEMMA ActTyped ==
  ASSUME NEW r \in Requests, TypeOK, Act(r)
  PROVE  TypeOK'
<1> USE IntakeConstants DEF IntakeConstants, TypeOK, stores
<1>1. KeyOf[r] \in Keys
  OBVIOUS
<1>2. crossed' \subseteq Requests
  BY BeginCrosses DEF Act, Look, PutManifest, ValidateManifest, Upload, FindExisting, Store, PersistRow,
                      Discard, Render, Describe, Withdraw, Die
<1>3. rows' \subseteq Keys /\ rejected' \subseteq Requests /\ unsure' \subseteq Requests
  BY <1>1 DEF Act, Look, PutManifest, ValidateManifest, Upload, FindExisting, Store, PersistRow, Insert,
              Reject, Discard, Render, Describe, Withdraw, Die
<1>4. blobs' \subseteq Keys
  BY <1>1 DEF Act, Look, PutManifest, ValidateManifest, Upload, FindExisting, Store, PutBlob, Put,
              PersistRow, Discard, Render, Describe, Withdraw, Die
<1>5. companions' \subseteq Keys
  BY <1>1 DEF Act, Look, PutManifest, ValidateManifest, Upload, FindExisting, Store, Put,
              PersistRow, Discard, Render, Describe, Withdraw, Die
<1>6. made' \in [Requests -> SUBSET {"companion", "blob"}]
  BY DEF Act, Look, PutManifest, ValidateManifest, Upload, FindExisting, Store, PutBlob, Created,
         PersistRow, Insert, Reject, Discard, Render, Describe, Withdraw, Die
<1>7. \/ pc' = pc /\ looked' = looked \cup {r}
      \/ /\ \E to \in Steps : pc' = [pc EXCEPT ![r] = to]
         /\ looked' = looked \ {r}
  BY DEF Act, Look, PutManifest, ValidateManifest, Upload, FindExisting, Store, PutBlob, PersistRow,
         Insert, Reject, Discard, Render, Describe, Withdraw, Die, Goto, Fail, Steps
<1>8. faults' \in 0 .. MaxFaults
  <2>1. CASE Look(r) \/ PutManifest(r) \/ ValidateManifest(r) \/ Upload(r) \/ FindExisting(r)
    BY <2>1 DEF Look, PutManifest, ValidateManifest, Upload, FindExisting, Sound, Fault
  <2>2. CASE Store(r) \/ Render(r)
    BY <2>2 DEF Store, Render, PutBlob, Sound, Fault
  <2>3. CASE PersistRow(r)
    BY <2>3 DEF PersistRow, Insert, Reject, Sound, Fault
  <2>4. CASE Discard(r) \/ Describe(r)
    <3>1. Sound \/ Fault
      BY <2>4 DEF Discard, Describe
    <3>2. QED
      BY <3>1 DEF Sound, Fault
  <2>5. CASE Withdraw(r) \/ Die(r)
    <3>1. Sound \/ Fault
      BY <2>5 DEF Withdraw, Die
    <3>2. QED
      BY <3>1 DEF Sound, Fault
  <2>6. QED
    BY <2>1, <2>2, <2>3, <2>4, <2>5 DEF Act
<1>9. QED
  BY <1>2, <1>3, <1>4, <1>5, <1>6, <1>7, <1>8

LEMMA ActOwn ==
  ASSUME NEW r \in Requests, TypeOK, Kinds, Crossing, Act(r)
  PROVE  Own(r)
<1> USE IntakeConstants DEF IntakeConstants, stores
<1>1. /\ \A o \in Requests : o # r => pc'[o] = pc[o] /\ (o \in looked' <=> o \in looked)
      /\ \A o \in Requests : o # r => made'[o] = made[o]
  <2>1. \/ pc' = pc /\ looked' = looked \cup {r}
        \/ \E to : pc' = [pc EXCEPT ![r] = to] /\ looked' = looked \ {r}
    BY DEF Act, Look, PutManifest, ValidateManifest, Upload, FindExisting, Store, PutBlob, PersistRow,
           Insert, Reject, Discard, Render, Describe, Withdraw, Die, Goto, Fail
  <2>2. made' = made \/ \E w : made' = [made EXCEPT ![r] = w]
    BY DEF Act, Look, PutManifest, ValidateManifest, Upload, FindExisting, Store, PutBlob, Created,
           PersistRow, Insert, Reject, Discard, Render, Describe, Withdraw, Die
  <2>3. QED
    BY <2>1, <2>2 DEF TypeOK
<1>2. \A k \in Keys : k # KeyOf[r] => (k \in blobs' <=> k \in blobs)
  BY DEF Act, Look, PutManifest, ValidateManifest, Upload, FindExisting, Store, PutBlob, Put,
         PersistRow, Discard, Render, Describe, Withdraw, Die
<1>3. \A k \in Keys : k # KeyOf[r] => (k \in companions' <=> k \in companions)
  BY DEF Act, Look, PutManifest, ValidateManifest, Upload, FindExisting, Store, Put, PersistRow,
         Discard, Render, Describe, Withdraw, Die
<1>4. /\ rows \subseteq rows' /\ rejected \subseteq rejected' /\ unsure \subseteq unsure'
      /\ \A k \in Keys : k # KeyOf[r] => (k \in rows' <=> k \in rows)
  BY DEF Act, Look, PutManifest, ValidateManifest, Upload, FindExisting, Store, PersistRow, Insert,
         Reject, Discard, Render, Describe, Withdraw, Die
<1>5. \/ Begin(r)
      \/ crossed' = crossed /\ (Active(r) \/ r \in Renders)
  <2>1. CASE Look(r) \/ PutManifest(r) \/ Upload(r)
    BY <2>1 DEF Look, PutManifest, Upload, Active
  <2>2. CASE Render(r)
    BY <2>2 DEF Render
  <2>3. CASE \/ ValidateManifest(r) \/ FindExisting(r) \/ Store(r) \/ PersistRow(r) \/ Discard(r)
             \/ Describe(r) \/ Withdraw(r) \/ Die(r)
    BY <2>3 DEF ValidateManifest, FindExisting, Store, PutBlob, PersistRow, Insert, Reject, Discard,
                Describe, Withdraw, Die, Goto, Fail, Active
  <2>4. QED
    BY <2>1, <2>2, <2>3 DEF Act
<1>6. crossed \subseteq crossed'
  BY <1>5, BeginCrosses
<1>7. ASSUME NEW q \in Requests, q # r, KeyOf[q] = KeyOf[r], Active(q)
      PROVE  q \in crossed' /\ r \in crossed'
  <2>1. CASE Begin(r)
    BY <1>7, <2>1, BeginCrosses
  <2>2. CASE crossed' = crossed /\ Active(r)
    BY <1>7, <2>2 DEF Crossing
  <2>3. CASE r \in Renders
    BY <1>7, <2>3
  <2>4. QED
    BY <1>5, <2>1, <2>2, <2>3
<1>8. QED
  BY <1>1, <1>2, <1>3, <1>4, <1>6, <1>7 DEF Own

(***************************************************************************)
(* What a step means for others                                            *)
(***************************************************************************)

(* Two active requests have crossed.                                       *)
LEMMA CrossingKeeps ==
  ASSUME NEW r \in Requests, TypeOK, Crossing, Own(r)
  PROVE  Crossing'
<1>1. \A o \in Requests : o # r => Active(o)' = Active(o)
  BY DEF Own, Active
<1>2. SUFFICES ASSUME NEW p \in Requests, NEW q \in Requests, p # q, KeyOf[p] = KeyOf[q],
                      Active(p)', Active(q)'
               PROVE  p \in crossed'
  BY DEF Crossing
<1>3. CASE p # r /\ q # r
  BY <1>1, <1>2, <1>3 DEF Crossing, Own
<1>4. CASE p = r
  BY <1>1, <1>2, <1>4 DEF Own
<1>5. CASE q = r
  BY <1>1, <1>2, <1>5 DEF Own
<1>6. QED
  BY <1>3, <1>4, <1>5

(* What a step does to the blob and the manifest at its key.               *)
Careful(r) ==
  /\ KeyOf[r] \in blobs \ blobs' => pc[r] = "discarding" \/ r \in Renders
  /\ KeyOf[r] \in companions \ companions' =>
       r \in Renders \/ (r \in Pastes /\ "companion" \in made[r] /\ Active(r))
  /\ pc'[r] = "discarding" => pc[r] = "inserting" /\ KeyOf[r] \notin rows'
  /\ r \in Pastes /\ "companion" \in made'[r] /\ Active(r)' =>
       \/ Active(r) /\ "companion" \in made[r]
       \/ pc[r] = "idle" /\ (KeyOf[r] \notin companions \/ r \in looked)
  /\ r \in Pastes /\ r \in looked' /\ pc'[r] = "idle" => KeyOf[r] \notin companions

LEMMA ActCareful ==
  ASSUME NEW r \in Requests, TypeOK, Kinds, Act(r)
  PROVE  Careful(r)
<1> USE IntakeConstants DEF IntakeConstants, stores
<1>1. KeyOf[r] \in blobs \ blobs' => pc[r] = "discarding" \/ r \in Renders
  BY DEF Act, Look, PutManifest, ValidateManifest, Upload, FindExisting, Store, PutBlob, Put,
         PersistRow, Discard, Render, Describe, Withdraw, Die, Fail, Goto
<1>2. KeyOf[r] \in companions \ companions' =>
        r \in Renders \/ (r \in Pastes /\ "companion" \in made[r] /\ Active(r))
  <2>1. CASE Withdraw(r)
    BY <2>1 DEF Withdraw, Goto, Kinds, Active, Requests
  <2>2. CASE ~Withdraw(r)
    BY <2>2 DEF Act, Look, PutManifest, ValidateManifest, Upload, FindExisting, Store, PutBlob, Put,
                PersistRow, Discard, Render, Describe, Die
  <2>3. QED
    BY <2>1, <2>2
<1>3. pc'[r] = "discarding" => pc[r] = "inserting" /\ KeyOf[r] \notin rows'
  <2>1. CASE PersistRow(r)
    BY <2>1 DEF PersistRow, Insert, Reject, Fail, Goto, TypeOK
  <2>2. CASE Look(r)
    BY <2>2 DEF Look, Kinds
  <2>3. CASE \/ PutManifest(r) \/ ValidateManifest(r) \/ Upload(r) \/ FindExisting(r) \/ Store(r)
             \/ Discard(r) \/ Render(r) \/ Describe(r) \/ Withdraw(r) \/ Die(r)
    BY <2>3 DEF PutManifest, ValidateManifest, Upload, FindExisting, Store, PutBlob, Discard, Render,
                Describe, Withdraw, Die, Fail, Goto, TypeOK
  <2>4. QED
    BY <2>1, <2>2, <2>3 DEF Act
<1>4. ASSUME r \in Pastes, "companion" \in made'[r], Active(r)'
      PROVE  \/ Active(r) /\ "companion" \in made[r]
             \/ pc[r] = "idle" /\ (KeyOf[r] \notin companions \/ r \in looked)
  <2>1. CASE PutManifest(r)
    BY <1>4, <2>1 DEF PutManifest, Created, Absent, Goto, TypeOK, Active, Kinds
  <2>2. CASE Look(r)
    BY <1>4, <2>2 DEF Look, Kinds, Active
  <2>3. CASE Store(r)
    BY <1>4, <2>3 DEF Store, PutBlob, Created, Fail, Goto, TypeOK, Active
  <2>4. CASE Upload(r) \/ Render(r) \/ Describe(r)
    BY <1>4, <2>4 DEF Upload, Render, Describe, Fail, Goto, Kinds
  <2>5. CASE \/ ValidateManifest(r) \/ FindExisting(r) \/ PersistRow(r) \/ Discard(r)
             \/ Withdraw(r) \/ Die(r)
    BY <1>4, <2>5 DEF ValidateManifest, FindExisting, PersistRow, Insert, Reject, Discard, Withdraw,
                      Die, Fail, Goto, Active
  <2>6. QED
    BY <2>1, <2>2, <2>3, <2>4, <2>5 DEF Act
<1>5. r \in Pastes /\ r \in looked' /\ pc'[r] = "idle" => KeyOf[r] \notin companions
  <2>1. CASE Look(r)
    BY <2>1 DEF Look
  <2>2. CASE ~Look(r)
    BY <2>2 DEF Act, PutManifest, ValidateManifest, Upload, FindExisting, Store, PutBlob, PersistRow,
                Insert, Reject, Discard, Render, Describe, Withdraw, Die, Goto, Fail
  <2>3. QED
    BY <2>1, <2>2
<1>6. QED
  BY <1>1, <1>2, <1>3, <1>4, <1>5 DEF Careful

(* A request that did not cross r keeps what it has.                       *)
LEMMA OthersStayWhole ==
  ASSUME NEW r \in Requests, IInv, Own(r), Careful(r), NEW q \in Requests, q # r, q \notin crossed'
  PROVE  Whole(q)'
<1> USE IntakeConstants DEF IntakeConstants
<1>1. /\ q \notin crossed /\ Whole(q) /\ pc'[q] = pc[q] /\ KeyOf[q] \in Keys
      /\ \A o \in Requests : o # r => Active(o)' = Active(o)
  BY DEF IInv, Own, Active
<1>2. CASE KeyOf[q] # KeyOf[r]
  <2>1. \A o \in Requests : o # q /\ KeyOf[o] = KeyOf[q] /\ Harmless(o, q) => Harmless(o, q)'
    BY <1>1, <1>2 DEF Own, Harmless
  <2>2. QED
    BY <1>1, <1>2, <2>1 DEF Own, Whole
<1>3. CASE KeyOf[q] = KeyOf[r]
  <2>1. ~Active(q)
    BY <1>3 DEF Own
  <2>2. pc[q] \in {"idle", "ready", "failed", "gone"}
    BY <2>1 DEF Active, IInv, TypeOK
  <2>3. CASE pc[q] # "ready"
    BY <1>1, <2>2, <2>3 DEF Whole
  <2>4. CASE pc[q] = "ready"
    <3>1. /\ KeyOf[q] \in blobs /\ KeyOf[q] \in rows
          /\ q \in Pastes \cup Renders => KeyOf[q] \in companions
          /\ \A o \in Requests : o # q /\ KeyOf[o] = KeyOf[q] => Harmless(o, q)
      BY <1>1, <2>4 DEF Whole
    <3>2. Harmless(r, q) /\ r \notin Renders
      BY <1>3, <3>1
    <3>3. KeyOf[q] \in rows' /\ KeyOf[q] \in blobs'
      BY <1>3, <3>1, <3>2 DEF Own, Careful, Harmless
    <3>4. q \notin Renders
      BY <1>3
    <3>5. q \in Pastes => KeyOf[q] \in companions'
      BY <1>3, <3>1, <3>2 DEF Careful, Harmless
    <3>6. Harmless(r, q)'
      <4>1. pc'[r] # "discarding"
        BY <1>3, <3>3 DEF Careful
      <4>2. q \in Pastes /\ r \in Pastes => (Active(r)' => "companion" \notin made'[r])
        BY <1>3, <3>1, <3>2 DEF Careful, Harmless
      <4>3. q \in Pastes /\ r \in Pastes => (r \in looked' => pc'[r] # "idle")
        BY <1>3, <3>1 DEF Careful
      <4>4. QED
        BY <4>1, <4>2, <4>3 DEF Harmless
    <3>7. \A o \in Requests : o # q /\ o # r /\ KeyOf[o] = KeyOf[q] => Harmless(o, q)'
      BY <1>1, <3>1 DEF Own, Harmless
    <3>8. QED
      BY <1>1, <2>4, <3>3, <3>4, <3>5, <3>6, <3>7 DEF Whole
  <2>5. QED
    BY <2>3, <2>4
<1>4. QED
  BY <1>2, <1>3

(***************************************************************************)
(* What a step means for the request that takes it                         *)
(***************************************************************************)

LEMMA ActKinds ==
  ASSUME NEW r \in Requests, TypeOK, Kinds, Own(r), Act(r)
  PROVE  Kinds'
<1> USE IntakeConstants DEF IntakeConstants
<1>1. ASSUME NEW o \in Requests, o # r
      PROVE  /\ o \in Renders => pc'[o] \notin {"validating", "finding", "reusing", "storing", "discarding"}
             /\ o \in Uploads => pc'[o] \notin {"validating", "withdrawing"}
             /\ o \notin Renders => pc'[o] # "describing"
             /\ o \in looked' => pc'[o] = "storing" \/ (pc'[o] = "idle" /\ o \in Pastes)
             /\ pc'[o] = "idle" => made'[o] = {}
             /\ pc'[o] = "withdrawing" /\ o \in Pastes => "companion" \in made'[o]
  BY <1>1 DEF Own, Kinds
<1>2. CASE Look(r)
  BY <1>1, <1>2 DEF Look, Kinds
<1>3. ASSUME pc'[r] # "idle", r \notin looked',
             r \in Renders => pc'[r] \notin {"validating", "finding", "reusing", "storing", "discarding"},
             r \in Uploads => pc'[r] \notin {"validating", "withdrawing"},
             r \notin Renders => pc'[r] # "describing",
             pc'[r] = "withdrawing" /\ r \in Pastes => "companion" \in made'[r]
      PROVE  Kinds'
  BY <1>1, <1>3 DEF Kinds
<1>4. CASE PutManifest(r) \/ ValidateManifest(r) \/ Upload(r) \/ FindExisting(r)
  BY <1>3, <1>4 DEF PutManifest, ValidateManifest, Upload, FindExisting, Goto, TypeOK, Kinds
<1>5. CASE Store(r) \/ Render(r)
  BY <1>3, <1>5 DEF Store, Render, PutBlob, Fail, CleansUp, Goto, TypeOK, Kinds
<1>6. CASE PersistRow(r)
  <2>1. pc[r] = "inserting" /\ made' = made /\ r \notin looked'
    BY <1>6 DEF PersistRow, Insert, Reject, Fail, Goto
  <2>2. pc'[r] \in {"ready", "failed", "discarding", "withdrawing"}
    BY <1>6 DEF PersistRow, Insert, Reject, Fail, Goto, TypeOK
  <2>3. pc'[r] = "discarding" => r \notin Renders
    BY <1>6 DEF PersistRow, Insert, Reject, Fail, Goto, TypeOK
  <2>4. pc'[r] = "withdrawing" => CleansUp(r)
    BY <1>6 DEF PersistRow, Insert, Reject, Fail, Goto, TypeOK
  <2>5. QED
    BY <1>3, <2>1, <2>2, <2>3, <2>4 DEF CleansUp
<1>9. CASE Discard(r)
  BY <1>3, <1>9 DEF Discard, Fail, CleansUp, Goto, TypeOK, Kinds
<1>10. CASE Describe(r)
  BY <1>3, <1>10 DEF Describe, Fail, CleansUp, Goto, TypeOK, Kinds
<1>7. CASE Withdraw(r) \/ Die(r)
  BY <1>3, <1>7 DEF Withdraw, Die, Goto, TypeOK
<1>8. QED
  BY <1>2, <1>4, <1>5, <1>6, <1>7, <1>9, <1>10 DEF Act

(* A request that has crossed none builds its file up, and nobody active   *)
(* is there when it is ready.                                              *)
LEMMA ActWhole ==
  ASSUME NEW r \in Requests, IInv, Act(r), r \notin crossed'
  PROVE  Whole(r)'
<1> USE IntakeConstants DEF IntakeConstants
<1>1. TypeOK /\ Kinds /\ Crossing /\ Own(r)
  BY ActOwn DEF IInv
<1>2. r \notin crossed /\ Whole(r) /\ KeyOf[r] \in Keys
  BY <1>1 DEF IInv, Own
<1>3. ASSUME Active(r), NEW o \in Requests, o # r, KeyOf[o] = KeyOf[r]
      PROVE  Harmless(o, r)'
  <2>1. ~Active(o)
    BY <1>1, <1>2, <1>3 DEF Crossing
  <2>2. pc'[o] = pc[o] /\ (o \in looked' <=> o \in looked) /\ ~Active(o)'
    BY <1>1, <1>3, <2>1 DEF Own, Active
  <2>3. QED
    BY <2>1, <2>2 DEF Harmless, Active
<1>4. CASE Look(r)
  BY <1>1, <1>2, <1>4 DEF Look, Whole, Kinds, stores
<1>5. CASE PutManifest(r) \/ Upload(r)
  BY <1>1, <1>5 DEF PutManifest, Upload, Goto, Whole, TypeOK
<1>6. CASE ValidateManifest(r) \/ FindExisting(r)
  BY <1>1, <1>2, <1>6 DEF ValidateManifest, FindExisting, Goto, Whole, TypeOK, stores, Kinds
<1>7. CASE Store(r)
  <2>1. Active(r)
    BY <1>7 DEF Store, PutBlob, Fail, Goto, Active
  <2>2. CASE Sound
    BY <1>1, <1>2, <1>3, <1>7, <2>1, <2>2 DEF Store, PutBlob, Fail, Goto, Whole, TypeOK, Kinds
  <2>3. CASE pc' = [pc EXCEPT ![r] = IF CleansUp(r) THEN "withdrawing" ELSE "failed"]
    BY <1>1, <2>3 DEF Whole, TypeOK
  <2>4. pc'[r] \in {"inserting", "ready", "withdrawing", "failed"}
    BY <1>1, <1>7 DEF Store, PutBlob, Fail, Goto, TypeOK
  <2>5. CASE pc'[r] \in {"inserting", "ready"}
    <3>1. /\ KeyOf[r] \in blobs' /\ rows' = rows /\ companions' = companions
          /\ pc[r] \in {"storing", "reusing"} /\ (pc'[r] = "ready" => pc[r] = "reusing")
      BY <1>1, <1>7, <2>5 DEF Store, PutBlob, Fail, Goto, TypeOK
    <3>2. r \notin Renders
      BY <1>1, <3>1 DEF Kinds
    <3>3. QED
      BY <1>2, <1>3, <2>1, <2>5, <3>1, <3>2 DEF Whole
  <2>6. QED
    BY <2>4, <2>5 DEF Whole
<1>8. CASE PersistRow(r)
  <2>1. Active(r) /\ pc[r] = "inserting" /\ blobs' = blobs /\ companions' = companions
    BY <1>8 DEF PersistRow, Insert, Reject, Fail, Goto, Active
  <2>2. pc'[r] \in {"ready", "discarding", "withdrawing", "failed"}
    BY <1>1, <1>8 DEF PersistRow, Insert, Reject, Fail, Goto, TypeOK
  <2>3. pc'[r] = "ready" => KeyOf[r] \in rows'
    BY <1>1, <1>8 DEF PersistRow, Insert, Reject, Fail, Goto, TypeOK
  <2>4. QED
    BY <1>2, <1>3, <2>1, <2>2, <2>3 DEF Whole
<1>9. CASE Discard(r) \/ Withdraw(r) \/ Die(r)
  <2>1. pc'[r] \in {"withdrawing", "failed", "gone"}
    BY <1>1, <1>9 DEF Discard, Withdraw, Die, Fail, Goto, TypeOK
  <2>2. QED
    BY <2>1 DEF Whole
<1>10. CASE Render(r) \/ Describe(r)
  <2>1. r \in Renders /\ pc'[r] \in {"describing", "inserting", "withdrawing", "failed"}
    BY <1>1, <1>10 DEF Render, Describe, PutBlob, Fail, Goto, TypeOK, Kinds
  <2>2. pc'[r] \in {"describing", "inserting"} => KeyOf[r] \in blobs'
    BY <1>1, <1>2, <1>10 DEF Render, Describe, PutBlob, Fail, Goto, TypeOK, Whole
  <2>3. pc'[r] = "inserting" => KeyOf[r] \in companions'
    BY <1>1, <1>10 DEF Render, Describe, PutBlob, Fail, Goto, TypeOK
  <2>4. QED
    BY <2>1, <2>2, <2>3 DEF Whole
<1>11. QED
  BY <1>4, <1>5, <1>6, <1>7, <1>8, <1>9, <1>10 DEF Act

(* When a blob goes and when a row comes.                                  *)
Accounted(r) ==
  /\ KeyOf[r] \in blobs \ blobs' =>
       pc[r] = "discarding" \/ (r \in Renders /\ pc[r] = "withdrawing" /\ rows' = rows)
  /\ KeyOf[r] \in rows' \ rows =>
       pc[r] = "inserting" /\ blobs' = blobs /\ (r \in Renders => pc'[r] = "ready" \/ r \in unsure')
  /\ pc'[r] \in {"inserting", "describing"} =>
       KeyOf[r] \in blobs' \/ (pc[r] = "describing" /\ blobs' = blobs)
  /\ pc'[r] = "discarding" => r \in rejected' /\ KeyOf[r] \notin rows'
  /\ pc[r] # "ready"

LEMMA ActAccounted ==
  ASSUME NEW r \in Requests, TypeOK, Kinds, Act(r)
  PROVE  Accounted(r)
<1> USE DEF TypeOK
<1>1. CASE Look(r)
  BY <1>1 DEF Look, Kinds, Accounted, stores
<1>2. CASE PutManifest(r) \/ ValidateManifest(r) \/ Upload(r) \/ FindExisting(r)
  BY <1>2 DEF PutManifest, ValidateManifest, Upload, FindExisting, Goto, Accounted, stores
<1>3. CASE Store(r) \/ Render(r)
  BY <1>3 DEF Store, Render, PutBlob, Put, Fail, Goto, Accounted
<1>4. CASE PersistRow(r)
  BY <1>4 DEF PersistRow, Insert, Reject, Fail, Goto, Accounted
<1>5. CASE Discard(r) \/ Describe(r)
  BY <1>5 DEF Discard, Describe, Fail, Goto, Accounted
<1>6. CASE Withdraw(r)
  BY <1>6 DEF Withdraw, Goto, Accounted
<1>7. CASE Die(r)
  BY <1>7 DEF Die, Goto, Accounted, stores, Active, Kinds
<1>8. QED
  BY <1>1, <1>2, <1>3, <1>4, <1>5, <1>6, <1>7 DEF Act

(* A row is without content for no other reason.                           *)
LEMMA ContentsKeep ==
  ASSUME NEW r \in Requests, TypeOK, TypeOK', Crossing, Contents, Own(r), Accounted(r)
  PROVE  Contents'
<1> USE IntakeConstants DEF IntakeConstants
<1>1. \A k : Excuse(k) => Excuse(k)'
  BY DEF Excuse, Own
<1>3. ASSUME KeyOf[r] \in blobs \ blobs' /\ (KeyOf[r] \in rows' \/
               \E o \in Requests : o # r /\ KeyOf[o] = KeyOf[r] /\ pc'[o] \in {"inserting", "describing"})
      PROVE  Excuse(KeyOf[r])'
  <2>1. CASE pc[r] = "discarding"
    <3>1. r \in rejected /\ (KeyOf[r] \in rows => r \in crossed) /\ Active(r)
      BY <2>1 DEF Contents, Active
    <3>2. KeyOf[r] \in rows' => KeyOf[r] \in rows
      BY <1>3, <2>1 DEF Accounted
    <3>3. ASSUME NEW o \in Requests, o # r, KeyOf[o] = KeyOf[r], pc'[o] \in {"inserting", "describing"}
          PROVE  r \in crossed
      <4>1. Active(o)
        BY <3>3 DEF Own, Active
      <4>2. QED
        BY <3>1, <3>3, <4>1 DEF Crossing
    <3>4. r \in crossed
      BY <1>3, <3>1, <3>2, <3>3
    <3>5. QED
      BY <1>1, <3>1, <3>4 DEF Excuse
  <2>2. CASE pc[r] # "discarding"
    <3>1. r \in Renders /\ pc[r] = "withdrawing" /\ rows' = rows
      BY <1>3, <2>2 DEF Accounted
    <3>2. KeyOf[r] \in rows
      BY <1>3, <3>1
    <3>3. r \in unsure
      BY <3>1, <3>2 DEF Contents
    <3>4. QED
      BY <1>1, <3>1, <3>3 DEF Excuse
  <2>3. QED
    BY <2>1, <2>2
<1>4. \A k \in rows' : k \in blobs' \/ Excuse(k)'
  <2>1. SUFFICES ASSUME NEW k \in rows', k \notin blobs' PROVE Excuse(k)'
    OBVIOUS
  <2>2. CASE k # KeyOf[r]
    <3>1. k \in Keys
      BY <2>1 DEF TypeOK
    <3>2. QED
      BY <1>1, <2>1, <2>2, <3>1 DEF Own, Contents
  <2>3. CASE k = KeyOf[r]
    <3>1. CASE k \in blobs
      BY <1>3, <2>1, <2>3, <3>1
    <3>2. CASE k \notin blobs
      <4>1. k \in rows \/ pc[r] = "inserting"
        BY <2>1, <2>3 DEF Accounted
      <4>2. Excuse(k)
        BY <2>3, <3>2, <4>1 DEF Contents
      <4>3. QED
        BY <1>1, <4>2
    <3>3. QED
      BY <3>1, <3>2
  <2>4. QED
    BY <2>2, <2>3
<1>5. \A o \in Requests :
        pc'[o] \in {"inserting", "describing"} => KeyOf[o] \in blobs' \/ Excuse(KeyOf[o])'
  <2>1. SUFFICES ASSUME NEW o \in Requests, pc'[o] \in {"inserting", "describing"},
                        KeyOf[o] \notin blobs'
                 PROVE  Excuse(KeyOf[o])'
    OBVIOUS
  <2>2. CASE o = r
    <3>1. Excuse(KeyOf[r])
      BY <2>1, <2>2 DEF Accounted, Contents
    <3>2. QED
      BY <1>1, <2>2, <3>1
  <2>3. CASE o # r /\ KeyOf[o] \notin blobs
    <3>1. Excuse(KeyOf[o])
      BY <2>1, <2>3 DEF Own, Contents
    <3>2. QED
      BY <1>1, <3>1
  <2>4. CASE o # r /\ KeyOf[o] \in blobs
    <3>1. KeyOf[o] = KeyOf[r]
      BY <2>1, <2>4 DEF Own
    <3>2. Excuse(KeyOf[r])'
      BY <1>3, <2>1, <2>4, <3>1
    <3>3. QED
      BY <3>1, <3>2
  <2>5. QED
    BY <2>2, <2>3, <2>4
<1>6. \A o \in Requests :
        pc'[o] = "discarding" => o \in rejected' /\ (KeyOf[o] \in rows' => o \in crossed')
  <2>1. SUFFICES ASSUME NEW o \in Requests, pc'[o] = "discarding"
                 PROVE  o \in rejected' /\ (KeyOf[o] \in rows' => o \in crossed')
    OBVIOUS
  <2>2. CASE o = r
    BY <2>1, <2>2 DEF Accounted
  <2>3. CASE o # r
    <3>1. pc[o] = "discarding" /\ Active(o) /\ KeyOf[o] \in Keys
      BY <2>1, <2>3 DEF Own, Active
    <3>2. QED
      BY <2>3, <3>1 DEF Own, Contents
  <2>4. QED
    BY <2>2, <2>3
<1>7. \A o \in Renders : KeyOf[o] \in rows' => pc'[o] = "ready" \/ o \in unsure'
  <2>1. SUFFICES ASSUME NEW o \in Renders, KeyOf[o] \in rows' PROVE pc'[o] = "ready" \/ o \in unsure'
    OBVIOUS
  <2>2. o \in Requests /\ KeyOf[o] \in Keys
    BY DEF Requests
  <2>3. CASE o = r
    BY <2>1, <2>3 DEF Accounted, Contents, Own
  <2>4. CASE o # r
    BY <2>1, <2>2, <2>4 DEF Own, Contents
  <2>5. QED
    BY <2>3, <2>4
<1>8. QED
  BY <1>4, <1>5, <1>6, <1>7 DEF Contents

(***************************************************************************)
(* Every step                                                              *)
(***************************************************************************)

LEMMA StepKeeps == IInv /\ [Next]_vars => IInv'
<1> SUFFICES ASSUME IInv, [Next]_vars PROVE IInv'
  OBVIOUS
<1>1. ASSUME NEW r \in Requests, Act(r) PROVE IInv'
  <2>1. TypeOK /\ Kinds /\ Crossing /\ Contents
    BY DEF IInv
  <2>2. Own(r) /\ Careful(r) /\ Accounted(r)
    BY <1>1, <2>1, ActOwn, ActCareful, ActAccounted
  <2>6. TypeOK'
    BY <1>1, <2>1, ActTyped
  <2>3. Kinds' /\ Crossing' /\ Contents'
    BY <1>1, <2>1, <2>2, <2>6, ActKinds, CrossingKeeps, ContentsKeep
  <2>4. \A q \in Requests \ crossed' : Whole(q)'
    <3>1. SUFFICES ASSUME NEW q \in Requests, q \notin crossed' PROVE Whole(q)'
      OBVIOUS
    <3>2. CASE q = r
      BY <1>1, <3>1, <3>2, ActWhole
    <3>3. CASE q # r
      BY <2>2, <3>1, <3>3, OthersStayWhole
    <3>4. QED
      BY <3>2, <3>3
  <2>5. QED
    BY <2>3, <2>4, <2>6 DEF IInv
<1>2. CASE UNCHANGED vars
  BY <1>2 DEF vars, stores, IInv, TypeOK, Kinds, Crossing, Active, Contents, Excuse, Whole, Harmless
<1>3. QED
  BY <1>1, <1>2 DEF Next, Act

(* The invariant holds in every reachable state.                           *)
THEOREM InvariantHolds == Spec => []IInv
BY InitEstablishes, StepKeeps, PTL DEF Spec

(* Every variable keeps its type.                                          *)
THEOREM TypeCorrect == Spec => []TypeOK
<1>1. IInv => TypeOK
  BY DEF IInv
<1>2. QED
  BY <1>1, InvariantHolds, PTL

(* A row is without its content for the two known reasons only: a commit   *)
(* of an artifact that was reported lost, and a refused row whose request  *)
(* took the blob from a rival.                                             *)
THEOREM RowsKeepContent == Spec => []RowsHaveContent
<1>1. IInv => RowsHaveContent
  BY DEF IInv, Contents, Excuse, RowsHaveContent
<1>2. QED
  BY <1>1, InvariantHolds, PTL

(* What was answered ready to a request that crossed none stays whole.     *)
THEOREM ReadyIsWhole == Spec => []ReadyStaysWhole
<1>1. IInv => ReadyStaysWhole
  BY DEF IInv, Whole, ReadyStaysWhole, Requests
<1>2. QED
  BY <1>1, InvariantHolds, PTL

--------------------------------------------------------------------------------
(***************************************************************************)
(* The prompt: DocumentContext beside the requests of DocumentIntake.  A   *)
(* listed attachment that was ready has a request that crossed none, so    *)
(* its file stays whole until it is read (SureStayReady); one attachment   *)
(* is open at a time (OneOpen).                                            *)
(***************************************************************************)
(* A ready request stays as it was, and is crossed by nobody any more.     *)
LEMMA ReadyStays ==
  ASSUME IInv, Next, NEW q \in Requests \ crossed, pc[q] = "ready"
  PROVE  q \notin crossed' /\ pc'[q] = "ready"
<1>1. PICK r \in Requests : Act(r)
  BY DEF Next, Act
<1>2. TypeOK /\ Kinds /\ Crossing /\ ~Active(q)
  BY DEF IInv, Kinds, Active
<1>3. q # r /\ pc'[q] = "ready"
  <2>1. Accounted(r) /\ Own(r)
    BY <1>1, <1>2, ActAccounted, ActOwn
  <2> QED
    BY <2>1 DEF Accounted, Own
<1>4. crossed' = crossed \/ Begin(r)
  BY <1>1 DEF Act, Look, PutManifest, ValidateManifest, Upload, FindExisting, Store, PersistRow,
              Discard, Render, Describe, Withdraw, Die
<1>5. q \notin crossed'
  BY <1>2, <1>3, <1>4 DEF Begin
<1> QED
  BY <1>3, <1>5

(* A prompt fails calls, and changes nothing else of the requests.         *)
LEMMA PromptLeavesFiles ==
  ASSUME IInv, ContextNext
  PROVE  IInv'
<1>1. UNCHANGED <<rows, blobs, companions, pc, made, looked, rejected, unsure, crossed>>
  BY DEF ContextNext, stores
<1>2. faults' \in 0 .. MaxFaults
  <2>1. faults' = faults \/ Fault
    BY DEF ContextNext, ListAttachments, LoadManifest, ReadAttachment, ReadChunks, ReadFile, Took,
           ReadFails, NotFound, Unreadable
  <2> QED
    BY <2>1, IntakeConstants DEF IntakeConstants, Fault, IInv, TypeOK
<1> QED
  BY <1>1, <1>2 DEF IInv, TypeOK, Kinds, Crossing, Active, Contents, Excuse, Whole, Harmless

LEMMA PromptKeepsFiles == IInv /\ [PromptNext]_<<vars, contextVars>> => IInv'
BY StepKeeps, PromptLeavesFiles DEF PromptNext

Open == pending \cap DOMAIN provided

OneOpen ==
  /\ step = "next" => Open = {}
  /\ step = "list" => pending = {} /\ DOMAIN provided = {} /\ missing = {} /\ sure = {}
  /\ step = "done" => pending = {}
  /\ \A k, l \in Open : k = l

PromptTypeOK ==
  /\ pending \subseteq Keys
  /\ DOMAIN provided \subseteq Keys
  /\ provided \in [DOMAIN provided -> Nat]
  /\ remaining \in Nat

(* What was taken of an attachment that was read: all that was extracted,  *)
(* unless it is called truncated.                                          *)
Taken ==
  \A k \in Sources :
    /\ provided[k] <= PerFile
    /\ k \notin truncated => provided[k] = Extracted[k]

SureStayReady ==
  \A k \in sure :
    /\ k \in Attachments
    /\ \E r \in Requests \ crossed : KeyOf[r] = k /\ pc[r] = "ready"

Uploaded(k) == \E r \in Uploads : KeyOf[r] = k

(* A file is only opened for want of a manifest, so a sure one is an upload*)
FilesAreUploads == step = "file" => \A k \in Open \cap sure : Uploaded(k)

PromptInv ==
  /\ PromptTypeOK
  /\ OneOpen
  /\ Taken
  /\ SureStayReady
  /\ FilesAreUploads
  /\ ReadyIsSupplied

LEMMA PromptInitEstablishes == ContextInit => PromptInv
<1> SUFFICES ASSUME ContextInit PROVE PromptInv
  OBVIOUS
<1>1. provided = [k \in {} |-> 0] /\ DOMAIN provided = {} /\ MaxChars \in Nat
  BY ContextConstants DEF ContextInit, ContextConstants
<1> QED
  BY <1>1 DEF ContextInit, PromptInv, PromptTypeOK, OneOpen, Open, Taken, Sources, Errors,
              SureStayReady, FilesAreUploads, ReadyIsSupplied

(* The requests do not disturb it.                                         *)
LEMMA FilesKeepPrompt ==
  ASSUME IInv, PromptInv, [Next]_vars, UNCHANGED contextVars
  PROVE  PromptInv'
<1>1. SureStayReady'
  <2>1. CASE Next
    BY <2>1, ReadyStays DEF PromptInv, SureStayReady, contextVars, Attachments, Requests
  <2>2. CASE UNCHANGED vars
    BY <2>2 DEF PromptInv, SureStayReady, contextVars, vars, Attachments, Requests
  <2> QED
    BY <2>1, <2>2
<1> QED
  BY <1>1 DEF PromptInv, PromptTypeOK, OneOpen, Open, Taken, Sources, Errors, FilesAreUploads,
              ReadyIsSupplied, contextVars

(* A sure attachment has its blob, and its manifest unless it was uploaded.*)
LEMMA SureIsStored ==
  ASSUME IInv, SureStayReady, NEW k \in sure
  PROVE  k \in blobs /\ (k \in companions \/ Uploaded(k))
<1>1. PICK r \in Requests \ crossed : KeyOf[r] = k /\ pc[r] = "ready"
  BY DEF SureStayReady
<1>2. Whole(r)
  BY <1>1 DEF IInv
<1>3. PICK p \in Pastes \cup Uploads : k = KeyOf[p]
  BY DEF SureStayReady, Attachments
<1>4. r \notin Renders
  BY <1>1, <1>3, IntakeConstants DEF IntakeConstants, Requests
<1> QED
  BY <1>1, <1>2, <1>4 DEF Whole, Uploaded, Requests

LEMMA ListKeeps ==
  ASSUME IInv, PromptInv, ListAttachments, UNCHANGED <<pc, crossed>>
  PROVE  PromptInv'
<1>1. /\ pending' \subseteq rows \cap Attachments
      /\ sure' \subseteq {KeyOf[r] : r \in {q \in Requests \ crossed : pc[q] = "ready"}} \cap pending'
      /\ step' \in {"none", "next"}
      /\ provided' = provided /\ remaining' = remaining /\ missing' = missing
      /\ unread' = unread /\ truncated' = truncated
  BY DEF ListAttachments
<1>2. DOMAIN provided = {} /\ missing = {}
  BY DEF ListAttachments, PromptInv, OneOpen
<1>3. PromptTypeOK'
  BY <1>1 DEF PromptInv, PromptTypeOK, IInv, TypeOK
<1>4. Open' = {} /\ Sources' = {}
  BY <1>1, <1>2 DEF Open, Sources
<1>5. SureStayReady'
  BY <1>1 DEF SureStayReady, Attachments, Requests
<1>6. OneOpen'
  BY <1>1, <1>4 DEF OneOpen
<1>7. Taken' /\ FilesAreUploads' /\ ReadyIsSupplied'
  BY <1>1, <1>2, <1>4 DEF Taken, FilesAreUploads, ReadyIsSupplied
<1> QED
  BY <1>3, <1>5, <1>6, <1>7 DEF PromptInv

LEMMA ManifestKeeps ==
  ASSUME IInv, PromptInv, NEW k \in pending, LoadManifest(k), UNCHANGED <<pc, crossed>>
  PROVE  PromptInv'
<1>1. /\ UNCHANGED <<pending, sure, remaining, missing, unread, truncated, backend>>
      /\ DOMAIN provided' = DOMAIN provided \cup {k}
      /\ \A f \in DOMAIN provided : f # k => provided'[f] = provided[f]
      /\ step' = IF k \in companions THEN "chunks" ELSE "file"
      /\ Open = {}
  BY DEF LoadManifest, PromptInv, OneOpen
<1>2. Open' = {k}
  BY <1>1 DEF Open
<1>3. PromptTypeOK'
  BY <1>1 DEF LoadManifest, PromptInv, PromptTypeOK
<1>4. OneOpen'
  BY <1>1, <1>2 DEF OneOpen
<1>5. Taken'
  BY <1>1 DEF PromptInv, Taken, Sources, Errors
<1>6. SureStayReady' /\ ReadyIsSupplied'
  BY <1>1 DEF PromptInv, SureStayReady, ReadyIsSupplied, Attachments, Requests
<1>7. FilesAreUploads'
  <2>1. step' = "file" /\ k \in sure => Uploaded(k)
    BY <1>1, SureIsStored DEF PromptInv
  <2> QED
    BY <1>1, <1>2, <2>1 DEF FilesAreUploads, Uploaded
<1> QED
  BY <1>3, <1>4, <1>5, <1>6, <1>7 DEF PromptInv

(* What reading takes is within the budgets, and all that was extracted    *)
(* unless it is said to be cut.                                            *)
LEMMA TookEnough ==
  ASSUME PromptInv, NEW k \in Keys, ReadChunks(k) \/ ReadFile(k)
  PROVE  \E n \in Nat, cut \in BOOLEAN :
           /\ Took(k, n, cut)
           /\ n <= remaining /\ n <= PerFile
           /\ ~cut => n = Extracted[k]
<1>1. /\ remaining \in Nat /\ PerFile \in Nat /\ Extracted[k] \in Nat
  BY ContextConstants DEF ContextConstants, PromptInv, PromptTypeOK
<1>2. CASE ReadChunks(k)
  <2>1. PICK n \in 0 .. Budget : Took(k, n, TRUE)
    BY <1>2 DEF ReadChunks
  <2>2. n \in Nat /\ n <= remaining /\ n <= PerFile
    BY <1>1 DEF Budget, Least
  <2> QED
    BY <2>1, <2>2
<1>3. CASE ReadFile(k)
  <2> DEFINE share == Least(Extracted[k], PerFile)
             given == Least(share, remaining)
             cut == share < Extracted[k] \/ given < share
  <2>1. Took(k, given, cut) /\ cut \in BOOLEAN
    BY <1>3 DEF ReadFile
  <2>2. /\ given \in Nat /\ given <= remaining /\ given <= PerFile
        /\ ~cut => given = Extracted[k]
    BY <1>1 DEF Least
  <2> HIDE DEF given, cut
  <2> QED
    BY <2>1, <2>2
<1> QED
  BY <1>2, <1>3

LEMMA ReadKeeps ==
  ASSUME IInv, PromptInv, NEW k \in pending, ReadAttachment(k), UNCHANGED <<pc, crossed>>
  PROVE  PromptInv'
<1>1. /\ k \in Keys /\ k \in Open /\ step \in {"chunks", "file"}
      /\ pending' = pending \ {k} /\ UNCHANGED <<backend, sure>>
      /\ step' = IF pending' = {} THEN "done" ELSE "next"
  BY DEF ReadAttachment, ReadChunks, ReadFile, ReadFails, PromptInv, PromptTypeOK, Opened, Open
<1>2. SureStayReady'
  BY <1>1 DEF PromptInv, SureStayReady, Attachments, Requests
<1>3. CASE ReadChunks(k) \/ ReadFile(k)
  <2>1. PICK n \in Nat, cut \in BOOLEAN :
          /\ Took(k, n, cut)
          /\ n <= remaining /\ n <= PerFile
          /\ ~cut => n = Extracted[k]
    BY <1>1, <1>3, TookEnough
  <2>2. /\ provided' = [provided EXCEPT ![k] = n] /\ k \in DOMAIN provided
        /\ remaining' = remaining - n
        /\ truncated \subseteq truncated' /\ (cut => k \in truncated')
        /\ missing' = missing /\ unread' = unread
    BY <1>1, <2>1 DEF Took, Open
  <2>3. DOMAIN provided' = DOMAIN provided
    BY <2>2
  <2>4. /\ provided'[k] = n
        /\ \A f \in DOMAIN provided : f # k => provided'[f] = provided[f]
    BY <2>2
  <2>5. PromptTypeOK'
    BY <1>1, <2>1, <2>2 DEF PromptInv, PromptTypeOK
  <2>6. Open' = {}
    BY <1>1, <2>3 DEF PromptInv, OneOpen, Open
  <2>7. OneOpen' /\ FilesAreUploads'
    BY <1>1, <2>6 DEF OneOpen, FilesAreUploads
  <2>8. Taken'
    <3>1. SUFFICES ASSUME NEW f \in Sources'
                   PROVE  provided'[f] <= PerFile /\ (f \notin truncated' => provided'[f] = Extracted[f])
      BY DEF Taken
    <3>2. CASE f = k
      BY <2>1, <2>2, <2>4, <3>2
    <3>3. CASE f # k
      <4>1. f \in Sources
        BY <1>1, <2>2, <2>3, <3>1, <3>3 DEF Sources, Errors
      <4> QED
        BY <2>2, <2>4, <3>3, <4>1 DEF PromptInv, Taken, Sources
    <3> QED
      BY <3>2, <3>3
  <2>9. ReadyIsSupplied'
    BY <1>1, <2>2 DEF PromptInv, ReadyIsSupplied
  <2> QED
    BY <1>2, <2>5, <2>7, <2>8, <2>9 DEF PromptInv
<1>4. CASE ReadFails(k)
  <2>1. /\ UNCHANGED <<remaining, provided, truncated>>
        /\ \/ NotFound(k)
           \/ missing' = missing /\ unread' = unread \cup {k}
    BY <1>4 DEF ReadFails, Unreadable
  <2>2. missing \subseteq missing' /\ unread \subseteq unread' /\ k \in Errors'
    BY <2>1 DEF NotFound, Errors
  <2>3. PromptTypeOK'
    BY <1>1, <2>1 DEF PromptInv, PromptTypeOK
  <2>4. Open' = {}
    BY <1>1, <2>1 DEF PromptInv, OneOpen, Open
  <2>5. OneOpen' /\ FilesAreUploads'
    BY <1>1, <2>4 DEF OneOpen, FilesAreUploads
  <2>6. Taken'
    <3>1. Sources' \subseteq Sources
      BY <1>1, <2>1, <2>2 DEF Sources, Errors
    <3> QED
      BY <2>1, <3>1 DEF PromptInv, Taken
  <2>7. ReadyIsSupplied'
    <3>1. SUFFICES ASSUME NotFound(k), k \in sure
                   PROVE  backend = "s3" /\ Uploaded(k)
      BY <1>1, <2>1 DEF NotFound, PromptInv, ReadyIsSupplied, Uploaded
    <3>2. k \in blobs
      BY <3>1, SureIsStored DEF PromptInv
    <3>3. step = "file" /\ backend = "s3"
      BY <1>1, <3>1, <3>2 DEF NotFound
    <3> QED
      BY <1>1, <3>1, <3>3 DEF PromptInv, FilesAreUploads
  <2> QED
    BY <1>2, <2>3, <2>5, <2>6, <2>7 DEF PromptInv
<1> QED
  BY <1>3, <1>4 DEF ReadAttachment

LEMMA PromptKeeps == IInv /\ PromptInv /\ [PromptNext]_<<vars, contextVars>> => PromptInv'
<1> SUFFICES ASSUME IInv, PromptInv, [PromptNext]_<<vars, contextVars>> PROVE PromptInv'
  OBVIOUS
<1>1. CASE [Next]_vars /\ UNCHANGED contextVars
  BY <1>1, FilesKeepPrompt
<1>2. CASE ContextNext
  BY <1>2, ListKeeps, ManifestKeeps, ReadKeeps DEF ContextNext
<1> QED
  BY <1>1, <1>2 DEF PromptNext

(* The invariant of the requests and of the prompt.                        *)
LEMMA PromptInvariant == PromptSpec => [](IInv /\ PromptInv)
<1>1. Init /\ ContextInit => IInv /\ PromptInv
  BY InitEstablishes, PromptInitEstablishes
<1> QED
  BY <1>1, PromptKeepsFiles, PromptKeeps, PTL DEF PromptSpec

(* What a prompt claims of its documents is true of the text that was      *)
(* extracted, whatever requests store and withdraw while it is built: all  *)
(* of the document, except of a PDF with more pages than are read          *)
(* (build_document_context, _extract_pdf, _status_for).                    *)
THEOREM ContextTruthful == PromptSpec => []ContextIsTruthful
<1>1. PromptInv => ContextIsTruthful
  <2>1. SUFFICES ASSUME PromptInv PROVE ContextIsTruthful
    OBVIOUS
  <2>2. ASSUME NEW k \in Sources \ truncated PROVE SuppliedWhole(k)
    <3>1. k \in Keys /\ provided[k] = Extracted[k]
      BY <2>1, <2>2 DEF PromptInv, PromptTypeOK, Taken, Sources
    <3>2. k \notin CutPages => Extracted[k] = Chars[k]
      BY <3>1, ContextConstants DEF ContextConstants, CutPages
    <3> QED
      BY <3>1, <3>2 DEF SuppliedWhole
  <2>3. ASSUME step = "done", ExtractionStatus = "ready", NEW k \in DOMAIN provided
        PROVE  SuppliedWhole(k)
    <3>1. Errors = {} /\ truncated = {} /\ pending = {}
      BY <2>1, <2>3 DEF ExtractionStatus, PromptInv, OneOpen
    <3> QED
      BY <2>2, <2>3, <3>1 DEF Sources
  <2> QED
    BY <2>1, <2>2, <2>3 DEF ContextIsTruthful, PromptInv, PromptTypeOK, Taken
<1> QED
  BY <1>1, PromptInvariant, PTL

(* A document that was answered ready, without crossing another of its     *)
(* content, is not missing from a later prompt, except an upload when the  *)
(* backend is s3, for any requests, failures and deaths.                   *)
THEOREM ReadySupplied == PromptSpec => []ReadyIsSupplied
<1>1. PromptInv => ReadyIsSupplied
  BY DEF PromptInv
<1> QED
  BY <1>1, PromptInvariant, PTL

--------------------------------------------------------------------------------
(***************************************************************************)
(* The assignments: AgentVoice.  A route's commit meets the constraints of *)
(* the table on the rows of that moment (RowsPassChecks), and what it      *)
(* remembers of its read is still so (JobsNameRows).                       *)
(***************************************************************************)
(* What a route remembers still holds when it commits: the rows that a     *)
(* draft replaces are of its own agent, and the row that is judged or      *)
(* activated is one that was drafted.                                      *)
JobsNameRows ==
  \A c \in Clerks :
    /\ job[c].op # "none" => job[c].row \in Drafts
    /\ job[c].op = "draft" => \A v \in job[c].prior : AgentOf[v] = AgentOf[job[c].row]
    /\ job[c].op \in {"agree", "judge", "activate"} => assignment[job[c].row].state # "none"

(* The table's own checks hold of the committed rows.                      *)
RowsPassChecks == Constraints(assignment)

(* An agent with a row has an active one.                                  *)
AgentsCovered ==
  \A u \in Drafts :
    assignment[u].state # "none" =>
      \E v \in Drafts : assignment[v].active /\ AgentOf[v] = AgentOf[u]

VoiceInv == VoiceTypeOK /\ JobsNameRows /\ RowsPassChecks /\ AgentsCovered

JobType == [op : {"none", "draft", "agree", "judge", "activate"},
            row : Drafts \cup {Env}, prior : SUBSET Drafts, verdict : Verdicts]

(* At the start there are no rows and no jobs.                             *)
LEMMA VoiceInitInv == VoiceInit => VoiceInv
<1> SUFFICES ASSUME VoiceInit PROVE VoiceInv
  OBVIOUS
<1> USE DEF VoiceInit, NoRow, NoJob
<1>1. VoiceTypeOK
  BY VoiceConstants DEF VoiceTypeOK, AssignmentRows, Verdicts
<1>2. JobsNameRows
  BY DEF JobsNameRows
<1>3. RowsPassChecks
  BY DEF RowsPassChecks, Constraints, OnePerAgentAndVoice
<1>4. AgentsCovered
  BY DEF AgentsCovered
<1> QED
  BY <1>1, <1>2, <1>3, <1>4 DEF VoiceInv

(* A route that reads leaves the rows alone; what it remembers is what     *)
(* JobsNameRows asks of it.                                                *)
LEMMA ReadPreserves ==
  ASSUME VoiceInv, NEW c \in Clerks, NEW u \in Drafts,
         NEW op \in {"draft", "agree", "judge", "activate"},
         NEW prior \in SUBSET Drafts, NEW verdict \in Verdicts,
         StartJob(c, op, u, prior, verdict),
         op = "draft" => \A v \in prior : AgentOf[v] = AgentOf[u],
         op # "draft" => assignment[u].state # "none"
  PROVE  VoiceInv'
<1>1. /\ assignment' = assignment /\ jobs' = jobs + 1 /\ jobs < MaxJobs
      /\ job' = [job EXCEPT ![c] = [op |-> op, row |-> u, prior |-> prior, verdict |-> verdict]]
  BY DEF StartJob
<1>2. VoiceTypeOK'
  BY <1>1, VoiceConstants DEF VoiceInv, VoiceTypeOK
<1>3. JobsNameRows'
  BY <1>1 DEF VoiceInv, VoiceTypeOK, JobsNameRows
<1>4. RowsPassChecks' /\ AgentsCovered'
  BY <1>1 DEF VoiceInv, RowsPassChecks, AgentsCovered, Constraints, OnePerAgentAndVoice
<1> QED
  BY <1>2, <1>3, <1>4 DEF VoiceInv

(* A commit is refused, or the rows it makes pass the checks: what remains *)
(* to show of an operation is that its rows are well formed, that it makes *)
(* no row disappear and that every agent with a row keeps an active one.   *)
LEMMA CommitPreserves ==
  ASSUME VoiceInv, NEW c \in Clerks, NEW op \in {"draft", "agree", "judge", "activate"},
         NEW next \in [Drafts -> AssignmentRows],
         CommitJob(c, op, next),
         \A u \in Drafts : assignment[u].state # "none" => next[u].state # "none",
         \A u \in Drafts : next[u].state # "none" =>
           \E v \in Drafts : next[v].active /\ AgentOf[v] = AgentOf[u]
  PROVE  VoiceInv'
<1>1. /\ assignment' = IF Constraints(next) THEN next ELSE assignment
      /\ job' = [job EXCEPT ![c] = NoJob] /\ jobs' = jobs
  BY DEF CommitJob
<1>2. VoiceTypeOK'
  BY <1>1 DEF VoiceInv, VoiceTypeOK, NoJob, Verdicts
<1>3. \A u \in Drafts : assignment[u].state # "none" => assignment'[u].state # "none"
  BY <1>1
<1>4. JobsNameRows'
  BY <1>1, <1>3 DEF VoiceInv, VoiceTypeOK, JobsNameRows, NoJob
<1>5. RowsPassChecks'
  BY <1>1 DEF VoiceInv, RowsPassChecks, Constraints, OnePerAgentAndVoice
<1>6. AgentsCovered'
  BY <1>1 DEF VoiceInv, AgentsCovered
<1> QED
  BY <1>2, <1>4, <1>5, <1>6 DEF VoiceInv

(* A draft takes the place of the active rows of its own agent only.       *)
LEMMA DraftCommitPreserves ==
  ASSUME VoiceInv, NEW c \in Clerks, DraftCommit(c)
  PROVE  VoiceInv'
<1> DEFINE u == job[c].row
           next == WithDraft(c)
<1>1. /\ job[c].op = "draft" /\ CommitJob(c, "draft", next)
      /\ u \in Drafts /\ \A v \in job[c].prior : AgentOf[v] = AgentOf[u]
  BY DEF DraftCommit, CommitJob, VoiceInv, JobsNameRows
<1>2. next \in [Drafts -> AssignmentRows]
  <2> DEFINE prior == job[c].prior
  <2>1. \A v \in Drafts : [assignment[v] EXCEPT !.state = "DISABLED", !.active = FALSE]
                           \in AssignmentRows
    BY DEF VoiceInv, VoiceTypeOK, AssignmentRows
  <2>2. Replaced(prior) \in [Drafts -> AssignmentRows]
    BY <2>1 DEF VoiceInv, VoiceTypeOK, Replaced
  <2>3. [state |-> "DRAFT", verdict |-> "UNVALIDATED", active |-> TRUE] \in AssignmentRows
    BY DEF AssignmentRows, Verdicts
  <2> QED
    BY <1>1, <2>2, <2>3 DEF WithDraft
<1>3. /\ next[u] = [state |-> "DRAFT", verdict |-> "UNVALIDATED", active |-> TRUE]
      /\ \A v \in Drafts \ {u} :
           /\ v \in job[c].prior => next[v].state = "DISABLED"
           /\ v \notin job[c].prior => next[v] = assignment[v]
  BY <1>1 DEF VoiceInv, VoiceTypeOK, WithDraft, Replaced, AssignmentRows
<1>4. \A v \in Drafts : assignment[v].state # "none" => next[v].state # "none"
  BY <1>3
<1>5. ASSUME NEW v \in Drafts, next[v].state # "none"
      PROVE  \E w \in Drafts : next[w].active /\ AgentOf[w] = AgentOf[v]
  <2>1. CASE AgentOf[v] = AgentOf[u]
    BY <1>1, <1>3, <2>1
  <2>2. CASE AgentOf[v] # AgentOf[u]
    <3>1. v # u /\ v \notin job[c].prior /\ assignment[v].state # "none"
      BY <1>1, <1>3, <1>5, <2>2
    <3>2. PICK w \in Drafts : assignment[w].active /\ AgentOf[w] = AgentOf[v]
      BY <3>1 DEF VoiceInv, AgentsCovered
    <3>3. next[w] = assignment[w]
      BY <1>1, <1>3, <2>2, <3>2
    <3> QED
      BY <3>2, <3>3
  <2> QED
    BY <2>1, <2>2
<1> HIDE DEF next, u
<1> QED
  BY <1>1, <1>2, <1>4, <1>5, CommitPreserves

(* One row is replaced by a row that is as active and as drafted.          *)
LEMMA RowReplaced ==
  ASSUME VoiceInv, NEW u \in Drafts, NEW row \in AssignmentRows,
         NEW next \in {[assignment EXCEPT ![u] = row]},
         row.active = assignment[u].active,
         row.state = "none" <=> assignment[u].state = "none"
  PROVE  /\ next \in [Drafts -> AssignmentRows]
         /\ \A v \in Drafts : /\ next[v].active = assignment[v].active
                              /\ next[v].state = "none" <=> assignment[v].state = "none"
BY DEF VoiceInv, VoiceTypeOK

(* A verdict or an activation that is committed late leaves every row      *)
(* drafted and as active as it was.                                        *)
LEMMA RowCommitPreserves ==
  ASSUME VoiceInv, NEW c \in Clerks, NEW op \in {"agree", "judge", "activate"},
         NEW next \in [Drafts -> AssignmentRows],
         CommitJob(c, op, next),
         \A v \in Drafts : /\ next[v].active = assignment[v].active
                           /\ next[v].state = "none" <=> assignment[v].state = "none"
  PROVE  VoiceInv'
<1>1. \A v \in Drafts : next[v].state # "none" =>
        \E w \in Drafts : next[w].active /\ AgentOf[w] = AgentOf[v]
  BY DEF VoiceInv, AgentsCovered
<1> QED
  BY <1>1, CommitPreserves

LEMMA JudgeCommitPreserves ==
  ASSUME VoiceInv, NEW c \in Clerks, JudgeCommit(c)
  PROVE  VoiceInv'
<1>1. CASE CommitJob(c, "agree", assignment)
  BY <1>1, RowCommitPreserves DEF VoiceInv, VoiceTypeOK
<1>2. CASE CommitJob(c, "judge", [assignment EXCEPT ![job[c].row].verdict = job[c].verdict])
  <2> DEFINE next == [assignment EXCEPT ![job[c].row].verdict = job[c].verdict]
             u == job[c].row
             row == [assignment[u] EXCEPT !.verdict = job[c].verdict]
  <2>1. u \in Drafts /\ job[c].verdict \in Verdicts /\ assignment[u] \in AssignmentRows
    BY <1>2 DEF CommitJob, VoiceInv, VoiceTypeOK, JobsNameRows
  <2>2. /\ row \in AssignmentRows
        /\ row.active = assignment[u].active /\ row.state = assignment[u].state
    BY <2>1 DEF AssignmentRows
  <2>3. next = [assignment EXCEPT ![u] = row]
    OBVIOUS
  <2> HIDE DEF row, next, u
  <2>4. /\ next \in [Drafts -> AssignmentRows]
        /\ \A v \in Drafts : /\ next[v].active = assignment[v].active
                             /\ next[v].state = "none" <=> assignment[v].state = "none"
    BY <2>1, <2>2, <2>3, RowReplaced
  <2>5. CommitJob(c, "judge", next)
    BY <1>2 DEF next
  <2> QED
    BY <2>4, <2>5, RowCommitPreserves
<1> QED
  BY <1>1, <1>2 DEF JudgeCommit

LEMMA ActivateCommitPreserves ==
  ASSUME VoiceInv, NEW c \in Clerks, ActivateCommit(c)
  PROVE  VoiceInv'
<1> DEFINE u == job[c].row
           row == [assignment[u] EXCEPT !.state = "ACTIVE"]
           next == [assignment EXCEPT ![u].state = "ACTIVE"]
<1>1. CommitJob(c, "activate", next) /\ job[c].op = "activate"
  BY DEF ActivateCommit, CommitJob
<1>2. u \in Drafts /\ assignment[u] \in AssignmentRows /\ assignment[u].state # "none"
  BY <1>1 DEF VoiceInv, VoiceTypeOK, JobsNameRows
<1>3. row \in AssignmentRows /\ row.active = assignment[u].active /\ row.state # "none"
  BY <1>2 DEF AssignmentRows
<1>4. next = [assignment EXCEPT ![u] = row]
  OBVIOUS
<1> HIDE DEF row, next, u
<1>5. /\ next \in [Drafts -> AssignmentRows]
      /\ \A v \in Drafts : /\ next[v].active = assignment[v].active
                           /\ next[v].state = "none" <=> assignment[v].state = "none"
  BY <1>2, <1>3, <1>4, RowReplaced
<1> QED
  BY <1>1, <1>5, RowCommitPreserves

(* Every step of the routes preserves the invariant.                       *)
LEMMA VoiceStepInv == VoiceInv /\ [AdminStep]_voiceVars => VoiceInv'
<1> SUFFICES ASSUME VoiceInv, [AdminStep]_voiceVars PROVE VoiceInv'
  OBVIOUS
<1>1. CASE UNCHANGED voiceVars
  BY <1>1 DEF voiceVars, VoiceInv, VoiceTypeOK, JobsNameRows, RowsPassChecks,
              AgentsCovered, Constraints, OnePerAgentAndVoice
<1>2. ASSUME NEW c \in Clerks, NEW u \in Drafts, DraftRead(c, u)
      PROVE  VoiceInv'
  <2> DEFINE prior == {v \in Drafts : assignment[v].active /\ AgentOf[v] = AgentOf[u]}
  <2>1. StartJob(c, "draft", u, prior, "UNVALIDATED")
    BY <1>2 DEF DraftRead
  <2>2. prior \in SUBSET Drafts /\ \A v \in prior : AgentOf[v] = AgentOf[u]
    OBVIOUS
  <2> HIDE DEF prior
  <2>3. "UNVALIDATED" \in Verdicts
    BY DEF Verdicts
  <2> QED
    BY <2>1, <2>2, <2>3, ReadPreserves
<1>3. ASSUME NEW c \in Clerks, NEW u \in Drafts, ActivateRead(c, u)
      PROVE  VoiceInv'
  <2>1. StartJob(c, "activate", u, {}, "VALIDATED") /\ assignment[u].state # "none"
    BY <1>3 DEF ActivateRead, IsDraft
  <2>2. "VALIDATED" \in Verdicts
    BY DEF Verdicts
  <2> QED
    BY <2>1, <2>2, ReadPreserves
<1>4. ASSUME NEW c \in Clerks, NEW u \in Drafts, NEW verdict \in {"VALIDATED", "FAILED"},
             JudgeRead(c, u, verdict)
      PROVE  VoiceInv'
  <2>1. PICK op \in {"agree", "judge"} : StartJob(c, op, u, {}, verdict)
    BY <1>4 DEF JudgeRead
  <2>2. assignment[u].state # "none"
    BY <1>4 DEF JudgeRead, IsDraft
  <2>3. verdict \in Verdicts
    BY DEF Verdicts
  <2> QED
    BY <2>1, <2>2, <2>3, ReadPreserves
<1>5. CASE AdminStep
  BY <1>2, <1>3, <1>4, <1>5, DraftCommitPreserves, JudgeCommitPreserves,
     ActivateCommitPreserves DEF AdminStep
<1> QED
  BY <1>1, <1>5

(* What a route remembers of the assignments still holds when it commits   *)
(* (the admin voice routes of routes.py).                                  *)
THEOREM VoiceInvariant == VoiceSpec => []VoiceInv
<1> QED
  BY VoiceInitInv, VoiceStepInv, PTL DEF VoiceSpec

(* Rows, jobs and the number of requests are what AgentVoice says of them  *)
(* (AgentVoiceAssignment and its constraints).                             *)
THEOREM VoiceTypeCorrect == VoiceSpec => []VoiceTypeOK
<1>1. VoiceInv => VoiceTypeOK
  BY DEF VoiceInv
<1> QED
  BY <1>1, VoiceInvariant, PTL

(* However the administrators' routes interleave between what they read    *)
(* and their commits, an agent that was given an assignment keeps an       *)
(* active one, and no voice in force was judged otherwise than valid.      *)
THEOREM AgentsKeepAValidVoice == VoiceSpec => []OneAssignment
<1>1. VoiceInv => OneAssignment
  BY DEF VoiceInv, AgentsCovered, RowsPassChecks, Constraints, OneAssignment, InForce
<1> QED
  BY <1>1, VoiceInvariant, PTL

--------------------------------------------------------------------------------
(***************************************************************************)
(* The playbacks: SpeechPlayback beside the administrators of AgentVoice.  *)
(* A profile, once resolved, stays; whatever audio a request, a response   *)
(* file or a cache file holds for a profile was synthesized for it         *)
(* (AudioFits); and the lock of a key is held by at most one request that  *)
(* is past it unless a lock of that key was broken (Owners).               *)
(***************************************************************************)
Reserving == {"looking", "locking", "rechecking", "aging", "breaking"}

Owning == {"reading", "calling", "opening", "writing", "renaming", "completing", "releasing"}

Unopened == Reserving \cup {"idle", "reading", "calling", "opening"}

(* A profile is resolved on arrival; the key's steps are a keyed request's.*)
Resolved ==
  \A r \in Plays :
    /\ play[r] = "idle" => profile[r] = Silence
    /\ play[r] \notin {"idle", "gone"} => profile[r] \in Sounds
    /\ r \in called => profile[r] \in Sounds /\ play[r] \notin Unopened \ {"opening"}
    /\ play[r] \in Reserving \cup {"completing", "releasing"} => Keyed(r)

(* Audio that was synthesized for the profile v.                           *)
Fits(a, v) ==
  /\ a \in Plays => a \in called /\ profile[a] = v
  /\ a = "mixed" => v \in shared

AudioFits ==
  /\ \A r \in Plays :
       Fits(clip[r], profile[r]) /\ Fits(bytes[r], profile[r]) /\ Fits(heard[r], profile[r])
  /\ \A s \in Slots : Fits(response[s], s[2])

(* The files of a profile were created for it.                             *)
MadeFor(f, v) == f \in Plays => profile[f] = v /\ play[f] \notin Unopened

FilesFit ==
  /\ \A v \in Sounds : /\ MadeFor(tmp[v], v) /\ MadeFor(cache[v], v)
                       /\ cache[v] # Silence => tmp[v] # cache[v]
  /\ \A r \in Plays : /\ MadeFor(file[r], profile[r])
                      /\ file[r] # Silence => play[r] \notin Unopened
                      /\ file[r] \notin {r, Silence} => profile[r] \in shared

(* Who writes holds its own audio and, if no other opened its file, writes *)
(* it alone.                                                               *)
Writers ==
  \A r \in Plays :
    /\ play[r] \in {"opening", "writing", "renaming"} => clip[r] = r
    /\ play[r] = "completing" => clip[r] # Silence
    /\ play[r] \in {"writing", "renaming"} =>
         /\ file[r] # Silence
         /\ profile[r] \notin shared =>
              /\ tmp[profile[r]] = r
              /\ bytes[r] = IF play[r] = "writing" THEN "empty" ELSE r

(* A cache file that one request alone wrote is whole.                     *)
CacheWhole ==
  \A v \in Sounds : cache[v] # Silence /\ v \notin shared => bytes[cache[v]] = cache[v]

Owners ==
  \A r \in Plays : Keyed(r) /\ play[r] \in Owning /\ Slot(r) \notin broken => lock[Slot(r)] = r

(* Of an undisturbed key, the one that was given audio still holds the     *)
(* lock or has filled the cache, and nobody else asks the provider.        *)
Once ==
  \A p \in called : Keyed(p) /\ Undisturbed(p) =>
    /\ \/ lock[Slot(p)] = p /\ play[p] \in {"opening", "writing", "renaming", "gone"}
       \/ cache[profile[p]] # Silence
    /\ \A q \in Plays : Slot(q) = Slot(p) /\ (play[q] = "calling" \/ q \in called) => q = p

SoundInv == PlayTypeOK /\ Resolved /\ AudioFits /\ FilesFit /\ Writers

PlayInv == SoundInv /\ (CacheEnabled => CacheWhole /\ Owners /\ Once)

(* The slot of a request that has a key and a profile.                     *)
LEMMA SlotOf ==
  ASSUME NEW r \in Plays, Keyed(r), profile[r] \in Sounds
  PROVE  Slot(r) \in Slots /\ Slot(r)[2] = profile[r]
BY DEF Slots, Slot, PlayKeys, Keyed, Identity

LEMMA SameSlot ==
  ASSUME NEW r \in Plays, NEW q \in Plays
  PROVE  Slot(r) = Slot(q) <=> PlayKey[r] = PlayKey[q] /\ profile[r] = profile[q]
BY DEF Slot, Identity

LEMMA SlotStays ==
  ASSUME NEW r \in Plays, profile'[r] = profile[r]
  PROVE  Slot(r)' = Slot(r)
BY DEF Slot, Identity

LEMMA ProfilesAreSounds == Profiles(Speaker) \subseteq Sounds
BY DEF Profiles, InForce, Sounds

(* A new request resolves its profile; nothing is made of it yet.          *)
LEMMA PlayArrivePreserves ==
  ASSUME PlayInv, NEW r \in Plays, PlayArrive(r)
  PROVE  PlayInv'
<1>1. PlayTypeOK'
  BY ProfilesAreSounds DEF PlayArrive, Quiet, fileVars, PlayInv, SoundInv,
        PlayTypeOK, PlaySteps
<1>2. Resolved'
  BY ProfilesAreSounds DEF PlayArrive, Quiet, PlayInv, SoundInv, PlayTypeOK,
        Resolved, Reserving, Unopened
<1>3. AudioFits'
  BY PlayConstants DEF PlayArrive, Quiet, fileVars, PlayInv, SoundInv,
        PlayTypeOK, Resolved, AudioFits, Fits, Sounds
<1>4. FilesFit'
  BY PlayConstants DEF PlayArrive, fileVars, PlayInv, SoundInv, FilesFit,
        MadeFor, Unopened
<1>5. Writers'
  BY DEF PlayArrive, Quiet, fileVars, PlayInv, SoundInv, Writers
<1>6. CacheEnabled => CacheWhole'
  BY DEF PlayArrive, fileVars, PlayInv, CacheWhole
<1>7. CacheEnabled => Owners'
  BY SlotStays DEF PlayArrive, fileVars, PlayInv, Owners, Owning
<1>8. CacheEnabled => Once'
  BY SlotStays DEF PlayArrive, Quiet, fileVars, PlayInv, SoundInv, PlayTypeOK,
        Resolved, Once, Undisturbed, Unopened
<1> QED
  BY <1>1, <1>2, <1>3, <1>4, <1>5, <1>6, <1>7, <1>8 DEF PlayInv, SoundInv

(* A response file of the slot fits the profile of the slot.               *)
LEMMA ReplayPreserves ==
  ASSUME PlayInv, NEW r \in Plays, Replays(r, "looking", "locking") \/ Replays(r, "rechecking", "aging")
  PROVE  PlayInv'
<1>1. PlayTypeOK'
  BY SlotOf DEF Replays, PlayGoto, Holding, fileVars, PlayInv, SoundInv,
        PlayTypeOK, PlaySteps, Resolved, Reserving
<1>2. Resolved'
  BY DEF Replays, PlayGoto, PlayInv, SoundInv, PlayTypeOK, Resolved,
        Reserving, Unopened
<1>3. AudioFits'
  BY SlotOf DEF Replays, PlayGoto, Holding, fileVars, PlayInv, SoundInv,
        PlayTypeOK, Resolved, AudioFits, Fits, Reserving
<1>4. FilesFit'
  BY DEF Replays, PlayGoto, fileVars, PlayInv, SoundInv, PlayTypeOK, FilesFit,
        MadeFor, Unopened, Reserving
<1>5. Writers'
  BY DEF Replays, PlayGoto, Holding, fileVars, PlayInv, SoundInv, PlayTypeOK,
        Writers
<1>6. CacheEnabled => CacheWhole'
  BY DEF Replays, fileVars, PlayInv, CacheWhole
<1>7. CacheEnabled => Owners'
  BY SlotStays DEF Replays, PlayGoto, fileVars, PlayInv, SoundInv, PlayTypeOK,
        Owners, Owning
<1>8. CacheEnabled => Once'
  BY SlotStays DEF Replays, PlayGoto, fileVars, PlayInv, SoundInv, PlayTypeOK,
        Once, Undisturbed
<1> QED
  BY <1>1, <1>2, <1>3, <1>4, <1>5, <1>6, <1>7, <1>8 DEF PlayInv, SoundInv

(* Who takes a free lock is the only owner of its slot.                    *)
LEMMA LockTakenPreserves ==
  ASSUME PlayInv, NEW r \in Plays, AcquireLock(r), lock[Slot(r)] = Silence
  PROVE  PlayInv'
<1>1. PlayTypeOK'
  <2>1. Slot(r) \in Slots /\ play[r] = "locking"
    BY SlotOf DEF AcquireLock, PlayInv, SoundInv, Resolved, Reserving
  <2>2. play' \in [Plays -> PlaySteps] /\ lock' \in [Slots -> Plays \cup {Silence}]
    BY <2>1 DEF AcquireLock, PlayGoto, PlayInv, SoundInv, PlayTypeOK, PlaySteps
  <2> QED
    BY <2>1, <2>2 DEF AcquireLock, PlayGoto, Quiet, PlayInv, SoundInv, PlayTypeOK
<1>2. Resolved'
  BY DEF AcquireLock, PlayGoto, Quiet, PlayInv, SoundInv, PlayTypeOK,
        Resolved, Reserving, Unopened
<1>3. AudioFits'
  BY DEF AcquireLock, PlayGoto, Quiet, PlayInv, SoundInv, AudioFits, Fits
<1>4. FilesFit'
  BY DEF AcquireLock, PlayGoto, PlayInv, SoundInv, PlayTypeOK, FilesFit,
        MadeFor, Unopened, Reserving
<1>5. Writers'
  BY DEF AcquireLock, PlayGoto, Quiet, PlayInv, SoundInv, PlayTypeOK, Writers
<1>6. CacheEnabled => CacheWhole'
  BY DEF AcquireLock, PlayInv, CacheWhole
<1>7. CacheEnabled => Owners'
  BY SlotOf, SlotStays, PlayConstants DEF AcquireLock, PlayGoto, PlayInv,
        SoundInv, PlayTypeOK, Resolved, Owners, Owning
<1>8. CacheEnabled => Once'
  BY SlotOf, SlotStays, PlayConstants DEF AcquireLock, PlayGoto, Quiet,
        PlayInv, SoundInv, PlayTypeOK, Once, Undisturbed
<1> QED
  BY <1>1, <1>2, <1>3, <1>4, <1>5, <1>6, <1>7, <1>8 DEF PlayInv, SoundInv

LEMMA LockSeenPreserves ==
  ASSUME PlayInv, NEW r \in Plays, AcquireLock(r), lock[Slot(r)] # Silence
  PROVE  PlayInv'
<1>1. PlayTypeOK'
  BY DEF AcquireLock, PlayGoto, Quiet, PlayInv, SoundInv, PlayTypeOK,
        PlaySteps
<1>2. Resolved'
  BY DEF AcquireLock, PlayGoto, Quiet, PlayInv, SoundInv, PlayTypeOK,
        Resolved, Reserving, Unopened
<1>3. AudioFits'
  BY DEF AcquireLock, PlayGoto, Quiet, PlayInv, SoundInv, AudioFits, Fits
<1>4. FilesFit'
  BY DEF AcquireLock, PlayGoto, PlayInv, SoundInv, PlayTypeOK, FilesFit,
        MadeFor, Unopened, Reserving
<1>5. Writers'
  BY DEF AcquireLock, PlayGoto, Quiet, PlayInv, SoundInv, PlayTypeOK, Writers
<1>6. CacheEnabled => CacheWhole'
  BY DEF AcquireLock, PlayInv, CacheWhole
<1>7. CacheEnabled => Owners'
  BY SlotStays DEF AcquireLock, PlayGoto, PlayInv, SoundInv, PlayTypeOK,
        Owners, Owning
<1>8. CacheEnabled => Once'
  BY SlotStays DEF AcquireLock, PlayGoto, Quiet, PlayInv, SoundInv,
        PlayTypeOK, Once, Undisturbed
<1> QED
  BY <1>1, <1>2, <1>3, <1>4, <1>5, <1>6, <1>7, <1>8 DEF PlayInv, SoundInv

LEMMA InspectPreserves ==
  ASSUME PlayInv, NEW r \in Plays, InspectLock(r)
  PROVE  PlayInv'
<1>1. PlayTypeOK'
  BY DEF InspectLock, PlayGoto, Quiet, fileVars, PlayInv, SoundInv,
        PlayTypeOK, PlaySteps
<1>2. Resolved'
  BY DEF InspectLock, PlayGoto, Quiet, PlayInv, SoundInv, Resolved, Reserving,
        Unopened
<1>3. AudioFits'
  BY DEF InspectLock, PlayGoto, Quiet, fileVars, PlayInv, SoundInv, AudioFits,
        Fits
<1>4. FilesFit'
  BY DEF InspectLock, PlayGoto, fileVars, PlayInv, SoundInv, FilesFit,
        MadeFor, Unopened, Reserving
<1>5. Writers'
  BY DEF InspectLock, PlayGoto, Quiet, fileVars, PlayInv, SoundInv, Writers
<1>6. CacheEnabled => CacheWhole'
  BY DEF InspectLock, fileVars, PlayInv, CacheWhole
<1>7. CacheEnabled => Owners'
  BY SlotStays DEF InspectLock, PlayGoto, fileVars, PlayInv, Owners, Owning
<1>8. CacheEnabled => Once'
  BY SlotStays DEF InspectLock, PlayGoto, Quiet, fileVars, PlayInv, SoundInv,
        PlayTypeOK, Once, Undisturbed
<1> QED
  BY <1>1, <1>2, <1>3, <1>4, <1>5, <1>6, <1>7, <1>8 DEF PlayInv, SoundInv

LEMMA DeadlinePreserves ==
  ASSUME PlayInv, NEW r \in Plays, KeyDeadline(r)
  PROVE  PlayInv'
<1>1. PlayTypeOK'
  BY DEF KeyDeadline, PlayGoto, fileVars, PlayInv, SoundInv, PlayTypeOK,
        PlaySteps
<1>2. Resolved'
  BY DEF KeyDeadline, PlayGoto, PlayInv, SoundInv, Resolved, Reserving,
        Unopened
<1>3. AudioFits'
  BY PlayConstants DEF KeyDeadline, PlayGoto, fileVars, PlayInv, SoundInv,
        AudioFits, Fits, Marks
<1>4. FilesFit'
  BY DEF KeyDeadline, PlayGoto, fileVars, PlayInv, SoundInv, FilesFit,
        MadeFor, Unopened, Reserving
<1>5. Writers'
  BY DEF KeyDeadline, PlayGoto, fileVars, PlayInv, SoundInv, Writers
<1>6. CacheEnabled => CacheWhole'
  BY DEF KeyDeadline, fileVars, PlayInv, CacheWhole
<1>7. CacheEnabled => Owners'
  BY SlotStays DEF KeyDeadline, PlayGoto, fileVars, PlayInv, Owners, Owning
<1>8. CacheEnabled => Once'
  BY SlotStays DEF KeyDeadline, PlayGoto, fileVars, PlayInv, SoundInv,
        PlayTypeOK, Once, Undisturbed
<1> QED
  BY <1>1, <1>2, <1>3, <1>4, <1>5, <1>6, <1>7, <1>8 DEF PlayInv, SoundInv

(* A slot whose lock is broken is disturbed from then on.                  *)
LEMMA BreakPreserves ==
  ASSUME PlayInv, NEW r \in Plays, BreakLock(r)
  PROVE  PlayInv'
<1>1. PlayTypeOK'
  BY SlotOf DEF BreakLock, Unlinked, PlayGoto, Quiet, PlayInv, SoundInv,
        PlayTypeOK, PlaySteps, Resolved, Reserving
<1>2. Resolved'
  BY DEF BreakLock, PlayGoto, Quiet, PlayInv, SoundInv, Resolved, Reserving,
        Unopened
<1>3. AudioFits'
  BY DEF BreakLock, PlayGoto, Quiet, PlayInv, SoundInv, AudioFits, Fits
<1>4. FilesFit'
  BY DEF BreakLock, PlayGoto, PlayInv, SoundInv, FilesFit, MadeFor, Unopened,
        Reserving
<1>5. Writers'
  BY DEF BreakLock, PlayGoto, Quiet, PlayInv, SoundInv, Writers
<1>6. CacheEnabled => CacheWhole'
  BY DEF BreakLock, PlayInv, CacheWhole
<1>7. CacheEnabled => Owners'
  BY SlotStays DEF BreakLock, Unlinked, PlayGoto, PlayInv, Owners
<1>8. CacheEnabled => Once'
  BY SlotStays DEF BreakLock, Unlinked, PlayGoto, Quiet, PlayInv, SoundInv,
        PlayTypeOK, Once, Undisturbed
<1> QED
  BY <1>1, <1>2, <1>3, <1>4, <1>5, <1>6, <1>7, <1>8 DEF PlayInv, SoundInv

(* A miss of an owner means that no other of its slot was given audio: it  *)
(* would have filled the cache.                                            *)
LEMMA ReadCachePreserves ==
  ASSUME PlayInv, NEW r \in Plays, ReadCache(r)
  PROVE  PlayInv'
<1>1. PlayTypeOK'
  BY DEF ReadCache, Done, Identity, PlayGoto, Holding, fileVars, PlayInv,
        SoundInv, PlayTypeOK, PlaySteps, Resolved
<1>2. Resolved'
  BY DEF ReadCache, Done, PlayGoto, PlayInv, SoundInv, PlayTypeOK, Resolved,
        Reserving, Unopened
<1>3. AudioFits'
  BY DEF ReadCache, Identity, PlayGoto, Holding, fileVars, PlayInv, SoundInv,
        PlayTypeOK, Resolved, AudioFits, Fits, FilesFit, MadeFor
<1>4. FilesFit'
  BY DEF ReadCache, PlayGoto, fileVars, PlayInv, SoundInv, PlayTypeOK,
        FilesFit, MadeFor, Unopened
<1>5. Writers'
  BY PlayConstants DEF ReadCache, Done, Identity, PlayGoto, Holding, fileVars,
        PlayInv, SoundInv, PlayTypeOK, Resolved, Writers, Audio, Marks
<1>6. CacheEnabled => CacheWhole'
  BY DEF ReadCache, fileVars, PlayInv, CacheWhole
<1>7. CacheEnabled => Owners'
  BY SlotStays DEF ReadCache, PlayGoto, fileVars, PlayInv, SoundInv,
        PlayTypeOK, Owners, Owning
<1>8. CacheEnabled => Once'
  BY SameSlot, SlotStays, PlayConstants DEF ReadCache, Done, Identity,
        PlayGoto, fileVars, PlayInv, SoundInv, PlayTypeOK, Owners, Once,
        CacheWhole, Undisturbed, Keyed, Owning, Marks
<1> QED
  BY <1>1, <1>2, <1>3, <1>4, <1>5, <1>6, <1>7, <1>8 DEF PlayInv, SoundInv

(* Of an undisturbed slot, whoever else was given audio is the owner.      *)
LEMMA SynthesisPreserves ==
  ASSUME PlayInv, NEW r \in Plays, Synthesis(r)
  PROVE  PlayInv'
<1>1. PlayTypeOK'
  BY DEF Synthesis, Done, PlayGoto, Holding, fileVars, PlayInv, SoundInv,
        PlayTypeOK, PlaySteps, Audio
<1>2. Resolved'
  BY DEF Synthesis, Done, PlayGoto, PlayInv, SoundInv, PlayTypeOK, Resolved,
        Reserving, Unopened
<1>3. AudioFits'
  BY PlayConstants DEF Synthesis, PlayGoto, Holding, fileVars, PlayInv,
        SoundInv, AudioFits, Fits, Marks
<1>4. FilesFit'
  BY DEF Synthesis, PlayGoto, fileVars, PlayInv, SoundInv, FilesFit, MadeFor,
        Unopened
<1>5. Writers'
  BY DEF Synthesis, Done, PlayGoto, Holding, fileVars, PlayInv, SoundInv,
        PlayTypeOK, Writers, FilesFit, MadeFor, Unopened
<1>6. CacheEnabled => CacheWhole'
  BY DEF Synthesis, fileVars, PlayInv, CacheWhole
<1>7. CacheEnabled => Owners'
  BY SlotStays DEF Synthesis, PlayGoto, fileVars, PlayInv, Owners, Owning
<1>8. CacheEnabled => Once'
  BY SameSlot, SlotStays DEF Synthesis, PlayGoto, fileVars, PlayInv, SoundInv,
        PlayTypeOK, Owners, Once, Undisturbed, Keyed, Owning
<1> QED
  BY <1>1, <1>2, <1>3, <1>4, <1>5, <1>6, <1>7, <1>8 DEF PlayInv, SoundInv

LEMMA SynthesisFailsPreserves ==
  ASSUME PlayInv, NEW r \in Plays, SynthesisFails(r)
  PROVE  PlayInv'
<1>1. PlayTypeOK'
  BY DEF SynthesisFails, PlayRaises, PlayGoto, Quiet, fileVars, PlayInv,
        SoundInv, PlayTypeOK, PlaySteps
<1>2. Resolved'
  BY DEF SynthesisFails, PlayRaises, PlayGoto, Quiet, PlayInv, SoundInv,
        Resolved, Reserving, Unopened
<1>3. AudioFits'
  BY DEF SynthesisFails, PlayRaises, PlayGoto, Quiet, fileVars, PlayInv,
        SoundInv, AudioFits, Fits
<1>4. FilesFit'
  BY DEF SynthesisFails, PlayRaises, PlayGoto, fileVars, PlayInv, SoundInv,
        FilesFit, MadeFor, Unopened
<1>5. Writers'
  BY DEF SynthesisFails, PlayRaises, PlayGoto, Quiet, fileVars, PlayInv,
        SoundInv, Writers
<1>6. CacheEnabled => CacheWhole'
  BY DEF SynthesisFails, fileVars, PlayInv, CacheWhole
<1>7. CacheEnabled => Owners'
  BY SlotStays DEF SynthesisFails, PlayRaises, PlayGoto, fileVars, PlayInv,
        Owners, Owning
<1>8. CacheEnabled => Once'
  BY SlotStays DEF SynthesisFails, PlayRaises, PlayGoto, Quiet, fileVars,
        PlayInv, SoundInv, PlayTypeOK, Once, Undisturbed
<1> QED
  BY <1>1, <1>2, <1>3, <1>4, <1>5, <1>6, <1>7, <1>8 DEF PlayInv, SoundInv

(* The file is created, or another request's is opened and truncated: the  *)
(* profile is shared.                                                      *)
LEMMA OpenPreserves ==
  ASSUME PlayInv, NEW r \in Plays, OpenTmp(r)
  PROVE  PlayInv'
<1>1. PlayTypeOK'
  BY DEF OpenTmp, Identity, PlayGoto, Quiet, PlayInv, SoundInv, PlayTypeOK,
        PlaySteps, Resolved
<1>2. Resolved'
  BY DEF OpenTmp, PlayGoto, Quiet, PlayInv, SoundInv, Resolved, Reserving,
        Unopened
<1>3. AudioFits'
  BY PlayConstants DEF OpenTmp, PlayGoto, Quiet, PlayInv, SoundInv, AudioFits,
        Fits, Marks
<1>4. FilesFit'
  BY DEF OpenTmp, Identity, PlayGoto, PlayInv, SoundInv, PlayTypeOK, Resolved,
        FilesFit, MadeFor, Unopened, Reserving
<1>5. Writers'
  BY DEF OpenTmp, Identity, PlayGoto, Quiet, PlayInv, SoundInv, PlayTypeOK,
        Resolved, Writers, FilesFit, MadeFor, Unopened
<1>6. CacheEnabled => CacheWhole'
  BY DEF OpenTmp, Identity, PlayGoto, PlayInv, SoundInv, PlayTypeOK, Resolved,
        FilesFit, MadeFor, Unopened, CacheWhole
<1>7. CacheEnabled => Owners'
  BY SlotStays DEF OpenTmp, PlayGoto, PlayInv, Owners, Owning
<1>8. CacheEnabled => Once'
  BY SlotStays DEF OpenTmp, PlayGoto, Quiet, PlayInv, SoundInv, PlayTypeOK,
        Once, Undisturbed
<1> QED
  BY <1>1, <1>2, <1>3, <1>4, <1>5, <1>6, <1>7, <1>8 DEF PlayInv, SoundInv

(* Two that write one file share its profile.                              *)
LEMMA WritePreserves ==
  ASSUME PlayInv, NEW r \in Plays, WriteTmp(r)
  PROVE  PlayInv'
<1>1. PlayTypeOK'
  BY DEF WriteTmp, PlayGoto, Quiet, PlayInv, SoundInv, PlayTypeOK, PlaySteps,
        Audio, Writers
<1>2. Resolved'
  BY DEF WriteTmp, PlayGoto, Quiet, PlayInv, SoundInv, Resolved, Reserving,
        Unopened
<1>3. AudioFits'
  BY PlayConstants DEF WriteTmp, PlayGoto, Quiet, PlayInv, SoundInv,
        AudioFits, Fits, Writers, FilesFit, MadeFor, Marks
<1>4. FilesFit'
  BY DEF WriteTmp, PlayGoto, PlayInv, SoundInv, FilesFit, MadeFor, Unopened,
        Reserving
<1>5. Writers'
  BY DEF WriteTmp, PlayGoto, Quiet, PlayInv, SoundInv, PlayTypeOK, Writers,
        FilesFit, MadeFor
<1>6. CacheEnabled => CacheWhole'
  BY DEF WriteTmp, PlayGoto, PlayInv, SoundInv, PlayTypeOK, Writers, FilesFit,
        MadeFor, CacheWhole
<1>7. CacheEnabled => Owners'
  BY SlotStays DEF WriteTmp, PlayGoto, PlayInv, Owners, Owning
<1>8. CacheEnabled => Once'
  BY SlotStays DEF WriteTmp, PlayGoto, Quiet, PlayInv, SoundInv, PlayTypeOK,
        Once, Undisturbed
<1> QED
  BY <1>1, <1>2, <1>3, <1>4, <1>5, <1>6, <1>7, <1>8 DEF PlayInv, SoundInv

(* Unless the profile is shared, the file is the request's own and whole.  *)
LEMMA RenamePreserves ==
  ASSUME PlayInv, NEW r \in Plays, Rename(r)
  PROVE  PlayInv'
<1>1. PlayTypeOK'
  <2>1. play[r] = "renaming" /\ profile[r] \in Sounds /\ Silence \notin Sounds
    BY PlayConstants DEF Rename, PlayInv, SoundInv, Resolved, Sounds
  <2>2. play' \in [Plays -> PlaySteps]
    BY <2>1 DEF Rename, PlayGoto, PlayRaises, Done, PlayInv, SoundInv, PlayTypeOK, PlaySteps
  <2>3. tmp' \in [Sounds -> Plays \cup {Silence}] /\ cache' \in [Sounds -> Plays \cup {Silence}]
    BY <2>1 DEF Rename, Identity, PlayInv, SoundInv, PlayTypeOK
  <2> QED
    BY <2>1, <2>2, <2>3
    DEF Rename, PlayGoto, PlayRaises, Holding, PlayInv, SoundInv, PlayTypeOK
<1>2. Resolved'
  BY DEF Rename, PlayRaises, Done, PlayGoto, PlayInv, SoundInv, PlayTypeOK,
        Resolved, Reserving, Unopened
<1>3. AudioFits'
  BY PlayConstants DEF Rename, PlayRaises, PlayGoto, Holding, PlayInv,
        SoundInv, PlayTypeOK, AudioFits, Fits, Marks
<1>4. FilesFit'
  BY PlayConstants DEF Rename, PlayRaises, Done, PlayGoto, PlayInv, SoundInv,
        PlayTypeOK, FilesFit, MadeFor, Unopened, Reserving
<1>5. Writers'
  BY PlayConstants DEF Rename, PlayRaises, Identity, Done, PlayGoto, Holding,
        PlayInv, SoundInv, PlayTypeOK, Writers
<1>6. CacheEnabled => CacheWhole'
  BY DEF Rename, Identity, PlayInv, SoundInv, PlayTypeOK, Writers, CacheWhole
<1>7. CacheEnabled => Owners'
  BY SlotStays DEF Rename, PlayRaises, PlayGoto, PlayInv, SoundInv,
        PlayTypeOK, Owners, Owning
<1>8. CacheEnabled => Once'
  BY SlotStays, PlayConstants DEF Rename, PlayRaises, Identity, Done,
        PlayGoto, PlayInv, SoundInv, PlayTypeOK, Once, Undisturbed, Writers
<1> QED
  BY <1>1, <1>2, <1>3, <1>4, <1>5, <1>6, <1>7, <1>8 DEF PlayInv, SoundInv

LEMMA CompletePreserves ==
  ASSUME PlayInv, NEW r \in Plays, CompleteKey(r)
  PROVE  PlayInv'
<1>1. PlayTypeOK'
  BY DEF CompleteKey, PlayGoto, Quiet, PlayInv, SoundInv, PlayTypeOK,
        PlaySteps
<1>2. Resolved'
  BY DEF CompleteKey, PlayGoto, Quiet, PlayInv, SoundInv, Resolved, Reserving,
        Unopened
<1>3. AudioFits'
  BY SlotOf DEF CompleteKey, PlayGoto, Quiet, PlayInv, SoundInv, Resolved,
        AudioFits, Fits
<1>4. FilesFit'
  BY DEF CompleteKey, PlayGoto, PlayInv, SoundInv, FilesFit, MadeFor,
        Unopened, Reserving
<1>5. Writers'
  BY DEF CompleteKey, PlayGoto, Quiet, PlayInv, SoundInv, Writers
<1>6. CacheEnabled => CacheWhole'
  BY DEF CompleteKey, PlayInv, CacheWhole
<1>7. CacheEnabled => Owners'
  BY SlotStays DEF CompleteKey, PlayGoto, PlayInv, Owners, Owning
<1>8. CacheEnabled => Once'
  BY SlotStays DEF CompleteKey, PlayGoto, Quiet, PlayInv, SoundInv,
        PlayTypeOK, Once, Undisturbed
<1> QED
  BY <1>1, <1>2, <1>3, <1>4, <1>5, <1>6, <1>7, <1>8 DEF PlayInv, SoundInv

(* Unless a lock of the slot was broken, the lock is the request's own.    *)
LEMMA ReleasePreserves ==
  ASSUME PlayInv, NEW r \in Plays, ReleaseKey(r)
  PROVE  PlayInv'
<1>1. PlayTypeOK'
  BY DEF ReleaseKey, Unlinked, PlayGoto, Quiet, PlayInv, SoundInv, PlayTypeOK,
        PlaySteps
<1>2. Resolved'
  BY DEF ReleaseKey, PlayGoto, Quiet, PlayInv, SoundInv, Resolved, Reserving,
        Unopened
<1>3. AudioFits'
  BY DEF ReleaseKey, PlayGoto, Quiet, PlayInv, SoundInv, AudioFits, Fits
<1>4. FilesFit'
  BY DEF ReleaseKey, PlayGoto, PlayInv, SoundInv, FilesFit, MadeFor, Unopened,
        Reserving
<1>5. Writers'
  BY DEF ReleaseKey, PlayGoto, Quiet, PlayInv, SoundInv, Writers
<1>6. CacheEnabled => CacheWhole'
  BY DEF ReleaseKey, PlayInv, CacheWhole
<1>7. CacheEnabled => Owners'
  BY SlotStays DEF ReleaseKey, Unlinked, PlayGoto, PlayInv, SoundInv,
        PlayTypeOK, Resolved, Owners, Owning
<1>8. CacheEnabled => Once'
  BY SlotStays DEF ReleaseKey, Unlinked, PlayGoto, Quiet, PlayInv, SoundInv,
        PlayTypeOK, Resolved, Owners, Once, Undisturbed, Owning
<1> QED
  BY <1>1, <1>2, <1>3, <1>4, <1>5, <1>6, <1>7, <1>8 DEF PlayInv, SoundInv

LEMMA AnswerPreserves ==
  ASSUME PlayInv, NEW r \in Plays, PlayAnswer(r)
  PROVE  PlayInv'
<1>1. PlayTypeOK'
  BY DEF PlayAnswer, PlayGoto, fileVars, PlayInv, SoundInv, PlayTypeOK,
        PlaySteps
<1>2. Resolved'
  BY DEF PlayAnswer, PlayGoto, PlayInv, SoundInv, Resolved, Reserving,
        Unopened
<1>3. AudioFits'
  BY PlayConstants DEF PlayAnswer, PlayGoto, fileVars, PlayInv, SoundInv,
        AudioFits, Fits, Marks
<1>4. FilesFit'
  BY DEF PlayAnswer, PlayGoto, fileVars, PlayInv, SoundInv, FilesFit, MadeFor,
        Unopened, Reserving
<1>5. Writers'
  BY DEF PlayAnswer, PlayGoto, fileVars, PlayInv, SoundInv, Writers
<1>6. CacheEnabled => CacheWhole'
  BY DEF PlayAnswer, fileVars, PlayInv, CacheWhole
<1>7. CacheEnabled => Owners'
  BY SlotStays DEF PlayAnswer, PlayGoto, fileVars, PlayInv, Owners, Owning
<1>8. CacheEnabled => Once'
  BY SlotStays DEF PlayAnswer, PlayGoto, fileVars, PlayInv, SoundInv,
        PlayTypeOK, Once, Undisturbed
<1> QED
  BY <1>1, <1>2, <1>3, <1>4, <1>5, <1>6, <1>7, <1>8 DEF PlayInv, SoundInv

LEMMA DiesPreserves ==
  ASSUME PlayInv, NEW r \in Plays, PlayDies(r)
  PROVE  PlayInv'
<1>1. PlayTypeOK'
  BY PlayConstants DEF PlayDies, Mishap, Quiet, fileVars, PlayInv, SoundInv,
        PlayTypeOK, PlaySteps
<1>2. Resolved'
  BY DEF PlayDies, Quiet, PlayInv, SoundInv, Resolved, Reserving, Unopened
<1>3. AudioFits'
  BY DEF PlayDies, Quiet, fileVars, PlayInv, SoundInv, AudioFits, Fits
<1>4. FilesFit'
  BY DEF PlayDies, fileVars, PlayInv, SoundInv, FilesFit, MadeFor, Unopened,
        Reserving
<1>5. Writers'
  BY DEF PlayDies, Quiet, fileVars, PlayInv, SoundInv, Writers
<1>6. CacheEnabled => CacheWhole'
  BY DEF PlayDies, fileVars, PlayInv, CacheWhole
<1>7. CacheEnabled => Owners'
  BY SlotStays DEF PlayDies, fileVars, PlayInv, Owners, Owning
<1>8. CacheEnabled => Once'
  BY SlotStays DEF PlayDies, Quiet, fileVars, PlayInv, SoundInv, PlayTypeOK,
        Once, Undisturbed
<1> QED
  BY <1>1, <1>2, <1>3, <1>4, <1>5, <1>6, <1>7, <1>8 DEF PlayInv, SoundInv

LEMMA AgesPreserves ==
  ASSUME PlayInv, NEW s \in Slots, LockAges(s)
  PROVE  PlayInv'
<1>1. PlayTypeOK'
  BY PlayConstants DEF LockAges, Mishap, Quiet, PlayInv, SoundInv, PlayTypeOK
<1>2. Resolved' /\ AudioFits'
  BY DEF LockAges, Quiet, PlayInv, SoundInv, Resolved, AudioFits, Fits
<1>3. FilesFit' /\ Writers'
  BY DEF LockAges, Quiet, PlayInv, SoundInv, FilesFit, MadeFor, Writers
<1>4. CacheEnabled => CacheWhole' /\ Owners' /\ Once'
  BY DEF LockAges, Quiet, PlayInv, CacheWhole, Owners, Once, Undisturbed, Slot, Identity
<1> QED
  BY <1>1, <1>2, <1>3, <1>4 DEF PlayInv, SoundInv

LEMMA PlayInitInv == PlayInit => PlayInv
<1> SUFFICES ASSUME PlayInit PROVE PlayInv
  OBVIOUS
<1> USE PlayConstants DEF PlayInit, FilesInit
<1>1. PlayTypeOK
  BY DEF PlayTypeOK, PlaySteps
<1>2. Resolved
  BY DEF Resolved, Reserving
<1>3. AudioFits
  BY DEF AudioFits, Fits, Marks
<1>4. FilesFit
  BY DEF FilesFit, MadeFor
<1>5. Writers
  BY DEF Writers
<1>6. CacheWhole /\ Owners /\ Once
  BY DEF CacheWhole, Owners, Owning, Once
<1> QED
  BY <1>1, <1>2, <1>3, <1>4, <1>5, <1>6 DEF PlayInv, SoundInv

(* The administrators change no playback.                                  *)
LEMMA PlayUnchanged == PlayInv /\ UNCHANGED playVars => PlayInv'
<1> SUFFICES ASSUME PlayInv, UNCHANGED playVars PROVE PlayInv'
  OBVIOUS
<1>1. PlayTypeOK' /\ Resolved'
  BY DEF playVars, fileVars, PlayInv, SoundInv, PlayTypeOK, Resolved
<1>2. AudioFits' /\ FilesFit' /\ Writers'
  BY DEF playVars, fileVars, PlayInv, SoundInv, AudioFits, Fits, FilesFit, MadeFor, Writers
<1>3. CacheEnabled => CacheWhole' /\ Owners' /\ Once'
  BY DEF playVars, fileVars, PlayInv, CacheWhole, Owners, Once, Undisturbed, Slot, Identity
<1> QED
  BY <1>1, <1>2, <1>3 DEF PlayInv, SoundInv

(* One step of the steps of a request.                                     *)
LEMMA PlayStepInv ==
  ASSUME PlayInv, NEW r \in Plays, PlayStep(r)
  PROVE  PlayInv'
<1>1. CASE ReserveKey(r)
  BY <1>1, ReplayPreserves, LockTakenPreserves, LockSeenPreserves, InspectPreserves,
     DeadlinePreserves, BreakPreserves DEF ReserveKey
<1>2. CASE ProvideAudio(r)
  BY <1>2, ReadCachePreserves, SynthesisPreserves, SynthesisFailsPreserves,
     OpenPreserves, WritePreserves, RenamePreserves DEF ProvideAudio
<1>3. CASE CompleteKey(r) \/ ReleaseKey(r) \/ PlayAnswer(r)
  BY <1>3, CompletePreserves, ReleasePreserves, AnswerPreserves
<1> QED
  BY <1>1, <1>2, <1>3 DEF PlayStep

LEMMA PlaybackInv == PlayInv /\ [PlaybackNext]_<<voiceVars, playVars>> => PlayInv'
<1> SUFFICES ASSUME PlayInv, [PlaybackNext]_<<voiceVars, playVars>> PROVE PlayInv'
  OBVIOUS
<1>1. CASE UNCHANGED playVars
  BY <1>1, PlayUnchanged
<1>2. CASE PlayNext
  BY <1>2, PlayArrivePreserves, PlayStepInv, DiesPreserves, AgesPreserves DEF PlayNext
<1> QED
  BY <1>1, <1>2 DEF PlaybackNext

(* Files, locks and what requests hold fit together, whatever locks age    *)
(* and whoever dies (message_voice).                                       *)
THEOREM PlaybackInvariant == PlaybackSpec => []PlayInv
<1> QED
  BY PlayInitInv, PlaybackInv, PTL DEF PlaybackSpec

(* Playbacks leave the assignments alone: what is proved of the            *)
(* administrators' routes holds beside them.                               *)
THEOREM PlaybackKeepsVoices == PlaybackSpec => VoiceSpec
<1>1. [PlaybackNext]_<<voiceVars, playVars>> => [AdminStep]_voiceVars
  BY DEF PlaybackNext
<1> QED
  BY <1>1, PTL DEF PlaybackSpec, VoiceSpec

(* The files, the locks and the requests are what SpeechPlayback says of   *)
(* them (services/text_to_speech.py).                                      *)
THEOREM PlaybackTypeCorrect == PlaybackSpec => []PlayTypeOK
<1>1. PlayInv => PlayTypeOK
  BY DEF PlayInv, SoundInv
<1> QED
  BY <1>1, PlaybackInvariant, PTL

(* However requests and processes interleave on the cache, the locks and   *)
(* the response files, whatever dies or is taken for stale, what a request *)
(* plays was synthesized with the voice that it resolved (message_voice).  *)
THEOREM VoiceOfTheRequest == PlaybackSpec => []PlayedAsResolved
<1>1. PlayInv => PlayedAsResolved
  BY DEF PlayInv, SoundInv, AudioFits, Fits, PlayedAsResolved
<1> QED
  BY <1>1, PlaybackInvariant, PTL

(* With the cache on, an Idempotency-Key pays for one synthesis, unless a  *)
(* lock of it was taken for stale or two processes shared a cache file     *)
(* (reserve_tts_idempotency).                                              *)
THEOREM OneSynthesisPerKey ==
  ASSUME CacheEnabled
  PROVE  PlaybackSpec => []KeyedOnce
<1>1. PlayInv => KeyedOnce
  <2> SUFFICES ASSUME PlayInv, NEW r \in Plays, Keyed(r), Undisturbed(r),
                      NEW q \in Plays, Slot(q) = Slot(r)
               PROVE  /\ r \in called /\ q \in called => r = q
                      /\ {heard[r], heard[q]} \subseteq Plays /\ heard[r] # heard[q]
                           => \E p \in called : profile[p] = profile[r] /\ Slot(p) # Slot(r)
    BY DEF KeyedOnce
  <2>1. \A p, o \in called : Slot(p) = Slot(r) /\ Slot(o) = Slot(r) => p = o
    BY SameSlot DEF PlayInv, SoundInv, PlayTypeOK, Once, Undisturbed, Keyed
  <2>2. /\ heard[r] \in Plays => heard[r] \in called /\ profile[heard[r]] = profile[r]
        /\ heard[q] \in Plays => heard[q] \in called /\ profile[heard[q]] = profile[q]
    BY DEF PlayInv, SoundInv, AudioFits, Fits
  <2>3. profile[q] = profile[r]
    BY SameSlot
  <2> QED
    BY <2>1, <2>2, <2>3
<1> QED
  BY <1>1, PlaybackInvariant, PTL
================================================================================
