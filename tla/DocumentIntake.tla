--------------------------- MODULE DocumentIntake ---------------------------
(***************************************************************************)
(* What a thread receives and produces as files: large pastes              *)
(* (services/unified_document_intake.py), uploaded attachments             *)
(* (services/attachment_service.py) and generated artifacts                *)
(* (persist_validated_artifact of services/artifact_generation.py), under  *)
(* src/src/orkio_v2.                                                       *)
(*                                                                         *)
(* A file is a row of the database and blobs of the store, which share no  *)
(* transaction: a paste is its canonical text and a manifest, an artifact  *)
(* its bytes and a provenance sidecar.  The key of a paste or an upload    *)
(* names its thread and the hash of its content, so equal requests meet on *)
(* one key; the key of an artifact is fresh.  put_if_absent tells its      *)
(* caller whether it created the blob, and only the creator cleans up; but *)
(* on S3 it looks and then writes, so that two callers may be told so.     *)
(*                                                                         *)
(* Requests run on several server processes.  MaxFaults bounds the calls   *)
(* that fail, or that are reported failed although they took effect, the   *)
(* inserts that another constraint refuses, and the deaths.                *)
(***************************************************************************)
EXTENDS Naturals, FiniteSets

CONSTANTS
  Pastes, Uploads, Renders,  \* requests
  Keys, KeyOf,               \* the storage key a request computes
  MaxFaults

Requests == Pastes \cup Uploads \cup Renders

ASSUME IntakeConstants ==
  /\ Pastes \cap Uploads = {} /\ Renders \cap (Pastes \cup Uploads) = {}
  /\ KeyOf \in [Requests -> Keys]
  /\ \A r \in Renders, o \in Requests : KeyOf[o] = KeyOf[r] => o = r
  /\ MaxFaults \in Nat

Steps ==
  {"idle", "validating", "finding", "reusing", "storing", "describing", "inserting",
   "discarding", "withdrawing", "ready", "failed", "gone"}

VARIABLES
  rows,       \* keys with an Attachment or Artifact row
  blobs,      \* keys with their content stored
  companions, \* keys with their manifest, or provenance sidecar, stored
  pc,
  made,       \* what a request knows it created
  rejected,   \* requests whose insert another constraint refused
  unsure,     \* requests whose commit was reported lost but took effect
  looked,     \* requests that found their key absent and will write it
  crossed,    \* requests that were active together with one of the same key
  faults

stores == <<rows, blobs, companions>>
vars == <<stores, pc, made, looked, rejected, unsure, crossed, faults>>

Init ==
  /\ rows = {} /\ blobs = {} /\ companions = {}
  /\ pc = [r \in Requests |-> "idle"]
  /\ made = [r \in Requests |-> {}]
  /\ looked = {} /\ rejected = {} /\ unsure = {} /\ crossed = {}
  /\ faults = 0

Sound == UNCHANGED faults
Fault == faults < MaxFaults /\ faults' = faults + 1

Active(r) == pc[r] \notin {"idle", "ready", "failed", "gone"} \/ r \in looked

Rivals(r) == {o \in Requests \ {r} : KeyOf[o] = KeyOf[r]}

Goto(r, from, to) ==
  /\ pc[r] = from
  /\ pc' = [pc EXCEPT ![r] = to]
  /\ looked' = looked \ {r}

(* What put_if_absent answers, to a caller that may have looked earlier.   *)
Absent(r, store) == KeyOf[r] \notin store \/ r \in looked

Created(r, what, absent) ==
  made' = [made EXCEPT ![r] = IF absent THEN @ \cup {what} ELSE @]

(* A request that fails deletes the manifest, or the artifact's blobs, if  *)
(* it created them.                                                        *)
(* Broken variant: whoever created the manifest.                           *)
CleansUpAlways(r) == r \in Pastes \cup Renders

CleansUp(r) == IF r \in Pastes THEN "companion" \in made[r] ELSE r \in Renders /\ made[r] # {}

Fail(r, from) == Goto(r, from, IF CleansUp(r) THEN "withdrawing" ELSE "failed")

(* A put_if_absent that raises leaves its caller without the answer.       *)
Put(store, k) == store' \in {store, store \cup {k}}

Begin(r) ==
  LET busy == {o \in Rivals(r) : Active(o)}
  IN crossed' = IF busy = {} THEN crossed ELSE crossed \cup busy \cup {r}

(* The head_object of S3BlobStorage.put_if_absent.                         *)
Look(r) ==
  /\ r \notin looked
  /\ looked' = looked \cup {r}
  /\ \/ /\ r \in Pastes /\ pc[r] = "idle" /\ KeyOf[r] \notin companions
        /\ Begin(r)
     \/ /\ pc[r] = "storing" /\ KeyOf[r] \notin blobs
        /\ UNCHANGED crossed
  /\ UNCHANGED <<stores, pc, made, rejected, unsure, faults>>

(* ingest_large_paste, up to the manifest.                                 *)
PutManifest(r) ==
  /\ r \in Pastes
  /\ LET k == KeyOf[r]
     IN \/ /\ Sound
           /\ Goto(r, "idle", IF Absent(r, companions) THEN "finding" ELSE "validating")
           /\ companions' = companions \cup {k}
           /\ Created(r, "companion", Absent(r, companions))
        \/ /\ Fault
           /\ Goto(r, "idle", "failed")
           /\ Put(companions, k)
           /\ UNCHANGED made
  /\ Begin(r)
  /\ UNCHANGED <<rows, blobs, rejected, unsure>>

(* A manifest that was there is read back; it may have been deleted since. *)
ValidateManifest(r) ==
  /\ \/ Sound /\ KeyOf[r] \in companions /\ Goto(r, "validating", "finding")
     \/ Sound /\ KeyOf[r] \notin companions /\ Goto(r, "validating", "failed")
     \/ Fault /\ Goto(r, "validating", "failed")
  /\ UNCHANGED <<stores, made, rejected, unsure, crossed>>

Upload(r) ==
  /\ r \in Uploads
  /\ Goto(r, "idle", "finding")
  /\ Begin(r)
  /\ UNCHANGED <<stores, made, rejected, unsure, faults>>

(* persist_attachment: an existing row is reused.  An upload under another *)
(* content type conflicts with it.                                         *)
FindExisting(r) ==
  /\ \/ KeyOf[r] \in rows /\ Goto(r, "finding", "reusing")
     \/ KeyOf[r] \in rows /\ r \in Uploads /\ Goto(r, "finding", "failed")
     \/ KeyOf[r] \notin rows /\ Goto(r, "finding", "storing")
  /\ UNCHANGED <<stores, made, rejected, unsure, crossed, faults>>

PutBlob(r, from, to) ==
  LET k == KeyOf[r]
  IN \/ /\ Sound
        /\ Goto(r, from, to)
        /\ blobs' = blobs \cup {k}
        /\ Created(r, "blob", Absent(r, blobs))
     \/ /\ Fault
        /\ Fail(r, from)
        /\ Put(blobs, k)
        /\ UNCHANGED made

Store(r) ==
  /\ PutBlob(r, "storing", "inserting") \/ PutBlob(r, "reusing", "ready")
  /\ UNCHANGED <<rows, companions, rejected, unsure, crossed>>

(* The commit of the row.  A row of the same key is reused.                *)
Insert(r) ==
  \/ /\ Sound
     /\ Goto(r, "inserting", "ready")
     /\ rows' = rows \cup {KeyOf[r]}
     /\ UNCHANGED <<made, rejected, unsure>>
  \/ /\ Fault
     /\ Fail(r, "inserting")
     /\ \/ UNCHANGED <<rows, unsure>>
        \/ /\ KeyOf[r] \notin rows
           /\ rows' = rows \cup {KeyOf[r]} /\ unsure' = unsure \cup {r}
     /\ UNCHANGED <<made, rejected>>

(* The row violates a constraint that is not the key's: the blob goes if   *)
(* this request created it and no row refers to it.                        *)
Reject(r) ==
  /\ r \notin Renders
  /\ Fault
  /\ IF KeyOf[r] \notin rows /\ "blob" \in made[r]
     THEN Goto(r, "inserting", "discarding")
     ELSE Fail(r, "inserting")
  /\ rejected' = rejected \cup {r}
  /\ UNCHANGED <<rows, made, unsure>>

(* Broken variant: a conflict on the key is no reason to keep the blob.    *)
PersistRowDiscarding(r) ==
  /\ \/ KeyOf[r] \notin rows /\ Insert(r)
     \/ /\ Sound /\ KeyOf[r] \in rows
        /\ Goto(r, "inserting", IF "blob" \in made[r] THEN "discarding" ELSE "ready")
        /\ UNCHANGED <<rows, made, rejected, unsure>>
  /\ UNCHANGED <<blobs, companions, crossed>>

PersistRow(r) ==
  /\ Insert(r) \/ Reject(r)
  /\ UNCHANGED <<blobs, companions, crossed>>

(* storage.delete, whose failure is passed over.                           *)
Discard(r) ==
  /\ Fail(r, "discarding")
  /\ \/ Sound /\ blobs' = blobs \ {KeyOf[r]}
     \/ Fault /\ UNCHANGED blobs
  /\ UNCHANGED <<rows, companions, made, rejected, unsure, crossed>>

(* persist_validated_artifact, up to its row: the bytes, then the sidecar. *)
Render(r) ==
  /\ r \in Renders
  /\ PutBlob(r, "idle", "describing")
  /\ UNCHANGED <<rows, companions, rejected, unsure, crossed>>

Describe(r) ==
  /\ \/ /\ Sound
        /\ Goto(r, "describing", "inserting")
        /\ companions' = companions \cup {KeyOf[r]}
        /\ Created(r, "companion", TRUE)
     \/ /\ Fault
        /\ Fail(r, "describing")
        /\ Put(companions, KeyOf[r])
        /\ UNCHANGED made
  /\ UNCHANGED <<rows, blobs, rejected, unsure, crossed>>

(* The cleanup of a failed paste or artifact.                              *)
Withdraw(r) ==
  /\ Goto(r, "withdrawing", "failed")
  /\ LET k == KeyOf[r]
         doomed == IF r \in Renders /\ "blob" \in made[r] THEN {k} ELSE {}
     IN \/ /\ Sound
           /\ blobs' = blobs \ doomed
           /\ companions' = IF "companion" \in made[r] \/ r \in Pastes
                            THEN companions \ {k} ELSE companions
        \/ /\ Fault
           /\ blobs' \in {blobs, blobs \ doomed}
           /\ companions' \in {companions, companions \ {k}}
  /\ UNCHANGED <<rows, made, rejected, unsure, crossed>>

Die(r) ==
  /\ Fault
  /\ Active(r)
  /\ Goto(r, pc[r], "gone")
  /\ UNCHANGED <<stores, made, rejected, unsure, crossed>>

Next ==
  \E r \in Requests :
    \/ Look(r) \/ PutManifest(r) \/ ValidateManifest(r) \/ Upload(r)
    \/ FindExisting(r) \/ Store(r) \/ PersistRow(r) \/ Discard(r)
    \/ Render(r) \/ Describe(r) \/ Withdraw(r)
    \/ Die(r)

Spec == Init /\ [][Next]_vars

------------------------------------------------------------------------------

TypeOK ==
  /\ rows \subseteq Keys /\ blobs \subseteq Keys /\ companions \subseteq Keys
  /\ pc \in [Requests -> Steps]
  /\ made \in [Requests -> SUBSET {"companion", "blob"}]
  /\ looked \subseteq Requests /\ rejected \subseteq Requests
  /\ unsure \subseteq Requests /\ crossed \subseteq Requests
  /\ faults \in 0 .. MaxFaults

(* A row has its content.  However equal requests cross, whatever fails    *)
(* and whoever dies, a row is without content only for one of two reasons: *)
(* its artifact was cleaned up because its commit was reported lost; or    *)
(* another constraint refused the row of the request that had stored the   *)
(* blob, which deleted it after looking, while a rival inserted its own.   *)
RowsHaveContent ==
  \A k \in rows \ blobs :
    \E r \in Requests :
      /\ KeyOf[r] = k
      /\ r \in unsure \cap Renders \/ r \in rejected \cap crossed

(* A request that crossed none of its key and was answered ready leaves    *)
(* the file whole, whatever earlier requests left behind (rows whose       *)
(* manifest was withdrawn, blobs without a row), and no later failure of   *)
(* an equal request takes it apart.                                        *)
ReadyStaysWhole ==
  \A r \in Requests \ crossed :
    pc[r] = "ready" =>
      /\ KeyOf[r] \in rows \cap blobs
      /\ r \notin Uploads => KeyOf[r] \in companions
=============================================================================
