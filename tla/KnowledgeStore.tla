----------------------------- MODULE KnowledgeStore -----------------------------
(***************************************************************************)
(* The documents of the knowledge plane and their blobs: services/         *)
(* knowledge_repository.py, blob_storage.py, knowledge_policy.py and the   *)
(* routes of knowledge_routes.py (under src/src/orkio_v2).                 *)
(*                                                                         *)
(* The database and the object store commit separately.  An upload stores  *)
(* the blob first and the row after it; a deletion commits the row first.  *)
(* When a commit raises, the code looks whether the row is there before it *)
(* takes the blob back; a blob it cannot delete becomes a cleanup task.    *)
(* The store is asked for a key before it is written, and a task is read   *)
(* before it is written: both reads may be stale when they are used.       *)
(*                                                                         *)
(* A logical document is a fresh identifier, a version of it has at most   *)
(* one row (unique key), and the storage key names document, version and   *)
(* content.  Callers that may not see a document, and rejected calls, do   *)
(* not appear.                                                             *)
(***************************************************************************)
EXTENDS Naturals

CONSTANTS
  Documents,   \* logical documents that uploads may create
  Personal,    \* those of scope PERSONAL; the others are institutional or platform
  MaxVersion,  \* bound on the versions of a document
  Digests,     \* contents
  Requests,
  None,
  MaxCrashes   \* bound on deaths of requests and of the cleanup job

ASSUME StoreConstants ==
  /\ Personal \subseteq Documents
  /\ MaxVersion \in Nat \ {0}
  /\ None \notin Digests \cup Requests /\ None \notin Documents \X (1 .. MaxVersion) \X Digests
  /\ MaxCrashes \in Nat

Versions == 1 .. MaxVersion
Keys == Documents \X Versions \X Digests

Statuses == {"DRAFT", "ACTIVE", "SUPERSEDED", "REVOKED"}

Queueing == {"orphaned", "inserting", "renewing", "reopening"}

Steps == {"idle", "read", "looked", "stored", "raised", "deleting"} \cup Queueing

VARIABLES
  pipeline,        \* large_document_pipeline_enabled
  status, content, \* the row of each version, and the digest it names
  writer,          \* the request that inserted it
  minted,          \* logical identifiers in use
  blobs,           \* keys the object store holds
  task,            \* rows of knowledge_storage_cleanup
  pc, job,         \* per request: its step and the key it works on
  sweep, swept,    \* the cleanup job: keys it has locked, keys it has deleted
  leaked,          \* keys that a death or an unknown outcome left behind
  crossed,         \* keys written over an object stored since they were looked for
  overtaken,       \* keys whose task the cleanup job ended between read and write
  crashes

rowVars == <<status, content, writer, minted>>
sweepVars == <<sweep, swept>>
lostVars == <<leaked, crossed, overtaken>>
vars == <<pipeline, rowVars, blobs, task, pc, job, sweepVars, lostVars, crashes>>

Init ==
  /\ pipeline \in BOOLEAN
  /\ status = [d \in Documents |-> [v \in Versions |-> "NONE"]]
  /\ content = [d \in Documents |-> [v \in Versions |-> None]]
  /\ writer = [d \in Documents |-> [v \in Versions |-> None]]
  /\ minted = {} /\ blobs = {}
  /\ task = [k \in Keys |-> "NONE"]
  /\ pc = [r \in Requests |-> "idle"]
  /\ job = [r \in Requests |-> None]
  /\ sweep = {} /\ swept = {}
  /\ leaked = {} /\ crossed = {} /\ overtaken = {}
  /\ crashes = 0

(* A row of this document, version and content exists.                     *)
Referenced(k) == content[k[1]][k[2]] = k[3]

(***************************************************************************)
(* Requests                                                                *)
(***************************************************************************)

Goto(r, from, to) ==
  /\ pc[r] = from
  /\ pc' = [pc EXCEPT ![r] = to]

End(r, from) ==
  /\ Goto(r, from, "idle")
  /\ job' = [job EXCEPT ![r] = None]

Row(d, v, c, s, r) ==
  /\ status' = [status EXCEPT ![d][v] = s]
  /\ content' = [content EXCEPT ![d][v] = c]
  /\ writer' = [writer EXCEPT ![d][v] = r]

(* The row lock of supersede_document, from its SELECT FOR UPDATE to the   *)
(* commit.  supersede_document_from_file takes none.                       *)
Locked(d, v) ==
  /\ ~pipeline
  /\ \E r \in Requests : pc[r] \in {"read", "looked", "stored"} /\ job[r][1] = d /\ job[r][2] = v + 1

(* create_uploaded_document, create_uploaded_document_from_file            *)
StartUpload(r, d, c) ==
  /\ d \notin minted
  /\ Goto(r, "idle", "read")
  /\ minted' = minted \cup {d}
  /\ job' = [job EXCEPT ![r] = <<d, 1, c>>]
  /\ UNCHANGED <<pipeline, status, content, writer, blobs, task, sweepVars, lostVars, crashes>>

(* assert_can_supersede, and the version it computes.                      *)
StartSupersede(r, d, v, c) ==
  /\ d \notin Personal /\ v < MaxVersion
  /\ status[d][v] = "ACTIVE" /\ ~Locked(d, v)
  /\ Goto(r, "idle", "read")
  /\ job' = [job EXCEPT ![r] = <<d, v + 1, c>>]
  /\ UNCHANGED <<pipeline, rowVars, blobs, task, sweepVars, lostVars, crashes>>

(* put_if_absent, put_file_if_absent: the key is looked for ...             *)
Look(r) ==
  /\ Goto(r, "read", "looked")
  /\ job[r] \notin blobs
  /\ UNCHANGED <<pipeline, rowVars, blobs, task, job, sweepVars, lostVars, crashes>>

(* ... which is KNOWLEDGE_STORAGE_KEY_CONFLICT if it is there ...          *)
PutConflict(r) ==
  /\ End(r, "read")
  /\ job[r] \in blobs
  /\ UNCHANGED <<pipeline, rowVars, blobs, task, sweepVars, lostVars, crashes>>

(* ... and written, over whatever was stored since; the caller is told     *)
(* that it created the object.                                             *)
Put(r) ==
  /\ Goto(r, "looked", "stored")
  /\ blobs' = blobs \cup {job[r]}
  /\ crossed' = crossed \cup ({job[r]} \cap blobs)
  /\ UNCHANGED <<pipeline, rowVars, task, job, sweepVars, leaked, overtaken, crashes>>

(* The store cannot be asked; or it reports a failed write, or the local   *)
(* one finds the temporary file of another, and the object may be there    *)
(* all the same.                                                           *)
PutFails(r) ==
  /\ \/ End(r, "read") /\ UNCHANGED <<blobs, leaked>>
     \/ /\ End(r, "looked")
        /\ \/ UNCHANGED <<blobs, leaked>>
           \/ blobs' = blobs \cup {job[r]} /\ leaked' = leaked \cup ({job[r]} \ blobs)
  /\ UNCHANGED <<pipeline, rowVars, task, sweepVars, crossed, overtaken, crashes>>

(* Broken variant: the new version does not retire the old one.            *)
WriteKeepingOld(r) ==
  LET d == job[r][1]  v == job[r][2] IN
  /\ status[d][v] = "NONE"
  /\ Row(d, v, job[r][3], IF v = 1 /\ d \notin Personal THEN "DRAFT" ELSE "ACTIVE", r)

(* What the transaction of an upload or of a supersede writes.             *)
Write(r) ==
  LET d == job[r][1]  v == job[r][2] IN
  /\ status[d][v] = "NONE"
  /\ status' = [status EXCEPT
       ![d] = [w \in Versions |->
                 IF w = v THEN (IF v = 1 /\ d \notin Personal THEN "DRAFT" ELSE "ACTIVE")
                 ELSE IF w + 1 = v THEN "SUPERSEDED" ELSE @[w]]]
  /\ content' = [content EXCEPT ![d][v] = job[r][3]]
  /\ writer' = [writer EXCEPT ![d][v] = r]

(* The row this request generated is there.                                *)
Persisted(r) == writer[job[r][1]][job[r][2]] = r

Commit(r) ==
  /\ End(r, "stored")
  /\ Write(r)
  /\ UNCHANGED <<pipeline, minted, blobs, task, sweepVars, lostVars, crashes>>

(* The commit raises: the version exists already, or the connection fails, *)
(* before or after the database committed.                                 *)
CommitRaises(r) ==
  /\ Goto(r, "stored", "raised")
  /\ Write(r) \/ UNCHANGED <<status, content, writer>>
  /\ UNCHANGED <<pipeline, minted, blobs, task, job, sweepVars, lostVars, crashes>>

(* _resolve_blob_after_failed_commit cannot ask the database either: the   *)
(* blob stays.                                                             *)
OutcomeUnknown(r) ==
  /\ End(r, "raised")
  /\ leaked' = leaked \cup {job[r]}
  /\ UNCHANGED <<pipeline, rowVars, blobs, task, sweepVars, crossed, overtaken, crashes>>

(* PERSISTED: the blob belongs to a durable row.                           *)
OutcomePersisted(r) ==
  /\ End(r, "raised")
  /\ Persisted(r)
  /\ UNCHANGED <<pipeline, rowVars, blobs, task, sweepVars, lostVars, crashes>>

(* Broken variant: absence is assumed from the exception.                  *)
OutcomeAssumedAbsent(r) ==
  /\ Goto(r, "raised", "deleting")
  /\ UNCHANGED <<pipeline, rowVars, blobs, task, job, sweepVars, lostVars, crashes>>

(* ABSENT: the blob is taken back.                                         *)
OutcomeAbsent(r) ==
  /\ Goto(r, "raised", "deleting")
  /\ ~Persisted(r)
  /\ UNCHANGED <<pipeline, rowVars, blobs, task, job, sweepVars, lostVars, crashes>>

DeleteBlob(r) ==
  /\ End(r, "deleting")
  /\ blobs' = blobs \ {job[r]}
  /\ UNCHANGED <<pipeline, rowVars, task, sweepVars, lostVars, crashes>>

(* Broken variant: a failed deletion is only logged.                       *)
DeleteBlobFailsQuietly(r) ==
  /\ End(r, "deleting")
  /\ UNCHANGED <<pipeline, rowVars, blobs, task, sweepVars, lostVars, crashes>>

(* The store reports a failure; the object may be gone all the same.       *)
DeleteBlobFails(r) ==
  /\ Goto(r, "deleting", "orphaned")
  /\ blobs' \in {blobs, blobs \ {job[r]}}
  /\ UNCHANGED <<pipeline, rowVars, task, job, sweepVars, lostVars, crashes>>

(* _queue_storage_cleanup: the task of the key is read, without a lock.    *)
QueueStep == [NONE |-> "inserting", PENDING |-> "renewing", DONE |-> "reopening"]

QueueRead(r) ==
  /\ Goto(r, "orphaned", QueueStep[task[job[r]]])
  /\ UNCHANGED <<pipeline, rowVars, blobs, task, job, sweepVars, lostVars, crashes>>

(* There was none: one is inserted, if it is still the first of its key.   *)
QueueInsert(r) ==
  /\ End(r, "inserting")
  /\ task[job[r]] = "NONE"
  /\ task' = [task EXCEPT ![job[r]] = "PENDING"]
  /\ UNCHANGED <<pipeline, rowVars, blobs, sweepVars, lostVars, crashes>>

(* It was pending: to assign PENDING changes nothing, so the statement,    *)
(* which waits for the cleanup job, leaves the status as that job did.     *)
QueueRenew(r) ==
  /\ End(r, "renewing")
  /\ job[r] \notin sweep
  /\ overtaken' = IF task[job[r]] = "PENDING" THEN overtaken ELSE overtaken \cup ({job[r]} \cap blobs)
  /\ UNCHANGED <<pipeline, rowVars, blobs, task, sweepVars, leaked, crossed, crashes>>

(* It was done: it is pending again.                                       *)
QueueReopen(r) ==
  /\ End(r, "reopening")
  /\ job[r] \notin sweep
  /\ task' = [task EXCEPT ![job[r]] = "PENDING"]
  /\ UNCHANGED <<pipeline, rowVars, blobs, sweepVars, lostVars, crashes>>

(* The queue cannot be written, or another inserted the task first: a line *)
(* in the log is all that remains.                                         *)
QueueFails(r) ==
  /\ pc[r] \in Queueing /\ End(r, pc[r])
  /\ leaked' = leaked \cup {job[r]}
  /\ UNCHANGED <<pipeline, rowVars, blobs, task, sweepVars, crossed, overtaken, crashes>>

Queue(r) == QueueRead(r) \/ QueueInsert(r) \/ QueueRenew(r) \/ QueueReopen(r) \/ QueueFails(r)

(***************************************************************************)
(* Transactions on one row                                                 *)
(***************************************************************************)

Publish(d, v) ==
  /\ d \notin Personal
  /\ status[d][v] = "DRAFT" /\ ~Locked(d, v)
  /\ status' = [status EXCEPT ![d][v] = "ACTIVE"]
  /\ UNCHANGED <<pipeline, content, writer, minted, blobs, task, pc, job, sweepVars, lostVars, crashes>>

(* Broken variant: revocation does not take the row's lock.                *)
RevokeUnlocked(d, v) ==
  /\ d \notin Personal
  /\ status[d][v] = "ACTIVE"
  /\ status' = [status EXCEPT ![d][v] = "REVOKED"]
  /\ UNCHANGED <<pipeline, content, writer, minted, blobs, task, pc, job, sweepVars, lostVars, crashes>>

Revoke(d, v) ==
  /\ d \notin Personal
  /\ status[d][v] = "ACTIVE" /\ ~Locked(d, v)
  /\ status' = [status EXCEPT ![d][v] = "REVOKED"]
  /\ UNCHANGED <<pipeline, content, writer, minted, blobs, task, pc, job, sweepVars, lostVars, crashes>>

(* assert_can_delete                                                       *)
Deletable(d, v) ==
  /\ status[d][v] # "NONE" /\ ~Locked(d, v)
  /\ d \in Personal \/ status[d][v] = "DRAFT"

(* The row goes first; its blob is deleted after the commit.               *)
DeleteRow(r, d, v) ==
  /\ Deletable(d, v)
  /\ Goto(r, "idle", "deleting")
  /\ job' = [job EXCEPT ![r] = <<d, v, content[d][v]>>]
  /\ Row(d, v, None, "NONE", None)
  /\ UNCHANGED <<pipeline, minted, blobs, task, sweepVars, lostVars, crashes>>

(* The commit of the deletion raises although the row is gone.             *)
DeleteRowRaises(d, v) ==
  /\ Deletable(d, v)
  /\ leaked' = leaked \cup {<<d, v, content[d][v]>>}
  /\ Row(d, v, None, "NONE", None)
  /\ UNCHANGED <<pipeline, minted, blobs, task, pc, job, sweepVars, crossed, overtaken, crashes>>

(***************************************************************************)
(* The cleanup job: process_storage_cleanup_tasks                          *)
(***************************************************************************)

(* SELECT ... FOR UPDATE of pending tasks, as many as the limit lets it.   *)
SweepStart ==
  /\ sweep = {} /\ swept = {}
  /\ \E S \in SUBSET {k \in Keys : task[k] = "PENDING"} : S # {} /\ sweep' = S
  /\ UNCHANGED <<pipeline, rowVars, blobs, task, pc, job, swept, lostVars, crashes>>

SweepDelete(k) ==
  /\ k \in sweep \ swept
  /\ blobs' = blobs \ {k}
  /\ swept' = swept \cup {k}
  /\ UNCHANGED <<pipeline, rowVars, task, pc, job, sweep, lostVars, crashes>>

(* One commit for all tasks; those whose deletion failed stay pending.     *)
SweepCommit ==
  /\ sweep # {}
  /\ task' = [k \in Keys |-> IF k \in swept THEN "DONE" ELSE task[k]]
  /\ sweep' = {} /\ swept' = {}
  /\ UNCHANGED <<pipeline, rowVars, blobs, pc, job, lostVars, crashes>>

(* The job dies: the objects are gone, the tasks are pending as before.    *)
SweepCrash ==
  /\ sweep # {} /\ crashes < MaxCrashes
  /\ crashes' = crashes + 1
  /\ sweep' = {} /\ swept' = {}
  /\ UNCHANGED <<pipeline, rowVars, blobs, task, pc, job, lostVars>>

Crash(r) ==
  /\ pc[r] # "idle" /\ crashes < MaxCrashes
  /\ crashes' = crashes + 1
  /\ End(r, pc[r])
  /\ leaked' = leaked \cup ({job[r]} \cap blobs)
  /\ UNCHANGED <<pipeline, rowVars, blobs, task, sweepVars, crossed, overtaken>>

Request(r) ==
  \/ \E d \in Documents, c \in Digests : StartUpload(r, d, c)
  \/ \E d \in Documents, v \in Versions, c \in Digests : StartSupersede(r, d, v, c)
  \/ Look(r) \/ PutConflict(r) \/ Put(r) \/ PutFails(r)
  \/ Commit(r) \/ CommitRaises(r)
  \/ OutcomeUnknown(r) \/ OutcomePersisted(r) \/ OutcomeAbsent(r)
  \/ DeleteBlob(r) \/ DeleteBlobFails(r) \/ Queue(r)
  \/ \E d \in Documents, v \in Versions : DeleteRow(r, d, v)
  \/ Crash(r)

OneRow(d, v) == Publish(d, v) \/ Revoke(d, v) \/ DeleteRowRaises(d, v)

Sweep ==
  \/ SweepStart \/ SweepCommit \/ SweepCrash
  \/ \E k \in Keys : SweepDelete(k)

Next ==
  \/ \E r \in Requests : Request(r)
  \/ \E d \in Documents, v \in Versions : OneRow(d, v)
  \/ Sweep

Spec == Init /\ [][Next]_vars

--------------------------------------------------------------------------------
(***************************************************************************)
(* Properties                                                              *)
(***************************************************************************)

(* Every variable has its type.                                            *)
TypeOK ==
  /\ pipeline \in BOOLEAN
  /\ status \in [Documents -> [Versions -> Statuses \cup {"NONE"}]]
  /\ content \in [Documents -> [Versions -> Digests \cup {None}]]
  /\ writer \in [Documents -> [Versions -> Requests \cup {None}]]
  /\ minted \subseteq Documents
  /\ blobs \subseteq Keys /\ leaked \subseteq Keys
  /\ crossed \subseteq Keys /\ overtaken \subseteq Keys
  /\ task \in [Keys -> {"NONE", "PENDING", "DONE"}]
  /\ pc \in [Requests -> Steps]
  /\ job \in [Requests -> Keys \cup {None}]
  /\ sweep \subseteq Keys /\ swept \subseteq sweep
  /\ crashes \in 0 .. MaxCrashes

(* At most one version of a document is active, although the supersede of  *)
(* a staged file reads the old version without a lock.                     *)
OneActive ==
  \A d \in Documents, v, w \in Versions :
    status[d][v] = "ACTIVE" /\ status[d][w] = "ACTIVE" => v = w

(* With the locking variant a revocation is the end of a document: no      *)
(* replacement that was under way overwrites it or makes a version active. *)
RevocationStep ==
  \A d \in Documents, v \in Versions :
    ~pipeline /\ status[d][v] = "REVOKED" =>
      status'[d][v] = "REVOKED" /\ \A w \in Versions : status'[d][w] # "ACTIVE"

RevocationStands == [][RevocationStep]_vars

(* A key that is lost to a durable row can only be one that a cleanup task *)
(* names, or one that two replacements without a lock both looked for      *)
(* before either stored it.                                                *)
Lost(k) == task[k] # "NONE" \/ (pipeline /\ k \in crossed)

(* No lost answer and no compensation takes the blob of a durable row      *)
(* away.  A cleanup task of its key may; and, when the old version is not  *)
(* locked, the loser of two equal replacements that crossed.               *)
MissingWasQueued ==
  \A k \in Keys : Referenced(k) /\ k \notin blobs => Lost(k)

(* Every blob is named by a row, by a request that is at work on it or by  *)
(* a pending cleanup task.  Except what a death or an unknown outcome left *)
(* behind, and what the queue took for pending while the cleanup job was   *)
(* ending the task.                                                        *)
BlobsAccounted ==
  \A k \in blobs \ (leaked \cup overtaken) :
    Referenced(k) \/ task[k] = "PENDING" \/ \E r \in Requests : job[r] = k

(* No durable row points to missing content.  A cleanup task that outlived *)
(* its deletion breaks it when the same content is stored again.           *)
RowsHaveContent == \A k \in Keys : Referenced(k) => k \in blobs
================================================================================
