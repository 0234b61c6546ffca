---------------------------- MODULE KnowledgeContext ----------------------------
(***************************************************************************)
(* What a prompt is given of the knowledge plane: build_knowledge_context  *)
(* of services/knowledge_retrieval.py (under src/src/orkio_v2), beside the *)
(* requests and the cleanup job of KnowledgeStore.                         *)
(*                                                                         *)
(* The active documents are listed once; then each is read from the store, *)
(* while others supersede, revoke and delete.  Which documents are in      *)
(* force for the purpose of a turn, in which order they are read and what  *)
(* text of theirs is relevant are choices; documents of another tenant or  *)
(* user do not appear.  The text is that of the source, or canonical text  *)
(* that processing stored under a key of its own (Derivative), which no    *)
(* request of KnowledgeStore writes or deletes.  The use is committed      *)
(* before anything is handed out.                                          *)
(***************************************************************************)
EXTENDS KnowledgeStore, FiniteSets

CONSTANTS
  Selective,  \* knowledge_selective_context_enabled
  MaxUsed     \* knowledge_context_max_files

ASSUME ContextConstants == Selective \in BOOLEAN /\ MaxUsed \in Nat

VARIABLES
  reading,     \* "list", "read", "record", and how it ended
  candidates,  \* listed documents, by key, that are still to be read
  used,        \* documents whose text was taken
  absent,      \* documents whose source was not found
  recorded     \* documents with an audit row of their use

readerVars == <<reading, candidates, used, absent, recorded>>

ReaderInit ==
  /\ reading = "list"
  /\ candidates = {} /\ used = {} /\ absent = {} /\ recorded = {}

(* _candidate_documents, _active_now, _purpose_allowed                     *)
ListCandidates ==
  /\ reading = "list"
  /\ \E listed \in SUBSET {k \in Keys : Referenced(k) /\ status[k[1]][k[2]] = "ACTIVE"} :
       /\ candidates' = listed
       /\ reading' = IF listed = {} THEN "nothing" ELSE "read"
  /\ UNCHANGED <<used, absent, recorded>>

(* The relevant chunks of the canonical text, from the derivative's blob.  *)
TakeCanonical(k) ==
  /\ Selective
  /\ used' = used \cup {k}
  /\ UNCHANGED absent

(* Without a derivative that has any, the text of the source.              *)
TakeSource(k) ==
  /\ k \in blobs
  /\ used' = used \cup {k}
  /\ UNCHANGED absent

(* KNOWLEDGE_BLOB_MISSING                                                  *)
SourceMissing(k) ==
  /\ k \notin blobs
  /\ absent' = absent \cup {k}
  /\ UNCHANGED used

(* KNOWLEDGE_SOURCE_SKIPPED, no character of it fits, or the canonical     *)
(* blob is missing, for which the source is not tried.                     *)
SkipText(k) == UNCHANGED <<used, absent>>

ReadDocument(k) ==
  /\ reading = "read"
  /\ k \in candidates /\ Cardinality(used) < MaxUsed
  /\ TakeCanonical(k) \/ TakeSource(k) \/ SourceMissing(k) \/ SkipText(k)
  /\ candidates' = candidates \ {k}
  /\ UNCHANGED <<reading, recorded>>

(* Nothing is left to read, or what was taken used a limit up.             *)
EndReading ==
  /\ reading = "read"
  /\ candidates = {} \/ used # {} \/ MaxUsed = 0
  /\ reading' = IF used = {} THEN "nothing" ELSE "record"
  /\ UNCHANGED <<candidates, used, absent, recorded>>

(* audit_knowledge_used of each, and one commit.                           *)
RecordUse ==
  /\ reading = "record"
  /\ recorded' = recorded \cup used
  /\ reading' = "given"
  /\ UNCHANGED <<candidates, used, absent>>

(* Broken variant: a failure to record is only logged.                     *)
RecordUseQuietly ==
  /\ reading = "record"
  /\ recorded' \in {recorded, recorded \cup used}
  /\ reading' = "given"
  /\ UNCHANGED <<candidates, used, absent>>

(* KNOWLEDGE_USAGE_AUDIT_FAILED, although the commit may have taken effect.*)
RecordUseFails ==
  /\ reading = "record"
  /\ recorded' \in {recorded, recorded \cup used}
  /\ reading' = "refused"
  /\ UNCHANGED <<candidates, used, absent>>

ReaderNext ==
  /\ \/ ListCandidates \/ EndReading \/ RecordUse \/ RecordUseFails
     \/ \E k \in candidates : ReadDocument(k)
  /\ UNCHANGED vars

(* The requests, the cleanup job and the prompt take turns.                *)
ContextNext ==
  \/ Next /\ UNCHANGED readerVars
  \/ ReaderNext

ContextSpec == Init /\ ReaderInit /\ [][ContextNext]_<<vars, readerVars>>

--------------------------------------------------------------------------------

(* What a prompt holds of the knowledge plane is governed, whatever is     *)
(* superseded, revoked, deleted or swept while it is built: one version of *)
(* a document and no other, its use on record; and a document whose source *)
(* was not found was deleted by its owner, or lost its blob in one of the  *)
(* two ways of MissingWasQueued.                                           *)
ContextIsGoverned ==
  /\ \A k, l \in used : k[1] = l[1] => k = l
  /\ reading = "given" => used \subseteq recorded
  /\ \A k \in absent : Lost(k) \/ (k[1] \in Personal /\ ~Referenced(k))
================================================================================
