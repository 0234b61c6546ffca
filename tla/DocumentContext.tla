--------------------------- MODULE DocumentContext ---------------------------
(***************************************************************************)
(* What a prompt is given of the files of its thread:                      *)
(* build_document_context of services/document_context.py (under           *)
(* src/src/orkio_v2), which reads the attachments of DocumentIntake while  *)
(* other requests are storing and withdrawing them.                        *)
(*                                                                         *)
(* The rows are listed once, up to MaxFiles of them; then each file is     *)
(* read: its manifest, and either the chunks that the manifest names or,   *)
(* without one, the file itself, from the local disk whatever the backend  *)
(* is.  Characters are counted; which chunks of a paste are relevant, and  *)
(* what stripping them removes, is a choice of the length.  A paste is     *)
(* longer than what one file may contribute, as the defaults of config.py  *)
(* have it (100 000 and 20 000 characters).  The text of a PDF is only     *)
(* that of its first pages, as many as document_context_max_pdf_pages      *)
(* says; what remains is neither counted nor reported.                     *)
(***************************************************************************)
EXTENDS DocumentIntake

CONSTANTS
  Chars,     \* characters of the text of an attachment, all pages of it
  Extracted, \* those of the pages that are read
  MaxFiles,  \* document_context_max_files
  MaxChars,  \* document_context_max_chars
  PerFile    \* document_context_max_chars_per_file

Attachments == {KeyOf[r] : r \in Pastes \cup Uploads}

ASSUME ContextConstants ==
  /\ Chars \in [Keys -> Nat] /\ Extracted \in [Keys -> Nat]
  /\ {MaxFiles, MaxChars, PerFile} \subseteq Nat
  /\ \A k \in Keys : Extracted[k] <= Chars[k]
  /\ \A r \in Pastes : Extracted[KeyOf[r]] = Chars[KeyOf[r]] /\ Chars[KeyOf[r]] > PerFile

VARIABLES
  backend,    \* artifact_storage_backend
  step,
  pending,    \* listed attachments that are still to be read
  remaining,
  sure,       \* listed attachments that a request had been answered ready for
  provided,   \* characters that an attachment contributed
  missing,    \* attachments that were not found
  unread,     \* attachments that could not be read
  truncated   \* attachments that the provenance calls truncated

contextVars == <<backend, step, pending, sure, remaining, provided, missing, unread, truncated>>

ContextInit ==
  /\ backend \in {"local", "s3"}
  /\ step \in {"list", "none"}
  /\ pending = {} /\ sure = {} /\ missing = {} /\ unread = {} /\ truncated = {}
  /\ remaining = MaxChars
  /\ provided = [k \in {} |-> 0]

Least(m, n) == IF m < n THEN m ELSE n

(* The rows are listed by age, which their keys do not tell.               *)
ListAttachments ==
  /\ step = "list"
  /\ \E listed \in SUBSET (rows \cap Attachments) :
       /\ Cardinality(listed) = Least(MaxFiles, Cardinality(rows \cap Attachments))
       /\ pending' = listed
       /\ sure' = {KeyOf[r] : r \in {q \in Requests \ crossed : pc[q] = "ready"}} \cap listed
       /\ step' = IF listed = {} THEN "none" ELSE "next"
  /\ UNCHANGED <<backend, remaining, provided, missing, unread, truncated, faults>>

(* _load_intake_manifest                                                   *)
LoadManifest(k) ==
  /\ step = "next" /\ k \in pending
  /\ step' = IF k \in companions THEN "chunks" ELSE "file"
  /\ provided' = [f \in DOMAIN provided \cup {k} |-> IF f = k THEN 0 ELSE provided[f]]
  /\ UNCHANGED <<backend, pending, sure, remaining, missing, unread, truncated, faults>>

(* The attachment that is being read.                                      *)
Opened(k) == k \in pending \cap DOMAIN provided

Took(k, n, cut) ==
  /\ provided' = [provided EXCEPT ![k] = n]
  /\ remaining' = remaining - n
  /\ truncated' = IF cut THEN truncated \cup {k} ELSE truncated
  /\ UNCHANGED <<missing, unread, faults>>

(* What the next attachment may contribute.                                *)
Budget == Least(PerFile, remaining)

(* _rank_intake_chunks, _select_intake_context; without a budget the blob  *)
(* is not even read.                                                       *)
ReadChunks(k) ==
  /\ step = "chunks" /\ Opened(k)
  /\ k \in blobs \/ Budget = 0
  /\ \E n \in 0 .. Budget : Took(k, n, TRUE)

(* Broken variant: the aggregate budget cuts without saying so.            *)
ReadFileQuietly(k) ==
  LET share == Least(Extracted[k], PerFile)
  IN /\ step = "file" /\ Opened(k)
     /\ backend = "local" /\ k \in blobs /\ Extracted[k] > 0
     /\ Took(k, Least(share, remaining), share < Extracted[k])

(* A cut is measured against what was extracted.                           *)
ReadFile(k) ==
  LET share == Least(Extracted[k], PerFile)
      given == Least(share, remaining)
  IN /\ step = "file" /\ Opened(k)
     /\ backend = "local" /\ k \in blobs /\ Extracted[k] > 0
     /\ Took(k, given, share < Extracted[k] \/ given < share)

(* Reading the blob, or the path of the local disk.                        *)
NotFound(k) ==
  /\ IF step = "file" THEN backend = "s3" \/ k \notin blobs
                      ELSE Budget > 0 /\ k \notin blobs
  /\ missing' = missing \cup {k}
  /\ UNCHANGED <<unread, faults>>

(* The store, the hash or the parser of the file's format raises, or the   *)
(* pages that are read hold no text (DOCUMENT_EXTRACTION_EMPTY).           *)
Unreadable(k) ==
  /\ IF step = "file" /\ Extracted[k] = 0 THEN UNCHANGED faults ELSE Fault
  /\ unread' = unread \cup {k}
  /\ UNCHANGED missing

ReadFails(k) ==
  /\ step \in {"chunks", "file"} /\ Opened(k)
  /\ NotFound(k) \/ Unreadable(k)
  /\ UNCHANGED <<remaining, provided, truncated>>

ReadAttachment(k) ==
  /\ ReadChunks(k) \/ ReadFile(k) \/ ReadFails(k)
  /\ pending' = pending \ {k}
  /\ step' = IF pending' = {} THEN "done" ELSE "next"
  /\ UNCHANGED <<backend, sure>>

ContextNext ==
  /\ ListAttachments \/ \E k \in pending : LoadManifest(k) \/ ReadAttachment(k)
  /\ UNCHANGED <<stores, pc, made, looked, rejected, unsure, crossed>>

(* The requests of the thread and the prompt take turns.                   *)
PromptNext ==
  \/ Next /\ UNCHANGED contextVars
  \/ ContextNext

PromptSpec == Init /\ ContextInit /\ [][PromptNext]_<<vars, contextVars>>

Errors == missing \cup unread
Sources == DOMAIN provided \ (Errors \cup pending)

(* _status_for                                                             *)
ExtractionStatus ==
  IF Sources = {} THEN IF Errors = {} THEN "none" ELSE "failed"
  ELSE IF Errors # {} \/ truncated # {} THEN "partial" ELSE "ready"

------------------------------------------------------------------------------

(* PDFs that go on after the pages that are read.                          *)
CutPages == {k \in Keys : Extracted[k] < Chars[k]}

SuppliedWhole(k) == provided[k] = IF k \in CutPages THEN Extracted[k] ELSE Chars[k]

(* What the prompt claims of its documents is true of what was extracted,  *)
(* however requests store and withdraw them while it is built: a document  *)
(* that is not called truncated was supplied as far as its pages were      *)
(* read, "ready" means that every listed one was, and the budgets are      *)
(* kept.  It is true of the document itself unless it is a PDF of more     *)
(* pages: that cut is silent, and the same document is called ready.       *)
ContextIsTruthful ==
  /\ \A k \in Sources \ truncated : SuppliedWhole(k)
  /\ remaining >= 0 /\ \A k \in Sources : provided[k] <= PerFile
  /\ step = "done" /\ ExtractionStatus = "ready" =>
       \A k \in DOMAIN provided : SuppliedWhole(k)

(* A document that a request had been answered ready for, without crossing *)
(* another of its content, is not missing from the prompts that follow,    *)
(* whatever fails afterwards; except an upload when the backend is s3,     *)
(* which is looked for on the local disk.                                  *)
ReadyIsSupplied ==
  \A k \in sure \cap missing : backend = "s3" /\ \E r \in Uploads : KeyOf[r] = k
==============================================================================
