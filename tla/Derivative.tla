------------------------------- MODULE Derivative -------------------------------
(***************************************************************************)
(* The canonical derivative of one knowledge document: process_document    *)
(* and build_structure of services/large_document.py, the worker           *)
(* scripts/process_pending_knowledge.py, the routes process and selection, *)
(* and which text knowledge_retrieval.py then takes.                       *)
(*                                                                         *)
(* Every run on a document works in the same two staging files, so runs of *)
(* several threads or processes of one host meet there; they meet again in *)
(* the object store and on the rows.  A text is known by its length: what  *)
(* is read of a file that is being written is a prefix of it.              *)
(***************************************************************************)
EXTENDS Integers, FiniteSets, FiniteSetsExt

CONSTANTS
  Workers,     \* threads and processes that process the document
  MaxRuns,     \* bound on calls of process_document
  MaxFaults,   \* bound on deaths and on outcomes that cannot be written
  Layouts,     \* texts: [len, title, headings, breaks, blanks, target, overlap]
  None

ASSUME RunConstants ==
  MaxRuns \in Nat /\ MaxFaults \in Nat /\ None \notin Nat \cup [by : Workers, size : Nat]

(* A text begins with its title, a heading.                                *)
ASSUME LayoutConstants ==
  \A l \in Layouts :
    /\ l.len \in Nat \ {0} /\ l.title \in 0 .. l.len
    /\ 0 \in l.headings /\ 0 \notin l.blanks
    /\ l.headings \subseteq Nat /\ l.breaks \subseteq Nat
    /\ l.target \in Nat \ {0} /\ l.overlap \in Nat

Steps == {"idle", "reading", "read", "hashed", "writing", "written", "digested",
          "putting", "stored", "indexed", "cleared", "failing", "ending"}

Outcomes == {"READY", "PARTIAL", "FAILED", "OCR_REQUIRED"}

VARIABLES
  local,    \* the blobs are files of this host; otherwise objects of S3
  layout,
  row,      \* the derivative: status, length behind its digest, the run that wrote it
  rows,     \* sections and chunks: a record per run that inserted some
  blob,     \* length of the canonical blob
  temp,     \* the temporary file of a put is there
  src, can, \* the staging files: source and canonical text
  pc, mem,  \* per worker: its step, and what its run holds in memory
  select,   \* run whose sections a user's manual selection names
  quiet,    \* it was saved on a ready document, and no run has touched that since
  runs, faults,
  overlapped, \* two runs were under way at once
  lost        \* a run ended without an outcome

fileVars == <<src, can>>
storeVars == <<blob, temp>>
noteVars == <<select, quiet, runs, faults, overlapped, lost>>
vars == <<local, layout, row, rows, storeVars, fileVars, pc, mem, noteVars>>

Fresh == [run |-> 0, digest |-> None, chunks |-> {}, size |-> None, seen |-> {}, own |-> FALSE]

Init ==
  /\ local \in BOOLEAN /\ layout \in Layouts
  /\ row = [status |-> "PENDING", size |-> None, run |-> 0]
  /\ rows = {} /\ blob = None /\ temp = FALSE
  /\ src = None /\ can = None
  /\ pc = [w \in Workers |-> "idle"] /\ mem = [w \in Workers |-> Fresh]
  /\ select = None /\ quiet = FALSE /\ runs = 0 /\ faults = 0
  /\ overlapped = FALSE /\ lost = FALSE

(***************************************************************************)
(* build_structure                                                         *)
(***************************************************************************)

(* Where a section that starts at h ends, in a text of n bytes.            *)
SectionEnd(h, n) == Min({g \in layout.headings : h < g /\ g < n} \cup {n})

Starts(n) == {h \in layout.headings : h < n}

(* The block read at c: cut after its last line end, unless that lies in   *)
(* its first half.                                                         *)
BlockEnd(c, end) ==
  LET full == Min({c + layout.target, end})
      cuts == {b \in layout.breaks : c < b /\ b <= full /\ b - 1 - c > (full - c) \div 2}
  IN IF full < end /\ cuts # {} THEN Max(cuts) ELSE full

(* Broken variant: a byte between two blocks is skipped.                  *)
AdvanceSkipping(c, to) == to + 1

(* Where the next block starts: blocks overlap.                            *)
Advance(c, to) == Max({c + 1, to - layout.overlap})

(* The blocks of a section from c on; those of white space leave no chunk. *)
Blocks(end) ==
  LET from[c \in 0 .. layout.len] ==
        IF c >= end THEN {}
        ELSE LET to == BlockEnd(c, end)
             IN {<<c, to>>} \cup (IF to >= end THEN {} ELSE from[Advance(c, to)])
  IN from

Chunks(n) ==
  {b \in UNION {Blocks(SectionEnd(h, n))[h] : h \in Starts(n)} :
     ~((b[1] .. b[2] - 1) \subseteq layout.blanks)}

(***************************************************************************)
(* process_document                                                        *)
(***************************************************************************)

Goto(w, from, to) ==
  /\ pc[w] = from
  /\ pc' = [pc EXCEPT ![w] = to]

Busy == {w \in Workers : pc[w] # "idle"}

(* ensure_pending_derivative, and the commit of PROCESSING.                *)
Begin(w) ==
  /\ runs < MaxRuns
  /\ Goto(w, "idle", "reading")
  /\ runs' = runs + 1
  /\ mem' = [mem EXCEPT ![w] = [Fresh EXCEPT !.run = runs']]
  /\ row' = [row EXCEPT !.status = "PROCESSING"]
  /\ overlapped' = (overlapped \/ Busy # {})
  /\ quiet' = FALSE
  /\ src' = 0
  /\ UNCHANGED <<local, layout, rows, storeVars, can, select, faults, lost>>

(* materialize has copied the source.                                      *)
Materialize(w) ==
  /\ Goto(w, "reading", "read")
  /\ src' = IF src = None THEN None ELSE layout.len - layout.title
  /\ UNCHANGED <<local, layout, row, rows, storeVars, can, mem, noteVars>>

(* The digest of the staged source is that of the document.                *)
CheckSource(w) ==
  /\ Goto(w, "read", "hashed")
  /\ src = layout.len - layout.title
  /\ UNCHANGED <<local, layout, row, rows, storeVars, fileVars, mem, noteVars>>

(* canonicalize_source removes the old file and opens a new one.           *)
OpenCanonical(w) ==
  /\ Goto(w, "hashed", "writing")
  /\ can' = [by |-> w, size |-> 0]
  /\ UNCHANGED <<local, layout, row, rows, storeVars, src, mem, noteVars>>

(* A title line, and the text of what the source file holds now.           *)
WriteCanonical(w) ==
  /\ src # None
  /\ Goto(w, "writing", "written")
  /\ can' = IF can # None /\ can.by = w THEN [can EXCEPT !.size = layout.title + src] ELSE can
  /\ mem' = [mem EXCEPT ![w].own = TRUE]
  /\ UNCHANGED <<local, layout, row, rows, storeVars, src, noteVars>>

Digest(w) ==
  /\ can # None
  /\ Goto(w, "written", "digested")
  /\ mem' = [mem EXCEPT ![w].digest = can.size]
  /\ UNCHANGED <<local, layout, row, rows, storeVars, fileVars, noteVars>>

(* put_file_if_absent finds no object under the key.                       *)
PutBegin(w) ==
  /\ can # None /\ blob = None /\ ~(local /\ temp)
  /\ Goto(w, "digested", "putting")
  /\ temp' = local
  /\ mem' = [mem EXCEPT ![w].size = can.size]
  /\ UNCHANGED <<local, layout, row, rows, blob, fileVars, noteVars>>

PutEnd(w) ==
  /\ Goto(w, "putting", "stored")
  /\ blob' = mem[w].size
  /\ temp' = FALSE
  /\ UNCHANGED <<local, layout, row, rows, fileVars, mem, noteVars>>

(* The key is taken: the object must have the digest of this run's text.   *)
Reuse(w) ==
  /\ blob # None /\ blob = mem[w].digest
  /\ Goto(w, "digested", "stored")
  /\ UNCHANGED <<local, layout, row, rows, storeVars, fileVars, mem, noteVars>>

Structure(w) ==
  /\ can # None
  /\ Goto(w, "stored", "indexed")
  /\ mem' = [mem EXCEPT ![w].size = can.size, ![w].chunks = Chunks(can.size)]
  /\ UNCHANGED <<local, layout, row, rows, storeVars, fileVars, noteVars>>

(* DELETE of the rows it sees; in force only with the commit.              *)
ClearRows(w) ==
  /\ Goto(w, "indexed", "cleared")
  /\ mem' = [mem EXCEPT ![w].seen = rows]
  /\ UNCHANGED <<local, layout, row, rows, storeVars, fileVars, noteVars>>

(* Rows of a run that committed since then collide on their ordinals.      *)
Unique(w) == rows \subseteq mem[w].seen

(* Broken variant: nothing keeps the rows of two runs apart.               *)
WriteRowsBeside(w) ==
  /\ rows' = (rows \ mem[w].seen) \cup {[run |-> mem[w].run, chunks |-> mem[w].chunks,
                                         size |-> mem[w].size]}
  /\ \E s \in {"READY", "PARTIAL"} :
       row' = [status |-> s, size |-> mem[w].digest, run |-> mem[w].run]

WriteRows(w) ==
  /\ Unique(w)
  /\ rows' = (rows \ mem[w].seen) \cup {[run |-> mem[w].run, chunks |-> mem[w].chunks,
                                         size |-> mem[w].size]}
  /\ \E s \in {"READY", "PARTIAL"} :
       row' = [status |-> s, size |-> mem[w].digest, run |-> mem[w].run]

Commit(w) ==
  /\ Goto(w, "cleared", "ending")
  /\ WriteRows(w)
  /\ UNCHANGED <<local, layout, storeVars, fileVars, mem, noteVars>>

(* The commit raises after it took effect.                                 *)
CommitRaises(w) ==
  /\ Goto(w, "cleared", "failing")
  /\ WriteRows(w)
  /\ UNCHANGED <<local, layout, storeVars, fileVars, mem, noteVars>>

(* Any step raises: a wrong digest, a missing file, a format that cannot   *)
(* be read, a failure of the store or of the database.                     *)
Raise(w) ==
  /\ pc[w] \in Steps \ {"idle", "failing", "ending"}
  /\ pc' = [pc EXCEPT ![w] = "failing"]
  /\ temp' = (temp /\ pc[w] # "putting")
  /\ UNCHANGED <<local, layout, row, rows, blob, fileVars, mem, noteVars>>

(* Broken variant: the handler only removes the files.                     *)
RecordFailureNot(w) ==
  /\ Goto(w, "failing", "ending")
  /\ UNCHANGED <<local, layout, row, rows, storeVars, fileVars, mem, noteVars>>

(* The handlers of process_document, on whatever the row says by now.      *)
RecordFailure(w) ==
  /\ Goto(w, "failing", "ending")
  /\ \E s \in {"FAILED", "OCR_REQUIRED"} : row' = [row EXCEPT !.status = s]
  /\ UNCHANGED <<local, layout, rows, storeVars, fileVars, mem, noteVars>>

(* Even that cannot be written.                                            *)
RecordFails(w) ==
  /\ faults < MaxFaults
  /\ Goto(w, "failing", "ending")
  /\ faults' = faults + 1 /\ lost' = TRUE
  /\ UNCHANGED <<local, layout, row, rows, storeVars, fileVars, mem, select, quiet, runs, overlapped>>

(* The finally clause removes both files, whoever uses them now.           *)
CleanUp(w) ==
  /\ Goto(w, "ending", "idle")
  /\ src' = None
  /\ can' = IF mem[w].own THEN None ELSE can
  /\ mem' = [mem EXCEPT ![w] = Fresh]
  /\ UNCHANGED <<local, layout, row, rows, storeVars, noteVars>>

(* The process dies: files, temporary file and status stay as they are.    *)
Die(w) ==
  /\ pc[w] # "idle" /\ faults < MaxFaults
  /\ pc' = [pc EXCEPT ![w] = "idle"]
  /\ mem' = [mem EXCEPT ![w] = Fresh]
  /\ faults' = faults + 1 /\ lost' = TRUE
  /\ UNCHANGED <<local, layout, row, rows, storeVars, fileVars, select, quiet, runs, overlapped>>

(***************************************************************************)
(* Readers                                                                 *)
(***************************************************************************)

(* save_selection, mode MANUAL: the sections must exist.                   *)
SaveSelection ==
  /\ \E x \in rows : select' = x.run
  /\ quiet' = (Busy = {} /\ ~overlapped /\ row.status \in {"READY", "PARTIAL"})
  /\ UNCHANGED <<local, layout, row, rows, storeVars, fileVars, pc, mem, runs, faults, overlapped, lost>>

(* Broken variant: partial texts are not served.                           *)
ServedStatusesReady == {"READY"}
ServedStatuses == {"READY", "PARTIAL"}

(* The text canonical_context_for_document offers, and the fall back of    *)
(* build_knowledge_context to the whole source.                            *)
Offered ==
  IF row.status \notin ServedStatuses \/ \A x \in rows : x.chunks = {} THEN "source"
  ELSE IF \E x \in rows : blob = None \/ \E c \in x.chunks : c[2] > blob THEN "nothing"
  ELSE IF select = None THEN "ranked"
  ELSE IF \E x \in rows : x.run = select THEN "selected"
  ELSE "source"

Step(w) ==
  \/ Materialize(w) \/ CheckSource(w) \/ OpenCanonical(w) \/ WriteCanonical(w)
  \/ Digest(w) \/ PutBegin(w) \/ PutEnd(w) \/ Reuse(w) \/ Structure(w)
  \/ ClearRows(w) \/ Commit(w) \/ CommitRaises(w) \/ Raise(w)
  \/ RecordFailure(w) \/ CleanUp(w)

Next ==
  \/ \E w \in Workers : Step(w) \/ Begin(w) \/ RecordFails(w) \/ Die(w)
  \/ SaveSelection

Spec == Init /\ [][Next]_vars

(* A run that nothing kills goes on to its end.                            *)
Fairness == \A w \in Workers : WF_vars(Step(w))

FairSpec == Spec /\ Fairness

--------------------------------------------------------------------------------
(***************************************************************************)
(* Properties                                                              *)
(***************************************************************************)

Sizes == {None} \cup 0 .. layout.len

TypeOK ==
  /\ local \in BOOLEAN /\ layout \in Layouts
  /\ row.status \in Outcomes \cup {"PENDING", "PROCESSING"}
  /\ row.size \in Sizes /\ row.run \in 0 .. MaxRuns
  /\ \A x \in rows : x.run \in 1 .. MaxRuns /\ x.size \in Sizes \ {None}
  /\ blob \in Sizes /\ src \in Sizes
  /\ temp \in BOOLEAN /\ (temp => local)
  /\ can = None \/ (can.by \in Workers /\ can.size \in Sizes \ {None})
  /\ pc \in [Workers -> Steps]
  /\ select \in {None} \cup 1 .. MaxRuns
  /\ runs \in 0 .. MaxRuns /\ faults \in 0 .. MaxFaults

(* Unless runs overlap, a derivative that is ready describes the whole     *)
(* text: its digest, the stored blob and the indexed chunks agree, every   *)
(* byte that is not white space lies in a chunk, and this whatever was     *)
(* left in the staging files by runs that failed or died.                  *)
ReadyIsWhole ==
  ~overlapped /\ row.status \in {"READY", "PARTIAL"} =>
    /\ row.size = layout.len /\ blob = layout.len
    /\ \E x \in rows : rows = {x} /\ x.run = row.run /\ x.size = layout.len
    /\ \A x \in rows :
         (0 .. layout.len - 1) \ layout.blanks \subseteq UNION {c[1] .. c[2] - 1 : c \in x.chunks}

(* Overlapping or not, the sections and chunks in the database are those   *)
(* of one run, the last whose commit took effect, and so is the digest.    *)
RowsOfOneRun == \A x, y \in rows : x = y /\ x.run = row.run

(* A manual selection saved on a ready document restricts what is offered, *)
(* until the document is processed again; unless runs overlapped.          *)
SelectionHeld == quiet => Offered \in {"selected", "nothing"}

(* A document in processing gets an outcome, unless a run was lost.        *)
OutcomeReached == row.status = "PROCESSING" ~> row.status # "PROCESSING" \/ lost
================================================================================
