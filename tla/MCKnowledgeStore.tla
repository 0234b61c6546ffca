---------------------------- MODULE MCKnowledgeStore ----------------------------
(* A shared and a personal document, two requests that are interchangeable,*)
(* and one prompt that is built meanwhile.                                 *)
EXTENDS KnowledgeContext, TLC

CONSTANTS d1, d2, r1, r2, x

Symmetry == Permutations(Requests)

MCInit == Init /\ ReaderInit

(* At most one key is left behind, and none when the prompt is built.      *)
(* Meanwhile no upload or replacement starts and nobody dies, and when it  *)
(* is built the behaviour ends: the interleavings that matter are those of *)
(* its steps with the requests that were under way, with deletions,        *)
(* revocations and the job.  Requests take no lock then, the weaker        *)
(* pipeline.                                                               *)
Meanwhile ==
  \/ reading = "list" /\ Cardinality(leaked') <= 1
  \/ /\ reading \in {"read", "record"}
     /\ minted' = minted /\ leaked' = {} /\ overtaken' = {} /\ crashes' = 0
     /\ \A r \in Requests : pc'[r] = "read" => pc[r] = "read"

MCNext ==
  \/ Next /\ Meanwhile /\ UNCHANGED readerVars
  \/ pipeline /\ leaked = {} /\ overtaken = {} /\ crashes = 0 /\ ReaderNext

MCSpec == MCInit /\ [][MCNext]_<<vars, readerVars>>

(* Replacements take the lock, and nobody builds a prompt.                 *)
StoreSpec == Init /\ ~pipeline /\ ReaderInit /\ [][Next /\ UNCHANGED readerVars]_<<vars, readerVars>>
================================================================================
