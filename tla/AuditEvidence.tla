--------------------------- MODULE AuditEvidence ---------------------------
(***************************************************************************)
(* The evidence ledger of governed audit invocations: append_evidence of   *)
(* services/audit_evidence_repository.py and the limiter that counts its   *)
(* rows, services/audit_invocation_rate_limit.py (under src/src/orkio_v2). *)
(* The rows of one user and one capability; an invocation appends at most  *)
(* one row, under a fresh audit_execution_id.                              *)
(***************************************************************************)
EXTENDS Naturals, FiniteSets

CONSTANTS
  Requests,
  UserLimit  \* invocations of one user in the window of 60 seconds

ASSUME LimitConstants == UserLimit \in Nat \ {0}

(* AuditEvidenceRecord.status                                              *)
Statuses == {"completed", "failed", "denied"}

VARIABLES
  record,  \* the status of the row a request appended, "none" without one
  recent   \* requests whose row is in the window

ledgerVars == <<record, recent>>

LedgerInit ==
  /\ record = [r \in Requests |-> "none"]
  /\ recent = {}

(* LedgerAuditRateLimitCheck counts rows of every status.                  *)
(* Broken variant: <= for <.                                               *)
UnderLimitInclusive == Cardinality(recent) <= UserLimit

UnderLimit == Cardinality(recent) < UserLimit

Stored(r, status) ==
  /\ record' = [record EXCEPT ![r] = status]
  /\ recent' = recent \cup {r}

(* append_evidence raises: the commit failed; or it was reported lost, or  *)
(* the row that was read back is not what was to be stored.                *)
NotStored(r, status) == UNCHANGED ledgerVars

Unverified(r, status) == Stored(r, status)

AppendRaises(r, status) == NotStored(r, status) \/ Unverified(r, status)

(* created_at leaves the window.                                           *)
Age(r) ==
  /\ r \in recent
  /\ recent' = recent \ {r}
  /\ UNCHANGED record

LedgerTypeOK ==
  /\ record \in [Requests -> Statuses \cup {"none"}]
  /\ recent \subseteq {r \in Requests : record[r] # "none"}
=============================================================================
