# A verification development for the Orkio / Efata-777 backend

TLA+ modules that model the stateful core of the backend under
`src/src/orkio_v2`, the TLC configurations that check them on small instances,
and theorems about them that TLAPS has checked for every value of the constants.
Paths below are relative to `src/src/orkio_v2` unless they start with `src/`.

1. [The system](#1-the-system)
2. [The modules](#2-the-modules)
3. [Checkout creation](#3-checkout-creation)
4. [Provider webhook](#4-provider-webhook)
5. [Realtime turns and their speech](#5-realtime-turns-and-their-speech)
6. [Knowledge documents](#6-knowledge-documents)
7. [Knowledge derivatives](#7-knowledge-derivatives)
8. [Native authentication](#8-native-authentication)
9. [Chat turns and audit evidence](#9-chat-turns-and-audit-evidence)
10. [The files of a thread](#10-the-files-of-a-thread)
11. [Spoken messages and voice assignments](#11-spoken-messages-and-voice-assignments)
12. [Proofs](#12-proofs)
13. [What is not modelled](#13-what-is-not-modelled)

## 1. The system

A FastAPI application with one PostgreSQL database, an object store for blobs
(local files or S3), and external services (payment provider Asaas, model
providers, speech, mail). The container starts one uvicorn process
(`src/Dockerfile:33`). Inside it,

* `async def` routes share the event loop and interleave only where they `await`;
* `def` routes run in a thread pool and interleave at every statement;
* each request has its own database session, READ COMMITTED, autoflush on
  (`database.py:23`); what protects data between requests is row locks, unique
  keys and the order of commits.

The process may die at any point; the database, the object store and the
providers keep what they have.

| Component | State | Operations | Interaction | What makes it correct |
|---|---|---|---|---|
| Checkout creation (`billing/service.py`, `billing/asaas_client.py`) | row `billing_checkouts` under a unique idempotency key; the provider's payment links | `create_checkout`: claim, POST, bind, reconcile | calls the provider between two commits; clients retry | one POST per key, an uncertain outcome is never reported as failed, a link that exists is handed out in the end |
| Provider webhook (`billing/service.py`) | checkouts, entitlements, wallets, ledger, transactions, event claims | `process_asaas_webhook` | the provider delivers events late, twice, in any order | checkout, entitlement, wallet and ledger tell one story; reversals dominate; no event is lost, no credit booked twice |
| Realtime turns (`realtime_routes.py`, `services/realtime_bridge.py`, `services/realtime_execution.py`) | receipt per turn key (an audit row), messages of the thread | stream a turn, final turn | awaits a model between reservation and outcome; clients retry and disconnect | a turn is executed once per process, its receipt says what the thread shows, and it reaches an outcome |
| Realtime sessions and speech (`realtime_routes.py`) | audit rows of sessions and segments | open a session, speak a segment | inside a streamed turn | a turn needs a session that was opened; the per-minute limit holds |
| Knowledge documents (`services/knowledge_repository.py`, `services/blob_storage.py`) | document rows with versions and statuses, blobs, cleanup tasks | upload, publish, revoke, supersede, delete, process the cleanup queue | blob before row, row before blob deletion; ambiguous commits | no compensation takes the blob of a durable row, no blob is forgotten, at most one active version, a revoked document stays revoked |
| Knowledge retrieval (`services/knowledge_retrieval.py`) | usage events | build the context of a prompt | reads rows and blobs that the above is changing | a prompt holds one version of a document, and its use is on record |
| Knowledge derivatives (`services/large_document.py`) | derivative status, sections, chunks, canonical blob, staging files, selections | process, select | worker and routes on the same staging paths | what is ready describes the whole text; a selection holds |
| Attachments and intake (`services/attachment_service.py`, `services/unified_document_intake.py`) | attachment and artifact rows, blobs, manifests | persist, ingest a large paste, store an artifact | equal requests meet on one storage key | what was acknowledged has its content |
| Document context (`services/document_context.py`) | none of its own | read the files of a thread into a prompt | while requests write and withdraw them | what the prompt claims of its documents is true |
| Native authentication (`services/native_auth.py`, `auth_routes.py`) | credentials, sessions, resets, challenges, factors | register, login, reset, recover, verify, enrol a factor | thread-pool routes on the same rows | every token takes effect once, a reset ends the sessions of the old password |
| Grants and onboarding (`services/hyper_cocreator.py`) | redemptions | onboard | called by registration, in a commit of its own | a grant admits one account |
| Audit plane (`services/audit_*.py`) | append-only evidence, limits | invoke a capability, append, count | a direct turn may start with it | one record per execution, the limit holds |
| Direct chat and team turns (`routes.py`, `team_routes.py`, `services/team_runtime.py`) | threads, messages, audit rows | send, stream, team turn | awaits models | what the client is told is what the thread says |
| Spoken messages (`services/text_to_speech.py`, `tts_routes.py`) | audio cache, lock and response files | synthesize a message, replay a key | several processes on one directory | one synthesis per key, spoken with the voice in force |
| Voice assignments (`routes.py`, `services/voice_binding.py`) | assignment rows | draft, validate, activate | administrators at the same time | an agent keeps one valid voice |
| Targets, policies, providers, tools, public pages | static catalogues, configuration, one-shot external calls | | | lookups and I/O without shared state |

The hard behaviours, each at its line, are the list `hazards` in `PROJECT.json`:
calls to a provider whose answer is lost, requests that die between two commits,
retries that meet the request they retry, events in any order, rows read without
a lock and written later, blobs and rows that two systems commit separately,
counters that are read before they are raised.

## 2. The modules

| Module | Models | Composed with | Run | Proofs |
|---|---|---|---|---|
| `BillingCheckout` | checkout creation against the provider | implements `CheckoutPromise` | `checkout` | `BillingCheckoutProofs` |
| `BillingWebhook` | the webhook, one or several processes | implements `PaymentPromise` | `webhook`, `webhook_race`, `webhook_two_processes` | `BillingWebhookProofs` |
| `RealtimeTurn` | receipts, both turn endpoints, disconnects, deaths | | `realtime_stream` | `RealtimeTurnProofs` |
| `RealtimeSpeech` | sessions, segments and their limit | around `RealtimeTurn` | `realtime` | `RealtimeTurnProofs` |
| `KnowledgeStore` | life of a document, ambiguous commits, cleanup queue | | `knowledge_sweep` | `KnowledgeStoreProofs` |
| `KnowledgeContext` | a prompt that is built meanwhile | beside `KnowledgeStore` | `knowledge` | `KnowledgeStoreProofs` |
| `Derivative` | `process_document` and `build_structure` | | `derivative` | `DerivativeProofs` |
| `NativeAuth` | accounts, sessions, tokens, grants | | `auth` | `NativeAuthProofs` |
| `AuditEvidence` | the evidence ledger and the limiter that counts it | | | |
| `ChatTurn` | direct and team turns | on `AuditEvidence` | `chat` | `ChatTurnProofs` |
| `DocumentIntake` | pastes, uploads, artifacts on rows and blobs | | | `ThreadFilesProofs` |
| `DocumentContext` | a prompt that reads them | beside `DocumentIntake` | `thread_files` | `ThreadFilesProofs` |
| `AgentVoice` | voice assignments | | | `ThreadFilesProofs` |
| `SpeechPlayback` | locks, cache and replay of spoken messages | on `AgentVoice` | `thread_files` | `ThreadFilesProofs` |

An `MC` module gives a module its instance. A module that is proved about has no
RECURSIVE operator, takes its parameters as CONSTANTS with a named assumption,
and has one action per operation. A definition commented `Broken variant` is
what the definition after it would be with a plausible mistake in the code; each
property of a run is broken by one of them. Type invariants are theorems, and are
left out of the runs, which are kept for properties that say more.

A component that runs beside another (`RealtimeSpeech`, `KnowledgeContext`,
`DocumentContext`, `SpeechPlayback`) states the two together as a specification
of its own, `SpeechSpec`, `ContextSpec`, `PromptSpec` and `PlaybackSpec`: any
step of either, in any order. Its theorems are about that. The runs take the
same steps and confine them, to keep the instance small, by scenarios or by
phases, as sections 6 and 10 say.

## 3. Checkout creation

`BillingCheckout` models `create_checkout` and `_reconcile_existing_checkout`
(`billing/service.py`), the two calls of `billing/asaas_client.py` and the
provider on the other side.

* **State.** A row of `billing_checkouts` per idempotency key: `rowId` (its
  identifier, which is also the link's external reference), `rowStatus`,
  `rowOp` (the state of the provider operation in the row's metadata) and
  `rowLink`. Per client: the step of its running request, the row it loaded and
  the link it is about to store. The provider: `posts`, the calls under way
  (`wire`), the `links` that exist and the calls it `refused`. `told` is what
  clients have received.
* **Actions.** One for each stretch between two commits or two calls: arrive
  (`ArriveNew`, `ArriveKnown`), `Claim` and `ClaimConflict` (the commit under
  the unique key), `Post`, its outcomes (`NotConfigured`, `PostRefused`,
  `PostUnknown`, `PostAnswered`), `Bind`, and the branches of reconciliation
  (`ReturnBound`, `ReturnFailed`, `LookupFound`, `LookupFails`). `Crash` ends a
  request anywhere. The provider accepts, refuses or loses a call at any time,
  also after its caller gave up: a timeout is `PostUnknown` while the call is
  still on the wire.
* **Partial writes.** The session writes only the columns it assigned. So a
  request that gives up writes `rowOp` alone, on top of whatever another
  request stored meanwhile.
* **Abstract specification.** `CheckoutPromise`: a key is claimed, then bound or
  failed, and a failed key never has a link. `phaseOf` and `issuedOf` are the
  refinement mapping; `KeepsPromise` is the run's property and a theorem.

| Run | Instance | Shows |
|---|---|---|
| `checkout` | 3 clients, two of them of one key, 2 deaths; FairSpec; 20 484 states | `OnePostPerKey`, `KeepsPromise`, and `CreatedLinkIsDelivered` under fairness |

Bounds: two clients of one key are what a race over the key needs; the third, of
another key, shows that links are not confused. Two deaths let both the request
that posted and the one that reconciles die. Every client calls as often as it
likes, so the number of retries is not bounded. Deadlock is checked.

Fairness: a running request takes its next step (the HTTP timeout ends every
wait), the client retries, and a lookup that could find the link does so in the
end if it is tried again and again (strong fairness of `LookupFound`). Nothing
is assumed of the provider's acceptance: it may lose every call.

## 4. Provider webhook

`BillingWebhook` models `process_asaas_webhook` with everything it writes.

* **State.** `seen` (rows of `billing_webhook_events`), `status` of each
  checkout, `ent` (one entitlement row per user), `txs`, `wallet` (one row per
  user) and `ledger`; the provider's `last` event of each payment and all events
  `sent`; per handler its step and what it has read; `spent`, the credit used
  outside this code. Nothing in `src/` debits a wallet, but the tests do it by
  editing the row (`src/tests/test_billing_asaas.py`), and `Spend` does the same.
* **Actions.** A handler is one transaction. `Ignore` is a call that commits its
  event and nothing else. `Receive` claims the event, reads the checkout and
  decides; `LockCheckout` is the flush of the new status; `FlushEntitlement`
  the flush of the entitlement; `CommitConfirm`, `CommitLapse` and
  `CommitReversal` write the rest. These are the points where the session takes
  row locks or reads, so other processes can act between them. `Abort` is an
  exception or a death: everything is rolled back, the claim included, and the
  provider delivers again.
* **Columns.** `Column` is how the session writes: a column whose assigned value
  equals the one read is left alone.
* **How many handlers.** The route is `async def` and does not await inside the
  handler, so one server process handles one webhook at a time. With
  `Handlers = {h1}` the model is the deployed system; with two it is the system
  behind two server processes, which the code's `IntegrityError` handlers
  (`billing/service.py:569`, `:1058`) are written for. Each property says for
  which of the two it holds.
* **Abstract specification.** `PaymentPromise`: a checkout is paid at most once,
  its credit granted with the payment and taken back with the reversal, and
  nothing follows a reversal. `outcomeOf` and `moneyOf` are the mapping.

| Run | Instance | Shows |
|---|---|---|
| `webhook` | 1 process; user 1 with a plan and a top-up that include credit, user 2 with two plans; 4 payments, at most 6 events, 1 unit spent; 540 953 states | `WalletMatchesLedger`, `MoneyFollowsState`, `Settled`, `SolePlanInForce`, `KeepsPromise` |
| `webhook_race` | 2 processes, one user, 2 plans with credit, at most 5 events; FairSpec; 60 745 states | `CreditBacked`, and `EveryEventAnswered` under fairness |
| `webhook_two_processes` | the same instance | a violation of `ReversalDominates` |

Bounds: the longest life of one payment has 5 events (created, overdue,
confirmed, received, reversed), so 6 events leave room for another payment to
interfere, and delivery is in any order and repeated without bound. Credits are
0, 1 and 2 units and one unit can be spent, so a reversal meets a balance that
covers it, one that covers part of it and one that is empty. Both users exist
because a user's checkouts meet on the entitlement and on the wallet, and do so
differently. Deadlock is not checked: when every event has been emitted and
answered the system rests.

Fairness (`webhook_race`): a handler ends, each of its steps succeeds in the end
if it is retried again and again, and the provider goes on delivering what is
not answered. It is what the provider's retries and a database that is not
broken for ever give. `EveryEventAnswered` also shows that handlers do not wait
for each other's rows for ever.

What the runs taught:

* With one process the reversal rule holds for every order of events. With two,
  a confirmation that read the checkout before the reversal committed writes
  `paid` over `refunded` and activates the entitlement (finding in
  `PROJECT.json`). A locking read of the checkout would restore the rule.
* With two processes `EntitlementBacked` fails as well, from 7 events on.
* The entitlement row of a user is shared by all plan checkouts, and a late
  `OVERDUE` or a refund of an old checkout revokes what another one paid for.
  `SolePlanInForce` is therefore stated for users with one plan checkout. This
  is what the code does, and no document promises otherwise.

## 5. Realtime turns and their speech

`RealtimeTurn` models what happens to a final transcript of a voice session:
`realtime_final_turn` and `realtime_stream_turn` (`realtime_routes.py`), the
receipts of `services/realtime_bridge.py`, and the direct, team and streamed
executions of `services/realtime_execution.py`.

* **State.** `receipt` of each turn key, an audit row with a state and the answer
  it names; the thread, as the requests whose question (`asked`), contributions
  (`contributed`) and answer (`answered`) it shows; per request its step and the
  members of the team it has `left` to consult; what clients were `told`; the
  turns `lost`, of which a request ended without a word. A response 409 changes
  nothing and is no step.
* **Interleaving.** Both endpoints are `async def`, so requests of one server
  process take turns only at an `await`, and `KeepsLoop` names the steps between
  two of them: from reading the receipt to asking the question, and from storing
  the answer to the receipt's outcome. The stream endpoint awaits its client
  once more after the reservation. Requests of different processes interleave
  between any two steps. `reserve_receipt` has no effect on a receipt that
  exists and its callers ignore what it returns, so `Reserve` goes on either way.
* **Failures.** `RefuseTarget`, `HistoryFails`, `NoContribution` and `GiveUp` are
  the error paths that end in `fail_receipt`; a member of a team that fails is
  skipped. `Vanish` is a request that ends and writes nothing: the database
  refuses a write, and `fail_receipt` on the same session then raises too, or
  the client of a stream is gone when the stream sends. `Die` ends all requests
  of a process. The code recovers from neither: the receipt stays in processing.
* **Speech.** `RealtimeSpeech` adds the two audit rows of a session (`Authorize`,
  `CreateCall`), without which both endpoints refuse a turn, and the loop of a
  stream: count the segments of the last minute and insert one
  (`SegmentReady`, `SegmentAdmitted`), speak it (`SegmentSpoken`). `MinutePasses`
  lets a row grow older than a minute.

| Run | Instance | Shows |
|---|---|---|
| `realtime` | one transcript sent to the stream endpoint and twice to the final one of a process, a team transcript sent to two processes, 2 members; or a transcript streamed by two processes under a limit of one segment, in a session that is opened; 1 loss; fair; 99 681 states | `OneExecution`, `ReceiptNamesAnswer`, `NoSilentEnd`, `OutcomeFinal`, `SegmentBound`, and `TurnEnds` under fairness |
| `realtime_stream` | the same transcript sent to both endpoints of one process, nothing lost | a violation of `FailedHasNoAnswer` |

Bounds: three requests of one turn are one that runs, one that races it and one
that comes after it ended, over both endpoints. The team turn has a request in
each of two processes, which is what an overwritten outcome needs; two members
are one that answers and one that fails. One loss is one death anywhere. Every
request may be sent again after it ended, so the number of retries is not
bounded. Two streams of two processes under a limit of one pass it by one, the
most that `SegmentBound` allows. Deadlock is checked.

Fairness: a request that can take a step again and again takes one. It is strong
because another request may have the event loop at any moment; the loop is fair
and every wait for a model or for speech has a timeout. Clients need not retry.

What the runs taught:

* The answer of every successful stream is stored, and the turn is then recorded
  and reported as failed, because the last item of the generator lacks the
  `execution_id` the endpoint reads (finding in `PROJECT.json`).
* The event loop, not the receipt, makes a turn run once. `OneExecution` and
  `OutcomeFinal` are stated per server process; with two processes a turn can
  run in both, and the later outcome replaces the earlier one.
* `TurnEnds` needs its exemption: a turn that lost its request is answered
  `REALTIME_TURN_IN_PROGRESS` for ever.

## 6. Knowledge documents

`KnowledgeStore` models the documents of `services/knowledge_repository.py`, the
routes that call it and the object store of `services/blob_storage.py`.

* **State.** Per document and version the `status` and `content` of its row and
  the request that wrote it; the `blobs` the store holds; the cleanup `task` of
  each key; per request its step and the key it works on; the keys the cleanup
  job has locked (`sweep`) and deleted (`swept`), all of which become done in one
  commit. Three sets are history: `leaked`, the keys that a death or an unknown
  outcome left; `crossed`, those written over an object that was stored since
  they were looked for; `overtaken`, those with a blob whose task the job ended
  between the read and the write of a request that queued them again.
* **Actions.** put-if-absent is two calls, in both backends: `Look` asks for the
  key (`PutConflict` if it is there), `Put` writes it whatever has come in
  between, and its caller is told that it created the object. `Commit` or
  `CommitRaises` ends the transaction, whose effect is `Write`: a new row, and the
  active version retired. After an exception the code looks whether the row is
  there: `OutcomePersisted`, `OutcomeAbsent`, or `OutcomeUnknown`, which keeps the
  blob. `Revoke`, `Publish` and `DeleteRow` are single transactions. `Crash` and
  `SweepCrash` end a request or the job anywhere.
* **The cleanup queue.** A deletion that fails becomes a task in two steps, as
  `_queue_storage_cleanup` reads the task of the key without a lock and writes
  later. What it read decides what the write does (`QueueStep`): without a task
  one is inserted (`QueueInsert`; the unique key lets one in); a done one becomes
  pending (`QueueReopen`); for a pending one the assignment of PENDING is no change
  of that column, so the statement waits for the job's row lock and leaves the
  status as the job committed it (`QueueRenew`). `QueueFails` is the log line.
* **Locks.** With `pipeline` off, `supersede_document` reads the old version FOR
  UPDATE and a revocation waits; with it on, `supersede_document_from_file`
  reads without a lock. The model starts with either.
* **A prompt.** `KnowledgeContext` adds `build_knowledge_context`: one query
  lists the candidates (`ListCandidates`), each is read, and the use is committed
  before the text is handed out (`RecordUse`, `RecordUseFails`). With
  `knowledge_selective_context_enabled` the text is that of the derivative's own
  blob (`TakeCanonical`), which no operation of `KnowledgeStore` touches; without a
  derivative that yields any it is read from the document's key (`TakeSource`,
  `SourceMissing`). A derivative whose blob is missing is passed over without
  trying the source (`SkipText`).

| Run | Instance | Shows |
|---|---|---|
| `knowledge` | a shared and a personal document, 2 versions, 1 content, 2 interchangeable requests, 1 death, the cleanup job, one prompt; 3 873 185 states | `OneActive`, `MissingWasQueued`, `BlobsAccounted`, `RevocationStands`, `ContextIsGoverned` |
| `knowledge_sweep` | one shared document, replacements with the lock, nobody builds a prompt | a violation of `RowsHaveContent` |

Bounds: two requests are one that supersedes and one that supersedes, revokes
or retries at the same time. With one content a retry computes the key of the
request it retries, which is the dangerous case. One death is anywhere. Two
versions are a first and its replacement. Requests are interchangeable, and the
run's only temporal property is a step property, so symmetry is sound. The
prompt is built while requests without the lock are under way and while they
revoke and delete, but no upload or replacement starts and nobody dies while it
is, and it ends the behaviour; the store without it is explored first. At most
one key is left behind in a behaviour (`leaked`), which bounds the unknown
outcomes. Deadlock is not checked, since all versions may be used up.

What the runs taught:

* The cleanup job deletes the key of a task without looking whether a row refers
  to it again (finding). The run takes the variant that locks, so that this is
  the only way.
* Without the lock there is a second way, and it leaves no task. Two replacements
  of equal content look for the key, both store it, both believe that they
  created it; one commits, the unique key refuses the other, which finds that its
  own row is absent and deletes the blob under the row of the first
  (`knowledge_repository.py:204-221`). The docstring of that function promises to
  resolve "an ambiguous DB commit without risking a durable row's blob"
  (`knowledge_repository.py:182`). `MissingWasQueued` names the two ways (`Lost`)
  and says that there is no third: no lost answer, no compensation of a request
  that met nobody, no deletion. A compare-and-set put (`If-None-Match`, or a link
  instead of a rename) would close the second way.
* A blob that cannot be deleted may keep no task: its request reads PENDING, the
  job ends that task, the request's write leaves it done
  (`knowledge_repository.py:107-132`). `BlobsAccounted` excepts those keys
  (`overtaken`) and what deaths left, and no other. A read FOR UPDATE would do.
* Nothing deletes the canonical blob of a derivative when its document is
  deleted; it is outside of `blobs`, which are the documents' own.
* Two requests that supersede without a lock still cannot leave two active
  versions: they compute the same next version, and its unique key lets one of them through.
* Without the lock a revocation can be overwritten by a replacement under way.
  `RevocationStands` is stated for the locking variant.
* A document revoked while a prompt is built may still be in it.

## 7. Knowledge derivatives

`Derivative` models `process_document` and `build_structure` of
`services/large_document.py`, the worker and the two routes that call it.

* **State.** The derivative's `row`, its section and chunk `rows`, the canonical
  `blob` and the temporary file of a put; the two staging files `src` and `can`,
  which all runs on one document share; per worker its step and what its run
  holds in memory; the manual selection. A text is known by its length: a file
  that is being written is read as a prefix of the text.
* **Actions.** One for each operation on a file, the store or the database, from
  `Begin` (which commits PROCESSING) through `Materialize`, `CheckSource`,
  `OpenCanonical`, `WriteCanonical`, `Digest`, the put, `Structure`, `ClearRows`,
  `WriteRows` and `Commit`; `Raise` and `RecordFailure` are the exception
  handler, `CleanUp` removes the staging files, `Die` ends a run.
* **Pure part.** `Blocks` and `Chunks` translate `build_structure`: sections at
  headings, and overlapping chunks cut at line ends, with the same arithmetic.
  `ReadyIsWhole` checks their result against its reference: every byte that is
  not white space lies in a chunk.
* **Data.** A layout gives length, headings, line ends, blank bytes and the sizes
  of the chunker. The two of the run are a text of two sections with a blank
  line, cut at line ends, and one with no line end after its title, cut in the
  middle of a line. The blobs are local files or objects.

| Run | Instance | Shows |
|---|---|---|
| `derivative` | 2 workers, 2 runs, 1 death or unwritten outcome, 2 layouts; FairSpec; 240 226 states | `ReadyIsWhole`, `RowsOfOneRun`, `SelectionHeld`, and `OutcomeReached` under fairness |

Fairness: a run that nothing kills takes its next step; it waits for no other
run. Two runs are enough for every pair: one after the other or overlapping.

What the run taught: if runs overlap, the second truncates the files the first
is reading, and a derivative can be ready although it describes a prefix.
`ReadyIsWhole` and `SelectionHeld` except overlapping runs; `RowsOfOneRun` does
not. A run that dies leaves PROCESSING until somebody processes the document
again. Processing a document again deletes the sections a selection names; the
whole document is offered from then on.

## 8. Native authentication

`NativeAuth` models `services/native_auth.py` with the routes of `auth_routes.py`
and the redemption of grants in `services/hyper_cocreator.py`.

* **State.** Which accounts are `known`, which are `admins`, which have a
  confirmed `factor`; the number of the current `password`; rows of `token`
  (resets and challenges of four purposes) and `session`; `redeemed` of each
  grant; per handler its step and its `job`, what it carries to its commit.
  `resetTo` and a session's `late` are history.
* **Actions.** A handler is a step that reads and a step that commits, in a
  transaction of its own: `BootstrapRead` and `BootstrapCommit`, `RegisterRead`,
  `Onboard` and `RegisterCommit` (two commits), `ClaimRead`, `LoginRead`,
  `ForgotRead`, then `Load` and `ResetRevoke`, `ResetCommit`,
  `RecoveryCommit`, `VerificationCommit`, `EnrollStart`, `MfaCommit`. `Abort` is
  any failure before the commit. A token's row is read FOR UPDATE: `Held` keeps
  others out until the commit. `Mailed` and `MailFailed` follow a commit. `Expire`
  stands for `expires_at` and for the eighth wrong attempt.
* **Environment.** Staging or production: administrators need a second factor.

| Run | Instance | Shows |
|---|---|---|
| `auth` | 2 accounts, 2 grants, 2 handlers at a time, 2 tokens, 2 sessions, 2 passwords per account; symmetric; 312 063 states | `LoadedIsOpen`, `SessionsEndWithReset`, `GrantAdmitsOne` |

Bounds: the properties relate a pair of handlers (two resets, a reset and a
login, two registrations), two tokens or a token and a session. Any number of
handlers may follow each other; tokens and sessions are never reused, so their
number bounds a behaviour. Deadlock is not checked: the pools run out.

What the run taught: a login that checked the old password before a reset
committed inserts its session after it (`SessionsEndWithReset` excepts it); two
overlapping requests for a reset leave two open tokens, of which one takes
effect; a registration or claim that fails after its first commit has used up
its grant; two overlapping bootstraps with different addresses both succeed; a bootstrap
that overlaps a registration of its address replaces the password just chosen
(`create_or_update_credential`). Two
resets of one account may deadlock on rows, which the database breaks (`Abort`).

## 9. Chat turns and audit evidence

`ChatTurn` models `send_message` and `stream_message` (`routes.py`),
`stream_team_message` (`team_routes.py`) and the governed invocation a direct turn
may start with (`services/audit_invocation_service.py`), on the ledger of
`AuditEvidence`.

* **State.** Per request its step and what its client was `told`; the questions
  (`said`) and `answers` that are durable; of an audit directive whether its
  operation `ran` and the `verdict` it gives its handler; the members `left` to
  consult and the `trail` of audit rows of a team turn. The ledger is `record`,
  one per invocation, and `recent`, those that the limiter still counts.
* **Interleaving.** Handlers are coroutines of their process. The audit
  invocation is a synchronous call, so while one is in it the process runs
  nothing else (`Turnable`); everywhere else every commit is a step of its own
  and any request may come in between.
* **Actions.** `Ask` or `AskTeam` commits the question; `Decide` covers policy,
  limit, authorization, lookup and operation, `Record` the append; `Prompt` and
  `ModelFails` or `Answer`; `Attach` stores a generated file; `Close` tells the
  client. A team turn repeats `Consult` and `Contribute`, then `Consolidate`
  and `Synthesize`. `Cut` and `Leave` end a stream early, `Die` ends a process.
* **Faults.** Every commit may fail, or be reported lost although it took effect.

| Run | Instance | Shows |
|---|---|---|
| `chat` | either three audit directives on 2 processes with a limit of one, or an audit directive, a stream and a team turn with 2 members; 1 failed commit or death; 147 089 states | `EvidenceStands`, `RateBound`, `DoneIsTrue`, and `TurnEnds` under fairness |

Bounds: the limit is passed by requests of different processes, and three
directives on two processes are the least that show that it is not passed by
more. Two members are one that answers and one that fails. One fault is anywhere.

Fairness: a handler that can go on does (weak fairness of `Proceed`); every
wait for a model or tool has a timeout. The death of a process is no step of it.

What the run taught: a team turn whose own audit row cannot be stored ends its
stream without `done`, against `src/README.md:16` and the docstring of
`stream_message` (`routes.py:1257-1262`); `TurnEnds` excepts it. When no record
can be appended the limiter does not count the operation. A turn told as failed
may have its answer in the thread if the commit's outcome was lost.

## 10. The files of a thread

`DocumentIntake` models `ingest_large_paste`, `persist_attachment` and
`persist_validated_artifact`; `DocumentContext` models `build_document_context`
beside them.

* **State.** Keys with a row, with content (`blobs`), and with a manifest or
  sidecar (`companions`); per request its step and what it knows it `made`.
  `rejected`, `unsure` and `crossed` are history: whose insert another constraint
  refused, whose commit was reported lost but took effect, and who was active
  together with another request of its key.
* **Actions.** `PutManifest` or `Upload`, `ValidateManifest`, `FindExisting`,
  `Store`, `PersistRow`; `Render` and `Describe` of an artifact; the cleanups
  `Discard` and `Withdraw`; `Die`. `Look` is the question S3's put-if-absent asks
  before it writes: two requests may both be told that they created the object.
* **A prompt.** `ListAttachments` reads the rows once; `LoadManifest` and
  `ReadAttachment` (chunks of a manifest, the file itself, not found,
  unreadable) take each against the two budgets. Which chunks are relevant is a
  choice of their length. A PDF is read up to `document_context_max_pdf_pages`:
  `Extracted` is the length of the text of those pages, `Chars` that of all, and
  cuts are measured against `Extracted`, as `source_chars` is. A file of which
  nothing is extracted is an error.

The run `thread_files` is shared with section 11: each initial state is one
scenario, and what a scenario does not use never moves. For files these are
three equal pastes; two equal uploads and an artifact; two equal pastes, an
upload and a prompt; an upload, a PDF of too many pages and a prompt. It shows
`RowsHaveContent`, `ReadyStaysWhole`, `ContextIsTruthful`, `ReadyIsSupplied`; 352 470 states in all.

Bounds: three equal pastes are one that creates, one that finds and one that
comes after the cleanup; two faults let a commit and a cleanup fail together.
The prompt has one fault. The budgets are 3 and 4 characters for a paste of 4, an
upload of 2, and a PDF of 3 of which 2 are on the pages that are read. So a paste
is longer than what one file may contribute, as the defaults have it
(`config.py:223-226`), it does not fit together with the upload, and the upload
and the cut PDF do: a prompt of both is called ready.

What the run taught: a PDF of more than 40 pages (the default) is cut there, its
length is measured after the cut, and the provenance calls it ready and not
truncated (`document_context.py:268-272`, `:558`). The docstring says as much of
`source_chars`; but the prompt's instruction not to "claim access to omitted or
truncated portions" (`:508`) has nothing to go by. `ContextIsTruthful` is therefore
stated of what was extracted, which is the whole text of every other document.
`RowsHaveContent` names the two ways a row loses its
content. A manifest may be withdrawn by the request that created it while another
relied on it; a later equal paste repairs it. When the backend is s3, uploads
are looked for on the local disk (`document_context.py:545`), so that a prompt
calls them missing, although `src/docs/EFATA_PREMIUM_ENVIRONMENT_VARIABLES.md`
requires s3 in staging and production: `ReadyIsSupplied` excepts them.

## 11. Spoken messages and voice assignments

`AgentVoice` models the administrators' routes on `agent_voice_assignments`:
`DraftRead`, `JudgeRead`, `ActivateRead` each with the commit that follows, which
writes the columns the route changed and fails as a whole if a constraint of
the table refuses it. `SpeechPlayback` models `message_voice` with its files: the
lock of an idempotency key (`AcquireLock`, `InspectLock`, `BreakLock`,
`KeyDeadline`), the replay of a stored response, the cache, the temporary file
(`OpenTmp`, `WriteTmp`, `Rename`), the synthesis, and `CompleteKey` and
`ReleaseKey`. Requests interleave between any two file operations, as on several
processes with a shared directory. `LockAges` lets the lock of a slow request
grow stale, `PlayDies` ends a request.

Three scenarios of `thread_files`: three playbacks, two of one key; two playbacks
of one key while a voice is activated; five administrators' requests, two at a
time, on three drafts of two agents, of which two share a voice. It shows
`PlayedAsResolved`, `KeyedOnce`, `OneAssignment`, and `PlaysEnd` under fairness.

Bounds: two requests of one key race, and the third, without a key, shares their
cache entry. Two mishaps let a holder die and the lock of its successor age.
Five administrators' requests draft, validate and activate one voice and begin
to replace it.

Fairness: a request takes its next step, and the clock passes the deadline of a
request that waits (strong fairness of `KeyDeadline`: the lock it waits for may
come and go).

What the run taught: a lock that has aged excludes nobody, since its late
holder releases whatever lock the path names by then; `KeyedOnce` excepts keys
whose lock was broken. Two processes that synthesize one voice at once share
its temporary file, and the audio may be a mix of both (`PlayedAsResolved` names
the case). A write to the cache or to the response file that the disk refuses
is not modelled: as an error of the request it would release the key after its
synthesis, and a retry would synthesize again.

## 12. Proofs

`tlapm` checks the eight proof modules from nothing. No proof rests on anything
but the named assumptions on constants (`CheckoutConstants`, `WebhookConstants`,
`TurnConstants`, `SpeechConstants`, `StoreConstants`, `RunConstants`,
`LayoutConstants`, `AuthConstants`, `LimitConstants`, `IntakeConstants`,
`ContextConstants`, `VoiceConstants`, `PlayConstants`), which TLC evaluates in
the runs, and two hypotheses that a theorem states where it needs them:
`OneHandler`, that there is one handler of webhooks, and `CacheEnabled`, that the
audio cache is on. Each module proves the type invariants of its components.

Every safety invariant and every action property that a passing run checks is
the property of a theorem. TLC checked each inductive invariant on the instance
of its run before it was proved.

**`BillingCheckoutProofs`**: `TypeCorrect`, `OnePost`, `FailedFinal`,
`BoundOwn`, `ToldDurable`, `AnchorNeverLost`, `PromiseKept`, for any number of
clients, keys and deaths. None of these properties is inductive: that a second
POST cannot happen depends on where every request of the key stands and on what
it loaded. `IInv` adds four facts to them: a row's identifier was minted by a
client of its key (`RowsOwned`); only the request that inserted the row reaches
the POST, and at most once (`PosterOwns`); a call is under way, has become a
link, or was refused, and only one of these (`CallsApart`); what a request
loaded or is about to store is still true of the row, which only gains
(`HeldIsTrue`). Each action preserves it, one lemma per action; `AnchorNeverLost`
and the refinement step follow from the invariant before the step.

**`BillingWebhookProofs`** has two layers.

* *Any number of processes*: `TypeCorrect`, `CreditIsBacked`, `ReversalsAreWhole`.
  The invariant `Base` adds to these that a running handler holds an event that
  acts on a checkout (`BusyBound`); ledger entries are written only from what it
  read, and never more than that.
* *One process* (`ASSUME OneHandler`): `EntitlementIsBacked`,
  `SolePlanIsInForce`, `WalletAddsUp`, `MoneyIsFollowed`, `ReversalsDominate`,
  `PromiseKept`. Here what a handler has read is still true when it commits
  (`StillTrue`): no other handler can have committed since. With that, the
  books are inductive (`Books`: entitlement, wallet, ledger and transactions
  agree with the state of each checkout), and the invariant is the conjunction
  of `Base`, `StillTrue` and `Books`. The two-process counterexample is exactly
  a state in which `StillTrue` fails.
* *The order of events* (`OrderDoesNotMatter`, one process). The status of a
  checkout with one payment is a function of the set of events answered so far
  (`StatusAfter`), and not of their order. It is one because of what the provider
  emits: the events of a payment lie in the past of its last one (`Lives`,
  `Past`), which excludes the pairs that would not commute. Once all of them are
  answered, `StatusAfter` is the state the provider holds (`Settled`).
* *The sums* (`WalletIsLedger`, one process). `WalletMatchesLedger` adds up sets of
  entries with a fold, which is a recursive function on sets. That such a
  function exists and may take out any element first is proved by induction on
  the size of a set (`NatInductionOnSets`, over sets of numbers rather than over
  an operator); then a new entry adds its amount, and each of the three writes of
  the wallet keeps the balance at what its entries come to (`Audited`).

**`RealtimeTurnProofs`**: `TypeCorrect`, `ExecutedOnce`, `ReceiptsNameAnswers`,
`NoSilentEnds`, `OutcomesFinal`, for any number of requests, turns, processes,
members and losses. The invariant says besides these that a request that asked,
or has passed the reservation, has its receipt reserved (`Reserved`); that a
running request is the only one of its turn in its process and the first there
(`Alone`, which `Arrive` establishes because a request between reading and
reserving keeps the event loop); that an answer is stored before the receipt
names it (`Persisted`); and that nobody runs a turn that has an outcome and is
served by one process (`Closed`), from which `OutcomesFinal` follows.
With sessions and speech (`SpeechSpec`): they take only steps of `RealtimeTurn`
(`SpeechKeepsTurns`), so all of this holds beside them; and `SegmentsBounded`, for
any limit and any finite number of processes. Its invariant (`Counted`) is that
the segments of a minute, with the processes that have counted and not yet
inserted (`Counting`), stay below the limit plus the number of processes. One
request of a process is between the two (`OneCounts`), as nothing is awaited there.

**`KnowledgeStoreProofs`**: `OneIsActive`, `RevocationHolds`, `MissingIsQueued`,
`BlobsAreAccounted`, for any documents, contents, requests and deaths. The
invariant has two halves. On rows: versions form a chain, an existing version
having retired every older one (`Chain`); a request between `Write` and its
commit has what it read (`Underway`); with the lock it is alone (`Exclusive`).
On blobs: a key is spoiled for its row once a task names it or two unlocked
requests crossed on it (`Spoiled`, which is never undone). The blob of a request
is there, is its own and of no other row, unless its key is spoiled or the
document is gone (`Held`), so that taking it back harms nobody. With the lock
requests do not cross: what one of them looked for stays absent until it writes
(`Alone`). Every blob is answered for (`Answerable`), by the request that queues it
until its task is pending, or until the job ends that task (`overtaken`).
With a prompt (`ContextSpec`): `ContextKeepsStore` and `ContextGoverned`. What was
listed as active stays a row that is active, superseded or revoked, unless its
owner deletes it (`Listed`): a version is not written twice and a deleted document
does not come back (`DeadStays`). So a missing source was lost in one of the
known ways, by the invariant of the store; and two listed versions of one document were both active
(`ActiveIsSole`), which `OneActive` excludes.

**`NativeAuthProofs`**: `LoadedStaysOpen`, `SessionsEnd`, `GrantOnce`, for any
accounts, grants, handlers, tokens and sessions. The invariant says what a handler
carries in each step (`Carries`), that a loaded token is in no other handler's
hands (`Exclusive`), that a reset about to commit has seen every session that was
open in time (`SeesSessions`), and that passwords only go forward (`Forward`,
`SecondFactors`).

**`ChatTurnProofs`**: `DoneHolds`, `EvidenceHolds`, `RateHolds`, for any requests,
members, faults and any finite number of processes. The invariant is a predicate
of one request (`Sane`: its thread, its audit rows and its evidence agree with its
step), which a step of another cannot touch (`Same`), and `Rated`: one request
per process is inside the invocation, and the operations counted plus those
that are pending (`Load`) stay below the limit plus the number of processes; the
cardinality argument maps the pending ones into the processes.

**`ThreadFilesProofs`** has four parts, as the run of sections 10 and 11 has.

* *Files*: `RowsKeepContent`, `ReadyIsWhole`, for any requests, keys and faults. A
  step touches only its own progress and the stores at its key (`Own`); two
  active requests of one key have both crossed (`Crossing`); a row, or a request
  about to insert one, has its content or one of the two excuses (`Contents`,
  `Excuse`); and the file of a request that crossed none is built up step by
  step and no rival can take it apart (`Whole`, `Harmless`).
* *A prompt that reads them* (`PromptSpec`): `ContextTruthful`, `ReadySupplied`. One
  listed attachment at a time is open (`OneOpen`), what was taken of it is the
  length that was extracted or is marked truncated (`Taken`), and what was ready when it was listed
  is still (`SureStayReady`, by the first part), so that a manifest or a file that
  is not found belongs to another, or is an upload with s3.
* *Assignments*: `AgentsKeepAValidVoice`, for any drafts, agents, voices,
  administrators and number of requests, from a table without rows
  (`VoiceSpec`; the run also begins with a row that is active). What a route
  remembers still holds when it commits (`JobsNameRows`), the rows pass the
  checks of the table (`RowsPassChecks`), and a draft replaces rows of its own
  agent only, so that another agent's active row survives it (`AgentsCovered`).
* *Playbacks beside them* (`PlaybackSpec`): `VoiceOfTheRequest`, and
  `OneSynthesisPerKey` with the cache on. Audio in memory, in a response, in a
  cache file or in a temporary file was synthesized for the profile it is filed
  under (`AudioFits`, `FilesFit`); who writes holds its own, and writes it alone
  unless another opened its file (`Writers`); a cache file that one request
  wrote is whole (`CacheWhole`). The lock of a key that was never broken belongs
  to the one request that is past it (`Owners`), and who was given audio of such
  a key still holds the lock or has filled the cache (`Once`): the next owner
  finds it there. The cache is needed: a request that looked for the response
  before it was stored may take the lock once it is free, and does not look again
  (`AcquireLock`); only the cache keeps it from a second synthesis.

**`DerivativeProofs`**: `OneRunInTheRows`, `ReadyHasTheWholeText`,
`SelectionRestricts`, for any text, block size, overlap, and number of workers, runs
and faults.

* *The chunks.* `Blocks` is a recursive function of the start of a block. A block
  is not empty and the next one starts behind its start but not behind its end
  (`BlocksMoveForward`); hence the function exists (`BlocksExist`) and the blocks
  from a start on hold every byte up to the end of the section (`BlocksCover`),
  both by induction on the distance to that end. The sections hold the text,
  as it begins with a heading (`ChunksIndexTheText`).
* *The runs.* While none overlap there is one (`Alone`); the invariant follows what
  it has of the text, in the staging files, the blob and its memory, and that it
  is the whole of it (`OnItsWay`), up to its commit (`Ready`). Every run begins by
  writing both staging files anew, which is why what earlier runs left does
  no harm. A selection is quiet until the next run begins (`QuietNow`), and the
  chunks it may offer are not empty because the first byte lies in one.
  `RowsOfOneRun` needs none of this: each commit replaces all rows.

Only model-checked is liveness, which is out of the prover's reach:
`CreatedLinkIsDelivered`, `EveryEventAnswered`, `TurnEnds` (of realtime and of chat
turns), `OutcomeReached`, `PlaysEnd`.

## 13. What is not modelled

`PROJECT.json` lists every component with its status. Outside are:

* stateless checks and lookups: principals and authorization, static catalogues
  of agents and products, entitlement reads, input validation that ends a call
  before any write, security checks of one file's bytes;
* pure parsing and layout: text extraction, rendering of documents, how the
  segmenter cuts a text into sentences, path rules of the audit archive;
* clients of external services, whose calls answer, fail or do not return, and
  the tools that run in a sandbox or read remote data;
* components of one transaction: threads, invitations, public applications. The
  race of two acceptances of an invitation is decided by a unique key;
* in the modelled components: wrong passwords and the lock-out counter (a
  read-modify-write without a lock, `native_auth.py:632`), second-factor codes
  and recovery codes, expiry dates of entitlements, ranking in retrieval,
  the wallet behind several server processes (`billing/service.py:622`), and
  local files that the disk refuses to write (`text_to_speech.py:185`, `:225`);
* migrations, scripts and the schema collector, which do not run in the server.

Time is abstracted everywhere: a timeout may happen whenever a call is under
way, a token may expire and a minute may pass at any step.
