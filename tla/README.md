# TriPort: verification models

TriPort screens travel documents at a border checkpoint. An officer uploads a
document (Stage 1: OCR, forensics, validation, watchlist, risk), a live face is
compared with it (Stage 2), and the officer decides. The backend keeps working
without its database and synchronises later. The models here are translated
from the code; each definition's lines are in `PROJECT.json` under `map`.

## 1. Inventory

| Component | State | Operations | Talks to |
|---|---|---|---|
| Audit ledger (`audit_ledger/core/hash_chain.py`) | table `audit_ledger`, in-process list `_IN_MEMORY_CHAIN` | `append_event`, `verify_chain` | document endpoints (decision, pipeline end); FK to `scan_events` |
| Scan store and document endpoints (`orchestrator/core/scan_store.py`, `routers/documents.py`, `db/session.py`) | `scan_events` and child tables, `officer_decisions`, the cache `_RECENT_SCAN_RECORDS`, the engine and session factory | upload, verify-live-face, decision, reads | pipeline, offline queue, ledger |
| Offline queue and sync (`orchestrator/core/offline_sync.py`) | SQLite `pending_screenings`; the loop's batch and confirmed ids | save, update with Stage 2, record decision, round: probe, read, write, retry, purge | Supabase; shares both stores with the handlers |
| Screening pipeline (`orchestrator/core/langgraph_pipeline.py`) | the graph state: results of the nodes, degraded list | Stage 1, Stage 2 and unified graph, parallel nodes, gates, routing | service clients, blacklist, risk engine, ledger |
| Service clients (`core/service_clients.py`) | none | HTTP call with in-process fallback | the services |
| Blacklist (`core/blacklist.py`) | watchlist table | `check_blacklist` | pipeline |
| Risk engine (`risk_engine/core/scoring.py`, `reasons.py`) | none | sub-scores, weighted score, bands, escalation, reasons | pipeline |
| Cross-checkpoint (`cross_checkpoint_service/core`) | `_in_memory_cluster_store`: the documents seen with one face | seed, analyse a cluster, dossier | pipeline, command dashboard; clusters are named by the face service |
| Face service (`face_service/core`) | the InsightFace singleton, `_in_memory_embeddings` | 1:1 comparison by AWS or local models, 1:N search | pipeline; the tampering service's worker thread shares the singleton |
| Tampering service (`tampering_service/core`) | none | five forensic checks, composite | pipeline |
| Validation (`validation_service/core`) | the YAML rule files on disk | rules of a document type and of a country; a second interpreter behind the regional endpoint | pipeline; operators edit the files |
| OCR service (`ocr_service/core`) | the circuit breaker in front of the vision API, a batch | extraction, batch; MRZ, classification, visual fields | pipeline; the orchestrator runs the same engine in its own process |
| Console (`frontend/components/screening`) | wizard step and data, live capture, countdown, calls in flight | upload, capture, retake, decide, reset | document endpoints |
| Authentication; storage, analytics, migrations, scripts | sessions; files | token checks; I/O | - |

How they interact: the backend is one event loop. Handlers and the sync loop
are coroutines, so between two awaits nothing else runs and at every await
anything may. They share the two stores and the cache by reference and hold no
lock across an await. Concurrency between processes (several API workers, the
ledger's several sessions) meets only in database constraints.

What is hard in this code:

- *interleaving*: two appends read the same last ledger row; the sync loop
  writes payloads it read before the handlers changed them;
- *partial failure*: failed commits are logged and answered like successes; the
  transaction of a decision may fail on a foreign key;
- *crash and recovery*: a crash between the commit of an item and the purge of
  its row; the in-process chain and the cache disappear;
- *connectivity*: it changes at any time, and a request keeps the session it
  started with;
- *liveness*: queued screenings must reach the database, with a bounded number
  of retries and a bounded batch;
- *staleness*: the cached record is shared by concurrent requests and outlives
  the stores' view of it; rule files change while a document is validated;
- *shared singletons*: a worker thread of one document's forensics loads the
  face model that another document's comparison is about to use, and every
  pipeline of a process shares one circuit breaker;
- *numbers at a boundary*: half points that rounding sends either way, weights
  that one module's result takes from the others, a band of similarities in
  which further models vote, check digits that hide some misreadings.

What makes each component correct:

- ledger: one unforked chain, numbers 1..n, `verify_chain` never fails on it,
  nothing is ever removed or rewritten;
- stores and sync: an acknowledged screening is in one of the two stores at all
  times; a decision belongs to a stored screening; it is stored once unless a
  fault intervenes; the queue drains;
- pipeline: every path ends with a scored and routed screening; a
  watchlist hit is never weakened by a later stage; degraded services are
  reported;
- risk engine with the services before it: a known offender is never rated
  below the same evidence without history, what is known is told in the reasons,
  and "no risk signals" is said only of what was checked and found clean;
- cross-checkpoint: comparing neighbours in time misses no impossible trip, and
  a further scan hides nothing;
- face: the score says the same as the verdict; one comparison uses one model;
- validation: no rule is lost, an illegible field never helps;
- OCR: a field has one source, a misread number is repaired, the vision API is
  left alone after a refusal;
- console: no automatic approval without a match of that document's face, an
  answered decision starts no other, a match leads to a decision, the buttons
  come back, and a confirmation is about one traveller unless a late timeout
  has made a second decision.

`PROJECT.json` lists each hazard at its line with the properties about it.

## 2. Modules

| Module | What it is |
|---|---|
| `AppendOnlyLog` | abstract specification of the ledger: one event at a time is added at the end, never twice |
| `AuditLedger` | `append_event` over the table and the in-process chain; `verify_chain` |
| `AuditLedgerProofs` | theorems about `AuditLedger` |
| `ScreeningStore` | request handlers, SQLite queue, sync loop, cache, connectivity, crashes |
| `ScreeningStoreProofs` | theorems about `ScreeningStore` |
| `ScreeningPipeline` | the three screening graphs in supersteps, with the outcomes of the service calls |
| `ScreeningPipelineProofs` | theorems about `ScreeningPipeline` |
| `ScreeningConsole` | the officer's wizard, its calls in flight and the countdown to an automatic approval |
| `ScreeningConsoleProofs` | theorems about `ScreeningConsole` |
| `ScreeningData` | what services hand each other: bands, flags, the cluster analysis |
| `TamperingDetection` | the five forensic checks and their composite, from measurements |
| `RiskScoring` | `compute_risk_score` and `generate_reasons` |
| `CrossCheckpoint` | clusters, flags, repeat offenders, the analysis and the dossier |
| `FaceVerification` | the 1:1 comparison step by step, the model singleton, the 1:N search |
| `RiskAssessment` | composes the four: Stage 2 runs over the services' shared state |
| `RiskAssessmentProofs` | theorems about the cluster analysis, the score and the composition, each part building on the one before |
| `ValidationRules` | the two rule interpreters, field aliases, responses |
| `ValidationService` | the validation node over rule files that are edited meanwhile |
| `ValidationProofs` | theorems about `ValidationService` and the two interpreters |
| `MrzParsing` | finding the MRZ, check digits, repair of misread characters |
| `FieldExtraction` | document type and fields of the visual zone |
| `ExtractionService` | endpoint, batch, pipelines and the circuit breaker of one process |
| `ExtractionProofs` | theorems about check digits and their repair, dates, and the service with its circuit breaker |
| `RecursionLemmas` | lemmas about least elements, recursion and induction on numbers, and flattened sequences, for `RiskAssessmentProofs`, `ValidationProofs` and `ExtractionProofs` |
| `MCAuditLedger`, `MCScreeningStore`, `MCScreeningPipeline`, `MCScreeningConsole`, `MCRiskAssessment`, `MCValidation`, `MCExtraction` | finite instances for TLC |

Operators whose comment begins with "Mutant" are plausible bugs: each replaces
one definition and makes one property fail. They are not part of any
specification.

### AuditLedger

`append_event` is two steps because it awaits: `ReadLatest` (the SELECT and the
construction of the entry) and one of the four ways the commit ends:
`CommitStored`, `CommitConflict` (the UNIQUE constraint on `sequence_num`),
`CommitOrphan` (the foreign key on `document_id`), `CommitUnwritten` (the
connection is lost). The code answers the last three like a success, with the
number it had computed, and so does the model. `ReadRaises` is the SELECT that
fails: it is outside the `try`. `AppendInMemory` is the call without a session,
which has no await. `Crash` ends the suspended calls and empties the in-process
chain. A row is the whole entry; a hash is the tuple of what was hashed, that
is, SHA-256 is idealised as collision-free. The hashed timestamp is left out;
this assumes that `created_at` reads back from the database with the same
`isoformat()` (a UTC session), otherwise `verify_chain` reports corruption on
an untouched table. `verify_chain` does not recompute a payload's hash from
the payload and cannot notice that the last row was removed; the model's
`VerifyChain` does exactly what the code does.

### ScreeningStore

| Variable | Code |
|---|---|
| `scans`, `decisions` | tables `scan_events` (with its child rows), `officer_decisions` |
| `sqlite`, `nextId` | table `pending_screenings` and its AUTOINCREMENT counter |
| `cache` | `_RECENT_SCAN_RECORDS` |
| `evicted` | records the cache has dropped, with the Stage 2 requests that still hold a reference |
| `engine` | `_engine` and `_session_factory` of `db/session.py` exist |
| `req` | the handlers in flight: where they are, their document, whether they have a session |
| `sync` | the loop: running a round, the items not yet tried, `synced_ids` |
| `online` | Supabase can be reached |
| `acked`, `submitted`, `recorded`, `faults` | history: uploads answered, decisions submitted and answered, faults so far |

A request chooses its session once (`GetDbOptional`): a session exists as soon
as the engine does, without any connection being tried, so a request may hold a
session while Supabase is unreachable. Upload is `BeginUpload` and then
`SaveOnline`, `SaveOffline` (no session, or the lookup fails) or `SaveFails`
(the commit raises: a 500, although the row may have been written). Stage 2 is
`BeginStage2`, `Stage2Done` (the record the handler holds changes; without a
session the queued row is updated at once) and `Stage2Commit`, which copies that
record as it is by then and swallows a failure. Both end with the record in the
cache again. A decision looks the cached record up anew. It is `BeginDecision`
and then `DecisionCommit` and `DecisionAnswer`, or `DecisionOffline`. The loop
is `SyncStart` (the batch and its payloads are read once), `SyncCommit`,
`SyncFail` or `SyncFault` for each item in the order of its id, and `SyncPurge`.
`Crash` empties the cache, the requests and the round and keeps the databases.

Abstractions:

- A document id is a fresh `uuid4`, so `INSERT OR REPLACE` on the queue never
  replaces a row and a document has at most one queued row.
- Of a record's data the model keeps the three things that its writers
  overwrite in each other: the Stage 2 result, `inspection_status`, the verdict.
  Images and child rows belong to their scan's row.
- One item's transaction in the sync is atomic. That SQLAlchemy skips
  attributes that did not change is not modelled.
- `get_scan`'s read and its filling of the cache are one step.
- `Evict` drops any record at any time; the code drops the oldest at 256
  records. A Stage 2 request keeps the object it holds, and so the same document
  may be cached a second time while the first object is being written to.
- A request for an unknown document (404) changes nothing and is no action.
- The background image upload, the lists and the watchlist CRUD are not
  modelled. `officer_decisions` also refers to `users`; a failure of that key
  has the outcome of a commit that fails and is not a case of its own.
- While the engine is being created a request has no session; that a sync
  round in that window spends a retry on each item is not modelled.
- Errors of SQLite itself are not modelled.

### ScreeningPipeline

| Variable | Code |
|---|---|
| `graph`, `live` | the compiled graph that `ainvoke` is running; whether it was given a live photo |
| `active`, `triggered`, `arrived` | LangGraph's schedule: nodes of this superstep still running, nodes of the next, sources of the fan-in edge that have finished |
| `state` | `ScreeningState`; `failed` stands for the `*_available` flags |
| `record` | the `PipelineResult` and status that the handler keeps between the stages |
| `ran`, `hit` | history: runs of each node, a watchlist hit in any check |

One action per node, each with the node's edges: `Finish` triggers the targets,
a router (`CheckOcrQuality`, `IntegrityFlagged`, `RouteByThreatLevel`) picks
among them. `Superstep` starts the triggered nodes when all of the last
superstep are done, and `document_gate` when all sources of its fan-in edge
have finished. `RunStage1`, `RunStage2` and `RunUnified` are the callers'
initial states; `Return` builds the result; `NextDocument` is the console's
reset. Every service call may raise, and the node degrades as its `except`
says.

Abstractions:

- A superstep's results become visible when it ends. No node reads a key that
  another node of the same superstep returns, so the model writes them at once.
  The one exception in the code is the extraction, which the LLM fallback
  changes in place: the code, too, shows it at once.
- Of the fields the model keeps the identity, of the MRZ whether it is there and
  valid; `poor` stands for every other reason of `check_ocr_quality`.
- Tampering, validation and face results keep what the routers distinguish. A
  score is any band, as far as the escalation for repeat offenders allows:
  what `compute_risk_score` computes is in `RiskScoring`.
- A client's attempts (HTTP twice, then in-process) are one call that returns
  or raises. `audit_ledger` changes nothing here: without a session the entry
  goes to the in-process chain, which `AuditLedger` models.
- One graph runs at a time. Two Stage 2 runs of a document share only its
  record, which is in `ScreeningStore`.
- LangGraph's limit on supersteps (25) is above the longest run and is left out.

### ScreeningConsole

| Variable | Code |
|---|---|
| `currentStep`, `uploadData`, `stage2Data`, `decisionData`, `isUploading`, `isDeciding` | the React state of `ScreeningConsole` |
| `cameraActive`, `captured`, `verificationResult` | the state of the mounted `BiometricScreen` |
| `autoClearTimer` | the interval behind `autoClearTimerRef`, with the document of its closure |
| `dispatched` | how many `setTimeout(.., 0)` of an interval's last tick are due, by the document of their closure |
| `uploads`, `verifying`, `deciding` | API calls whose answers have not come |
| `uploaded`, `matched`, `answered` | history: ids given, documents that matched, documents with an answered decision |
| `overtaken` | history: a timeout has gone off on a document that was being decided or was decided |

An event handler up to its `await`, and each continuation of it, is one step
together with the render and the effects it causes, because React batches the
updates. `Render` is the effect of the countdown: which timer runs after a step, by
its dependencies and its cleanup. The handlers are `UploadDocument`,
`CaptureAndVerify`, `Retake`, `OfficerDecides` and `Reset`; the answers
`UploadAnswered`, `VerificationAnswered`, `DecisionAnswered` and their
failures; the timers `Tick` and `AutoApprove`. Answers come in any order, also
to calls of a document or of a screen that is gone.

Abstractions:

- A match is yes, no or unknown (no comparison); a risk is low or high.
- Error texts, previews and layout are left out. A camera that fails leaves
  `cameraActive` false; a capture that fails before its call is a call that
  fails.
- A timeout of 0 ms is served at any later moment, whatever the officer or the
  answers of calls do before it and whatever is on the screen by then: it
  approves the document of its closure. A browser orders its timers and its
  network answers as it likes.
- The backend gives every upload a new id.

### RiskAssessment

It composes `FaceVerification`, `CrossCheckpoint`, `RiskScoring` and
`TamperingDetection` into Stage 2 as it runs in one process
(`use_in_process_services`): `ScreeningPipeline` has the graph, this module the
data.

| Variable | Code |
|---|---|
| `registry` | `_in_memory_cluster_store`, in insertion order |
| `insightface` | `_insightface_attempted` and `_insightface_app` |
| `embeddings` | `_in_memory_embeddings`: which document is in which cluster |
| `phase`, `visible`, `embedded`, `face` | where a verification is, whose face RetinaFace finds, which model embedded each photo, the response |
| `node`, `current`, `cross_checkpoint`, `degraded_modules` | the run: next node, document, results |
| `assessed` | the request to the risk engine with its response |
| `raced`, `offender` | history: a load ended between the two embeddings; a severe prior was on record at the analysis |

`StartStage2`, `FaceVerificationNode` (one step per stage of
`verify_one_to_one`: AWS, each embedding, the comparison, the search) or
`FaceVerificationRaises`, `CrossCheckpointNode`, `RiskEngineNode`, `Reply`; in
between other requests `Seed` a cluster or register a face, and the tampering
service's worker thread starts and ends a load of InsightFace.
`_insightface_attempted` is set before the load: a caller in that window is
told there is no model. Numbers are integers: similarities, sub-scores and
weights in thousandths, scores in tenths of a point. `Rounded` admits both
neighbours of a half, where the binary fraction decides.

Abstractions and facts a reader should know:

- What is measured in pixels, which similarity two embeddings have and how a
  vote goes are inputs. Stage 1's results are chosen where the risk engine
  first reads them.
- Other requests are let in before the one node that reads what they change;
  with all other steps they commute.
- Tampering weights differ between the service and the client's fallback; a
  response of either is possible. No caller passes known stamp hashes, so
  `stamp_match` never fires.
- Nothing in production registers embeddings or passes the cluster service a
  session: both are test and demo entry points, and `Clusters` is what they can
  leave. With services over HTTP the orchestrator's fallback reads a registry of
  its own, which is empty.
- Timestamps with and without a time zone in one cluster raise: the cluster
  cannot be analysed, and the module is reported as degraded. A sighting
  without a checkpoint hides a trip between its neighbours, which is why
  `TripsAreFound` asks for checkpoints.
- A flag other than `repeat_offender` may lower the score: its term takes a tenth of the
  other weights. Only the escalation makes up for it.
- The liveness measurement adds text to the answer and no number.

### ValidationService

| Variable | Code |
|---|---|
| `base`, `regional` | the YAML file of the document type, and of each country |
| `document` | fields, whether there is an MRZ, whether the type is Indian |
| `phase`, `base_rules`, `regional_rules`, `results`, `response` | a `validate_document` in progress |

The files are read anew for each document, the type's before the country's, and
`EditBaseFile` and `EditRegionalFile` come at any moment. A value is abstracted
to the day it names, the patterns it matches and the country it names. A
pattern that does not compile raises: in the base file the node answers
`validation_service_unavailable`, in a regional file the remaining regional
rules are dropped. A file that is no YAML has no rules, and the document passes
them. A rule is skipped when a result has its name. The regional endpoint is a
second interpreter with other answers for missing fields.

Not modelled: `offline_cache.py` and `database_check.py`, which the pipeline
does not call; the MRZ checksums that a `checksum` rule would look at, because
the pipeline passes none and no file has such a rule (although the comment at
`rules_engine.py:18` lists them), nor the related document of a
`cross_document` rule, which the pipeline does not pass either. The `/validate`
endpoint passes both when its request has them. Without a nationality no regional rule applies,
which is the reason for the hypothesis of `MissingFieldNeverHelps`.

### ExtractionService

| Variable | Code |
|---|---|
| `process` | the OCR service or the orchestrator |
| `now`, `cooldown_until` | the clock in minutes, `_cooldown_until` |
| `asked` | history: the vision API's answers to the requests of the last step |
| `reading` | calls of `call_ocr_service` whose text is being read in a thread |
| `batch`, `answer` | a batch in progress, what a handler returns |

A scan is a sequence of lines; a line is abstracted to the keywords, labels,
texts and dates in it and to what the MRZ parser sees. Characters are kept where
a property is about them: in numbers and years with their check digits.
`MrzParsing` chooses the lines (first match for line 1, last match for line 2)
and repairs what the check digit refuses; `FieldExtraction` gives a type by
keyword scores, fields by label or by the next line, and dates by label, then
by order. Operators go from line to line, as the loops of the code do. `Over` is
a dictionary updated by another.
The vision API is called without an await, so one call with all its models is
one step; the breaker is shared by every caller in the process.

Abstractions: keyword scores by one keyword of each kind; regular expressions
are in what a line "finds"; recognising text, transliteration and the
multilingual metadata (text for display) are left out. The batch's semaphore
has no effect, since `process_single_item` does not await.

What the model shows beside its properties: a label line without a date takes
the date of the next line even if that has a label of its own; fields of the
vision API replace those of a verified MRZ; an unreadable sex becomes "M"; the
confusion of "G" and "6" is one the check digit cannot see (their values differ
by 10), and the second candidate of the repair can fit an all-digit number
wrongly, which is why `MisreadingIsRepaired` is about numbers of one or two
letters before digits.

## 3. Runs

| Run | Instance | Shows |
|---|---|---|
| `ledger` | 3 concurrent calls, 2 payloads, 1 document | `Contiguous`, `ChainVerifies`, `AnswerNamesARow`, and the refinement `ImplementsLog` |
| `store` | 1 document, 2 requests at once, 2 decisions of one verdict, 2 faults | `AckedScanDurable`, `QueuedTwiceOnlyAfterFault`, `DecisionsReferToScans`, `DuplicatesBoundedByFaults` |
| `store_drain` | 2 documents, batch limit 1, 1 fault, fairness | `QueueDrains`, and that purging one row never takes another |
| `store_decision` (violation) | 1 document, 1 request | a decision on a queued screening is answered as recorded and is in no store |
| `store_purge` (violation) | 1 document, 1 request | data merged into the row during a round is purged unwritten |
| `pipeline` | 2 identities, one of them listed | `DecisionsSeeAllResults`, `NodesRunOnce`, `RunsEndDecided`, `ClearedOnlyIfClean`, `FailuresReported`, `EveryFailureNamed`, and `RunsEnd` under fairness |
| `pipeline_watchlist` (violation) | the same | a watchlist hit of Stage 1 does not reach Stage 2: the document is cleared |
| `console` | 2 documents, a countdown of 3, 1 call of each kind in flight, fairness | `ConfirmationIsOfOneTraveller`, `AutoApprovalWasMatched`, `AnsweredStartsNothing`, `MatchLeadsToDecision`, `OfficerRegainsControl` |
| `assessment` | 1 cluster of up to 3 sightings from 5 records, 3 similarities, 3 images, 2 validation and 2 watchlist results | `ScoreTellsVerdict`, `RepeatOffenderNeverRatedLower`, `PriorOffenceIsTold`, `SilenceMeansClean`, `TripsAreFound`, `NewScanHidesNothing` |
| `assessment_mismatch` (violation) | the same | a face that does not match, at a similarity of 0.60 and more, is given no reason |
| `validation` | 4 files of a type, 4 of a country, 2 countries, 6 documents | `NoRuleIsLost`, `MissingFieldNeverHelps`, `RegionalEndpointIsStricter` |
| `extraction` | 17 scans, 2 models, a batch of 3, a clock of 6 minutes, 78 printed numbers with all their misreadings | `FieldsHaveOneSource`, `MisreadingIsRepaired`, `ProviderIsLeftAlone` |

Every run checks its module's `TypeOK` but `store_drain` and the violations.

Bounds. Two calls make the ledger's race, the third is the one that reads after
the race, while a loser is still suspended; two payloads let two entries differ
by their hash only. In the store, everything a property says is about
one document and the sync loop; two requests on it are Stage 2 against a
decision, or two decisions, during a round. The properties count the rows of decisions and
do not look at their verdicts, so one verdict is enough. The requests are
interchangeable (symmetry; no liveness is checked in this run); two faults let a
crash hit the recovery from a crash. The second document of `store_drain` exists because the batch
limit is one, so the rows compete for the batch. `MaxRetry` is 2 for 5 and
`BatchLimit` 1 for 50: the limits are reached, which is what matters.
`MaxDecisions` and `MaxFaults` bound the histories; `MaxRetry` and `BatchLimit`
are the code's constants. In the pipeline every
node, path and combination of failing services is there; two identities are one
that is listed and one that is not, read first or by the fallback. Any number
of Stage 2 runs may follow Stage 1. `Often` (2) stops the count of a node's
runs, where `NodesRunOnce` has failed. In the console two documents let an
answer of the first come when the second is on the screen; `CountdownFrom` is
the code's 3. `MaxInFlight` (1) allows one call for each kind, document,
verdict and origin, so an automatic approval and two decisions of the officer
can still be in flight together. A due timeout counts as the approval it will
send: the interval's last tick waits while one is under way.

In `assessment` a cluster of three (`MaxScans`) lets a sighting lie between two
others and the analysed document be a fourth; its records agree and differ in
every field a flag is about, with and without time zone, checkpoint and rating.
The similarities lie below both thresholds, between them and above both, each
threshold's borderline band included; the images are clean, suspicious below
every threshold, and edited. In `validation` every rule type, a name that both
files use, a broken pattern and a broken file occur, and an edit between any two
reads. In `extraction` the scans have every zone format and document type, two
zones in one image and labels that compete for a date; `MaxNow` (6) covers the
longest pause (5) and a request after it, `MaxReading` (2) two pipelines at a
time. The printed numbers are every letter before digits, and every pair of
letters that begins with "A" or "Z".

Deadlock is checked everywhere.

Fairness (`FairSpec`) in `store_drain`: weak fairness of the loop's steps.
The task never returns: it sleeps 29 s, its body is inside a `try`, and a
round it started goes through all its items. (`pending_count` is called outside that
`try`, see the hazard list: a SQLite error there would end the loop. The model
has no SQLite errors.) Nothing is assumed of the officers' requests, of the
connection or of the faults; `QueueDrains` has the connection's return as its
hypothesis. In `pipeline`: weak fairness of the steps of a run. The event loop drives
an `ainvoke` to its end, HTTP attempts have timeouts and in-process calls
return. The officer need never start Stage 2 or take the next document. In
`console`: the browser serves its timers, and a call for a decision ends in an
answer or an error. Nothing is assumed of the officer, nor that a call succeeds.
The other runs check safety and assume none.

## 4. Proofs

`AuditLedgerProofs`, for any calls, payloads and documents, from the
assumption that `NoScan` is not a document: `IInv` is invariant, hence
`TypeOK`, `Contiguous` and `ChainVerifies`, and `AuditLedger` implements
`AppendOnlyLog`. `Contiguous` alone is not inductive: a suspended call holds an
entry made from a table that has grown since. `IInv` adds
`HeldLinksExtendChain` (such an entry still links to some row, since rows are
never removed) and `RowsExtendChain` (so does each stored row); an entry that
links to a row and whose number is free can then only be at the end of the
chain.

`ScreeningStoreProofs`, for any number of documents, requests and faults, any
retry limit and any batch limit, from `VerdictsAreDecisions`,
`BoundsAreNumbers` and `NoneIsNoValue`: `StoreInv` is invariant, hence `TypeOK`
and `AckedScanDurable`; and `DecisionsReferToScans`. The argument for
durability: the only step that removes a queued row is the purge, which goes
by id. `IdsNameRows` and `BatchNamesRows` say that ids are never reused, so an
id in the batch names its row although the queue changed; `ConfirmedAreStored`
says that what was confirmed is in Supabase; nothing ever leaves Supabase.
`Stage2HasARecord` (a Stage 2 request's record is cached, or among those the
cache has dropped) is what makes `Stage2Commit` write a record and not nothing. The mixture of retry counts in `BatchNamesRows` is what keeps
`retry` within `MaxRetry`.

Two larger invariants build on it, with `RequestsAreFinite`. `PlaceInv` gives
`QueuedTwiceOnlyAfterFault`: a document under upload is nowhere yet and under
one upload (`UploadsAreFresh`), what is queued was acknowledged
(`QueuedAreAcked`), and what a batch holds is queued and unconfirmed
(`BatchIsQueued`). `CountInv` gives `DuplicatesBoundedByFaults`. The bound alone
is not inductive, because a decision is counted when it is submitted and becomes
a row later, twice if a round is repeated. `DecisionsAccountedFor` keeps an
account per document: rows written, a row the queue still owes (`Owed`) and
decisions under way together never exceed the decisions submitted and the
faults. A commit of the loop turns an owed row into a written one, for which
`BatchVerdictsAreQueued` says that the verdict in the batch is still in the
queue; a crash forgets what was confirmed and so owes a row again, and is a
fault.

`ScreeningPipelineProofs`, for any identities and lists, from
`ListsNameIdentities` and `NoneIsNoValue`: `PipelineInv` is invariant, hence
every safety property of the `pipeline` run. Its core is `PlaceInv`: a run is
idle, in the forensics, at the gate, in the tail or ended, and each place says
which nodes are pending and which have not run. It is needed because the
properties speak of the moment a node starts or a run ends. While the
branches run in parallel, `ResultsOwed` and `ArrivalsOwed` say that whatever
is missing is owed by a node that is still pending: so when the gate opens
nothing is missing, and a run cannot stall before the routing, which
would store the status it started with, "standard_clearance". `RunInv` adds
that pending nodes have not run, hence none runs twice; `RecordInv` ties the
state of Stage 2 to the record it started from.

`ScreeningConsoleProofs`, for any documents, any countdown and any number of
calls in flight, from `NoneIsNoDocument` and `BoundsArePositive`: `ConsoleInv`
is invariant, hence `TypeOK`, and with it each step satisfies
`AutoApprovalWasMatched` and `AnsweredStartsNothing`. Type correctness does not
give either, because approvals come from timers set earlier.
`TimersAreOfTheMatched` says that the interval belongs to the document on the
screen and that each document a timeout is due for has matched, which is never
forgotten: so it does not matter what happens before the timeout fires.
`ShownIsUndecided` says that a document which can still be decided has no
answered decision: an answer leaves the screen, which clears the interval, and
a document is not shown again. `RoomForApprovals` bounds the approvals due and
in flight together, for `TypeOK`. `OneTravellerInv` is a second invariant, which
holds until a timeout goes off late: at most one decision is in flight, on the
document whose screens are shown; an upload is in flight on its screen only; and
a timeout that is due for an undecided document finds it on its screen. It gives
`ConfirmationIsOfOneTraveller`, which speaks of the confirmation only, while what
makes it true is that a reset never leaves a call behind.

`RiskAssessmentProofs` has three parts. For any cluster: the composite is in
range, comparing neighbours in time finds every trip (by induction on the
sightings in between, as the least of a set of distances), and the dossier's
flags are among those of an analysis with one more document. For any request to
the risk engine: the composites are in range, the escalation by one band makes up
for the tenth that the history's term takes from the other weights, whichever way
the scores are rounded, and an all-clear means that nothing was flagged. And for
any documents, clusters, measurements and similarities, from `InputsAreTyped`,
`SimilaritiesAreCosines`, `MaxScansAssumption`, `RuleNamesAreFinite`,
`IntegrityRulesAreRules` and `NoneIsNoAnswer`: `IInv` is invariant, hence every
property of the `assessment` run. It has two parts. `FaceInv` says which model
can have embedded which photo at which phase, so that a verdict and its score
are of one threshold, and one comparison uses one model unless a thread's load
ends in it (`OneModelUnlessLoading`, proved only). `RunInv` ties the run together: clusters are bounded
sequences, nothing is known before the node that finds it out (`InOrder`), a
severe prior is in the analysis or the analysis is reported missing
(`OffenceIsKept`), and the assessment was made of the run's results
(`AssessmentOfRun`). With it, the lemmas about the operators give the
properties of the state.

`ValidationProofs`, for rule files of any length, any countries and documents,
from `FilesAssumption` (a file is a sequence of rules, or is not parsable),
`DocumentsAssumption` (a document has its three parts, and a text that a pattern
matches as it stands also matches when case and blanks are ignored, which is
what `re.IGNORECASE` and `strip` do) and `BadPatternIsNone`: `ValidationInv` is
invariant, hence every property of the `validation` run. None of the properties
is inductive: they compare a finished response with rules, and rules are read
in two steps with edits of the files around them. `ValidationInv` says that the
results of each phase are those of the rules that were read
(`Computed`, then `AddRegional`), not of the files as they are now. What
remains is about the operators. A rule has at most one result and it has its
name (`ResultsAreOfTheRule`); what flattening puts one after the other is
counted by `FlattenedElements` and `FlattenedLength`; `ExecutedRules` says that
only a name that has a result keeps a rule of the country from being executed.
For `MissingFieldNeverHelps`, `FieldMapWithout` says that hiding a field under
all its names commutes with the copying of aliases, step by step through
`_build_field_map`: this is where a forgotten alias would show. Then a rule of
the type that failed still fails, or fails now (`BaseResultWithout`), and the
rules of the country that are executed stay executed (`ExecutedWithout`).

`ExtractionProofs`, for any scans with any number of lines, any batches, models
and answers of the vision API. Three parts lead to the invariant.

- *Check digits.* By induction on the length of a field, the sums of two
  fields that differ in one character stay apart by that character's difference
  (`SumsStayApart`), so the check digit shows it unless the difference is a multiple
  of ten (`CheckDigitShowsMisreading`). For a number of one or two letters and
  digits, each candidate of the repair that comes before the printed number is
  therefore refused by the digit, and the printed number is reached
  (`NumberIsRepaired`): in `_try_correct_with_checksum` the order of the
  candidates is right, but only for such numbers.
- *Dates.* `DateStepKeepsApart` is the invariant of the loop over the lines: the
  dates found so far are of different lines, and the next line's date is used only
  if that line is then skipped. `FirstAndLast` does the same for what sorting by
  year leaves over: with two dates or more, the first and the last differ.
- *The breaker.* Every handler asks through the breaker or not at all
  (`BreakerHolds`).

`ExtractionInv` joins them: `BreakerInv` and `CallsInv` bound the pause and the
calls in progress, and `AnswersInv` says that what a handler returns is an error,
a response with `OneSource`, or a complete batch. `TypeOK` is not
inductive, because a batch's answer counts what its items left behind
(`IsResults`), nor is `FieldsHaveOneSource`, because the pipelines' fallback
merges the vision API's fields into an answer that exists already.
The assumptions are the shape of the inputs: `ModelsAssumption`,
`BoundsAssumption`, `BatchesAssumption`, `ScansAssumption` (lines and dates are
in an order, years have at most four digits, as the patterns of
`field_extractor.py` demand), `NoneAssumption` (None is no digit),
`PassportAssumption` (the passport of `ExtractPassport` has the two long lines of
a zone), `ReadingAssumption` (a zone with a misread number is still one) and
`NumbersAssumption` (the numbers the repair is meant for). TLC evaluates each of
them in the run.

`RecursionLemmas` is what makes this possible. The code's loops are recursive
functions on numbers, or flattened sequences of one result each.
The library's theorems on such definitions take an operator as a parameter, which
the provers cannot instantiate; their counterparts here take a function or a set
(`RecursionOnNat`, `InductionOnSet`, `FlattenUnfolds`). `Over` is there
because the prover has no definition of `@@`.

Only model-checked: `QueueDrains`, `RunsEnd`, `MatchLeadsToDecision` and
`OfficerRegainsControl`, which are liveness under fairness and out of the
prover's reach; and the violation runs. Every safety property of a passing run is
also proved.

## 5. Findings

Four disagreements between the code and what the repository says of it, each
shown by a violation run: see `findings` in `PROJECT.json`. `store_decision`
and `store_purge` contradict the readme's promise of no data loss;
`pipeline_watchlist` its routing of a watchlist hit; `assessment_mismatch` the
rule of `reasons.py:17` that every flagged check has a reason: `reasons.py`
looks at the similarity and never at `matched`.

Smaller ones that the models show without a run of their own:

- `append_event` answers a losing call with the number of the event that won.
- The LLM fallback rewrites the identity while the blacklist check of the same
  superstep reads it.
- The countdown approves a match whatever the risk score says. Its timeout is
  not cancelled: it also approves a document whose rejection was answered while
  it was due, so one document can have two recorded decisions
  (`docs/api-contracts.md:185` speaks of the officer's final verdict). The
  second answer then opens a confirmation of whatever is on the screen: without
  `~overtaken`, `ConfirmationIsOfOneTraveller` is violated, by a decision on one
  document confirmed under the name and id of the next.
- `handleVerifyLiveFace` stores its answer whatever is on the screen: a capture
  made while a rejection is on its way can leave its risk band to the
  confirmation of the next document, if that one is rejected before Stage 2
  (`readme.md:249` promises the traveller's final risk band).
- An ArcFace match between 0.35 and 0.40 is described to the officer as "Face
  match FAILED".
- `scoring.py:72-79` says that a degraded validation is neutral (0.5); the code
  returns 0.0.

## 6. Not modelled, and what could follow

- Authentication (token checks without state the properties depend on), storage,
  analytics, migrations and scripts (I/O, reports, generated schema code).
- Recognition itself: OCR, embeddings, pixel measurements are inputs.
- The lists, the watchlist CRUD and the background image upload of the
  document endpoints; errors of SQLite; the window in which `db/session.py` has
  an engine and no session factory, as far as a sync round spends retries in it.
- HTTP attempts before the in-process fallback of a client.
- Two Stage 2 runs of one document at once, as graphs: `ScreeningStore` has
  their effect on the record.

What would add most next: a composition of `ScreeningStore` and `AuditLedger`
(which decisions answered as recorded have a ledger entry), the session window
as a module of its own, and an abstract specification of a screening (cleared
only if no stage demanded inspection) that `ScreeningPipeline` implements.
