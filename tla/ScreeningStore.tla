--------------------------- MODULE ScreeningStore ---------------------------
(***************************************************************************)
(* Where a screening lives: Supabase (scan_events, officer_decisions), the *)
(* SQLite offline queue and the in-memory cache; the request handlers that *)
(* write them (orchestrator/routers/documents.py with core/scan_store.py)  *)
(* and the background loop that moves queued screenings to Supabase        *)
(* (core/offline_sync.py).                                                 *)
(*                                                                         *)
(* The handlers and the loop are coroutines of one event loop: between two *)
(* awaits nothing else runs, at an await anything may.  A request fixes    *)
(* its database session when it starts and keeps it to the end.            *)
(*                                                                         *)
(* Of a screening's data the model keeps what its writers overwrite in     *)
(* each other: whether the Stage 2 result is in, inspection_status, and    *)
(* the officer's verdict.  The child tables are written in the transaction *)
(* of their scan_events row and are part of it.                            *)
(***************************************************************************)
EXTENDS Integers, FiniteSets, Sequences

CONSTANTS
  Docs,         \* document ids: a fresh uuid4 per upload
  Requests,     \* how many requests can be in flight at once
  Verdicts,     \* the officer's decisions in use: approve, reject, flag
  None,         \* SQL NULL, a missing row, no cached record
  MaxRetry,     \* MAX_RETRY_COUNT
  BatchLimit,   \* get_pending_screenings(limit)
  MaxDecisions, \* bound: decisions submitted per document
  MaxFaults     \* bound: crashes, lost commit acknowledgements, bad records

ASSUME VerdictsAreDecisions == Verdicts \subseteq {"approve", "reject", "flag"}
ASSUME RequestsAreFinite == IsFiniteSet(Requests)
ASSUME BoundsAreNumbers ==
  /\ MaxRetry \in Nat \ {0}
  /\ BatchLimit \in Nat \ {0}
  /\ MaxDecisions \in Nat
  /\ MaxFaults \in Nat

VARIABLES
  online,     \* Supabase can be reached
  engine,     \* the engine and session factory of db/session.py exist
  scans,      \* scan_events, by document
  decisions,  \* officer_decisions, by document, in insertion order
  sqlite,     \* pending_screenings, by document
  nextId,     \* its AUTOINCREMENT counter
  cache,      \* _RECENT_SCAN_RECORDS
  evicted,    \* records it has dropped that Stage 2 requests still hold
  req,        \* the requests in flight
  sync,       \* the background loop
  acked,      \* documents whose upload was answered with success
  submitted,  \* how many decisions were submitted, by document
  recorded,   \* the verdicts answered with recorded=True, by document
  faults      \* how many faults have happened

stores == <<scans, decisions, sqlite, nextId, cache, evicted>>
clients == <<acked, submitted, recorded>>
vars == <<online, engine, stores, req, sync, clients, faults>>

-----------------------------------------------------------------------------
Pending == "pending_biometric"
Stage2Status == {"standard_clearance", "secondary_inspection"}

(***************************************************************************)
(* decision_to_status                                                      *)
(***************************************************************************)
StatusOf(v) ==
  CASE v = "approve" -> "approved"
    [] v = "reject"  -> "rejected"
    [] v = "flag"    -> "secondary_inspection"

Status == {Pending, "approved", "rejected"} \cup Stage2Status

Scan    == [stage2 : BOOLEAN, status : Status]
Payload == [stage2 : BOOLEAN, status : Status, verdict : Verdicts \cup {None}]
Row     == [id : Nat, payload : Payload, retry : 0 .. MaxRetry]

ASSUME NoneIsNoValue == None \notin Verdicts /\ None \notin Scan /\ None \notin Row

Fresh == [stage2 |-> FALSE, status |-> Pending]

ScanOf(payload) == [stage2 |-> payload.stage2, status |-> payload.status]

(***************************************************************************)
(* update_offline_screening_stage2 and record_offline_decision merge their *)
(* result into the JSON payload of the queued row.                         *)
(***************************************************************************)
WithStage2(payload, s) == [stage2 |-> TRUE, status |-> s, verdict |-> payload.verdict]
WithVerdict(payload, v) ==
  [stage2 |-> payload.stage2, status |-> StatusOf(v), verdict |-> v]

Idle == [op |-> "idle"]
Request ==
  {Idle} \cup
  [op : {"upload", "stage2", "stage2Commit"}, doc : Docs, db : BOOLEAN] \cup
  [op : {"decision", "decisionAnswer"}, doc : Docs, db : BOOLEAN, verdict : Verdicts]

InFlight(d) == {r \in Requests : req[r] # Idle /\ req[r].doc = d}

(***************************************************************************)
(* get_db_optional: a request has a session (db = TRUE) once the engine    *)
(* exists, without any connection being made; it has none when the engine  *)
(* cannot be initialised, or while another caller is initialising it.      *)
(***************************************************************************)
GetDbOptional(db) ==
  \/ engine /\ db /\ UNCHANGED engine
  \/ ~engine /\ online /\ db /\ engine' = TRUE
  \/ ~engine /\ ~db /\ UNCHANGED engine

(***************************************************************************)
(* get_scan: the cache, then Supabase, then SQLite; what is found in a     *)
(* store is put into the cache.                                            *)
(***************************************************************************)
Found(d, db) ==
  IF cache[d] # None THEN cache[d]
  ELSE IF db /\ online /\ scans[d] # None THEN scans[d]
  ELSE IF sqlite[d] # None THEN ScanOf(sqlite[d].payload)
  ELSE None

GetScan(d, db) ==
  /\ Found(d, db) # None
  /\ cache' = [cache EXCEPT ![d] = Found(d, db)]

(***************************************************************************)
(* A Stage 2 request holds the record it has looked up: the cached object, *)
(* or one that the cache has dropped since.  A write to it is seen by all  *)
(* who hold it.                                                            *)
(***************************************************************************)
EvictedRecord == [doc : Docs, scan : Scan, holders : SUBSET Requests]

HeldBy(r) == {e \in evicted : r \in e.holders}

Record(r) ==
  IF HeldBy(r) = {} THEN cache[req[r].doc] ELSE (CHOOSE e \in HeldBy(r) : TRUE).scan

HoldersOfCached(d) ==
  {r \in Requests :
     req[r].op \in {"stage2", "stage2Commit"} /\ req[r].doc = d /\ HeldBy(r) = {}}

Dropped(d) ==
  IF cache[d] = None \/ HoldersOfCached(d) = {} THEN {}
  ELSE {[doc |-> d, scan |-> cache[d], holders |-> HoldersOfCached(d)]}

(***************************************************************************)
(* set_cached_scan of a record that r holds, which has become scan: a      *)
(* record of the document that was cached meanwhile is dropped.            *)
(***************************************************************************)
SetCachedScan(r, scan) ==
  /\ cache' = [cache EXCEPT ![req[r].doc] = scan]
  /\ evicted' = IF HeldBy(r) = {} THEN evicted
                ELSE (evicted \ HeldBy(r)) \cup Dropped(req[r].doc)

Start(r, request) ==
  /\ req[r] = Idle
  /\ req' = [req EXCEPT ![r] = request]

Becomes(r, op) == req' = [req EXCEPT ![r].op = op]
Finish(r)      == req' = [req EXCEPT ![r] = Idle]

-----------------------------------------------------------------------------
Init ==
  /\ online \in BOOLEAN
  /\ engine = FALSE
  /\ scans = [d \in Docs |-> None]
  /\ decisions = [d \in Docs |-> << >>]
  /\ sqlite = [d \in Docs |-> None]
  /\ nextId = 1
  /\ cache = [d \in Docs |-> None]
  /\ evicted = {}
  /\ req = [r \in Requests |-> Idle]
  /\ sync = [running |-> FALSE, batch |-> << >>, synced |-> {}]
  /\ acked = {}
  /\ submitted = [d \in Docs |-> 0]
  /\ recorded = [d \in Docs |-> {}]
  /\ faults = 0

(***************************************************************************)
(* POST /documents/upload: Stage 1 runs in the handler before save_scan.   *)
(***************************************************************************)
BeginUpload(r, d) ==
  /\ d \notin acked /\ scans[d] = None /\ InFlight(d) = {}
  /\ \E db \in BOOLEAN :
       /\ GetDbOptional(db)
       /\ Start(r, [op |-> "upload", doc |-> d, db |-> db])
  /\ UNCHANGED <<online, stores, sync, clients, faults>>

(***************************************************************************)
(* save_scan without a session, or when the lookup of the row fails.       *)
(***************************************************************************)
SaveOffline(r) ==
  /\ req[r].op = "upload"
  /\ ~(req[r].db /\ online)
  /\ LET d == req[r].doc IN
       /\ sqlite' = [sqlite EXCEPT ![d] =
                       [id |-> nextId, retry |-> 0,
                        payload |-> [stage2 |-> FALSE, status |-> Pending, verdict |-> None]]]
       /\ cache' = [cache EXCEPT ![d] = Fresh]
       /\ acked' = acked \cup {d}
  /\ nextId' = nextId + 1
  /\ Finish(r)
  /\ UNCHANGED <<online, engine, scans, decisions, evicted, sync, submitted, recorded, faults>>

SaveOnline(r) ==
  /\ req[r].op = "upload"
  /\ req[r].db /\ online
  /\ LET d == req[r].doc IN
       /\ scans' = [scans EXCEPT ![d] = Fresh]
       /\ cache' = [cache EXCEPT ![d] = Fresh]
       /\ acked' = acked \cup {d}
  /\ Finish(r)
  /\ UNCHANGED <<online, engine, decisions, sqlite, nextId, evicted, sync, submitted, recorded,
                 faults>>

(***************************************************************************)
(* Mutant: a failed commit falls back to the queue, as a failed lookup     *)
(* does.                                                                   *)
(***************************************************************************)
CommitFailureQueues(r) ==
  /\ req[r].op = "upload"
  /\ req[r].db /\ online
  /\ LET d == req[r].doc IN
       /\ \E written \in BOOLEAN :
            scans' = IF written THEN [scans EXCEPT ![d] = Fresh] ELSE scans
       /\ sqlite' = [sqlite EXCEPT ![d] =
                       [id |-> nextId, retry |-> 0,
                        payload |-> [stage2 |-> FALSE, status |-> Pending, verdict |-> None]]]
       /\ cache' = [cache EXCEPT ![d] = Fresh]
       /\ acked' = acked \cup {d}
  /\ nextId' = nextId + 1
  /\ Finish(r)
  /\ UNCHANGED <<online, engine, decisions, evicted, sync, submitted, recorded, faults>>

(***************************************************************************)
(* The commit of save_scan raises: the request fails with a 500 and the    *)
(* document id never reaches the console.  The row may have been written.  *)
(***************************************************************************)
SaveFails(r) ==
  /\ req[r].op = "upload"
  /\ req[r].db /\ online
  /\ \E written \in BOOLEAN :
       scans' = IF written THEN [scans EXCEPT ![req[r].doc] = Fresh] ELSE scans
  /\ Finish(r)
  /\ UNCHANGED <<online, engine, decisions, sqlite, nextId, cache, evicted, sync, clients, faults>>

(***************************************************************************)
(* GET endpoints: they only fill the cache.                                *)
(***************************************************************************)
ReadScan(d) ==
  /\ d \in acked
  /\ cache[d] = None
  /\ \E db \in BOOLEAN : GetDbOptional(db) /\ GetScan(d, db)
  /\ UNCHANGED <<online, scans, decisions, sqlite, nextId, evicted, req, sync, clients, faults>>

(***************************************************************************)
(* POST verify-live-face: looks the scan up, then runs Stage 2.            *)
(***************************************************************************)
BeginStage2(r, d) ==
  /\ d \in acked
  /\ \E db \in BOOLEAN :
       /\ GetDbOptional(db)
       /\ GetScan(d, db)
       /\ Start(r, [op |-> "stage2", doc |-> d, db |-> db])
  /\ UNCHANGED <<online, scans, decisions, sqlite, nextId, evicted, sync, clients, faults>>

(***************************************************************************)
(* Stage 2 is done: the handler writes its result into the record it       *)
(* holds.  With a session it then awaits the database; without one it      *)
(* merges the result into the SQLite row at once, an UPDATE that does      *)
(* nothing if the row is gone, and puts the record into the cache.         *)
(***************************************************************************)
Stage2Done(r) ==
  /\ req[r].op = "stage2"
  /\ \E s \in Stage2Status :
       LET d    == req[r].doc
           scan == [stage2 |-> TRUE, status |-> s]
       IN  IF req[r].db
           THEN /\ cache' = IF HeldBy(r) = {} THEN [cache EXCEPT ![d] = scan] ELSE cache
                /\ evicted' = (evicted \ HeldBy(r)) \cup
                                {[e EXCEPT !.scan = scan] : e \in HeldBy(r)}
                /\ Becomes(r, "stage2Commit")
                /\ UNCHANGED sqlite
           ELSE /\ sqlite' = IF sqlite[d] = None THEN sqlite
                             ELSE [sqlite EXCEPT ![d].payload = WithStage2(@, s)]
                /\ SetCachedScan(r, scan)
                /\ Finish(r)
  /\ UNCHANGED <<online, engine, scans, decisions, nextId, sync, clients, faults>>

(***************************************************************************)
(* The commit copies the record as it is by then.  It fails when Supabase  *)
(* is unreachable, or has no scan_events row for the child rows to refer   *)
(* to; the failure is logged and the request succeeds all the same.  The   *)
(* record is put into the cache (again).                                   *)
(***************************************************************************)
Stage2Commit(r) ==
  /\ req[r].op = "stage2Commit"
  /\ LET d == req[r].doc IN
       scans' = IF online /\ scans[d] # None
                THEN [scans EXCEPT ![d] = Record(r)]
                ELSE scans
  /\ SetCachedScan(r, Record(r))
  /\ Finish(r)
  /\ UNCHANGED <<online, engine, decisions, sqlite, nextId, sync, clients, faults>>

(***************************************************************************)
(* POST decision.                                                          *)
(***************************************************************************)
BeginDecision(r, d, v) ==
  /\ d \in acked
  /\ submitted[d] < MaxDecisions
  /\ \E db \in BOOLEAN :
       /\ GetDbOptional(db)
       /\ GetScan(d, db)
       /\ Start(r, [op |-> "decision", doc |-> d, db |-> db, verdict |-> v])
  /\ submitted' = [submitted EXCEPT ![d] = @ + 1]
  /\ UNCHANGED <<online, scans, decisions, sqlite, nextId, evicted, sync, acked, recorded, faults>>

(***************************************************************************)
(* The cached record takes the verdict's status and the answer is          *)
(* recorded=True.  (append_event comes between the two; it touches neither *)
(* these stores nor the answer's recorded flag: see AuditLedger.)          *)
(***************************************************************************)
AnswerDecision(r) ==
  LET d == req[r].doc
      v == req[r].verdict
  IN  /\ cache' = IF cache[d] = None THEN cache
                  ELSE [cache EXCEPT ![d].status = StatusOf(v)]
      /\ recorded' = [recorded EXCEPT ![d] = @ \cup {v}]
      /\ Finish(r)

(***************************************************************************)
(* Mutant: officer_decisions has no foreign key to scan_events.            *)
(***************************************************************************)
DecisionWithoutScan(r) ==
  /\ req[r].op = "decision"
  /\ req[r].db
  /\ LET d == req[r].doc
         v == req[r].verdict
     IN  IF online
         THEN /\ decisions' = [decisions EXCEPT ![d] = Append(@, v)]
              /\ scans' = IF scans[d] = None THEN scans
                          ELSE [scans EXCEPT ![d].status = StatusOf(v)]
         ELSE UNCHANGED <<decisions, scans>>
  /\ Becomes(r, "decisionAnswer")
  /\ UNCHANGED <<online, engine, sqlite, nextId, cache, evicted, sync, clients, faults>>

(***************************************************************************)
(* With a session: the officer_decisions row and the new status are one    *)
(* transaction, which fails when Supabase is unreachable or has no         *)
(* scan_events row; a failure is logged and otherwise ignored.             *)
(***************************************************************************)
DecisionCommit(r) ==
  /\ req[r].op = "decision"
  /\ req[r].db
  /\ LET d == req[r].doc
         v == req[r].verdict
     IN  IF online /\ scans[d] # None
         THEN /\ decisions' = [decisions EXCEPT ![d] = Append(@, v)]
              /\ scans' = [scans EXCEPT ![d].status = StatusOf(v)]
         ELSE UNCHANGED <<decisions, scans>>
  /\ Becomes(r, "decisionAnswer")
  /\ UNCHANGED <<online, engine, sqlite, nextId, cache, evicted, sync, clients, faults>>

DecisionAnswer(r) ==
  /\ req[r].op = "decisionAnswer"
  /\ AnswerDecision(r)
  /\ UNCHANGED <<online, engine, scans, decisions, sqlite, nextId, evicted, sync, acked, submitted,
                 faults>>

(***************************************************************************)
(* Without a session: record_offline_decision, an UPDATE that does nothing *)
(* if the row is gone, and the answer, without an await between them.      *)
(***************************************************************************)
DecisionOffline(r) ==
  /\ req[r].op = "decision"
  /\ ~req[r].db
  /\ LET d == req[r].doc
         v == req[r].verdict
     IN  sqlite' = IF sqlite[d] = None THEN sqlite
                   ELSE [sqlite EXCEPT ![d].payload = WithVerdict(@, v)]
  /\ AnswerDecision(r)
  /\ UNCHANGED <<online, engine, scans, decisions, nextId, evicted, sync, acked, submitted, faults>>

-----------------------------------------------------------------------------
(***************************************************************************)
(* Mutant: rows are selected without regard to retry_count.                *)
(***************************************************************************)
QueuedForEver == {d \in Docs : sqlite[d] # None}

(***************************************************************************)
(* Mutant: a row is given up one retry before it counts as exhausted.      *)
(***************************************************************************)
QueuedOneTooFew == {d \in Docs : sqlite[d] # None /\ sqlite[d].retry < MaxRetry - 1}

(***************************************************************************)
(* get_pending_screenings: the oldest rows that have retries left.         *)
(***************************************************************************)
Queued == {d \in Docs : sqlite[d] # None /\ sqlite[d].retry < MaxRetry}

Batch ==
  {d \in Queued :
     Cardinality({e \in Queued : sqlite[e].id < sqlite[d].id}) < BatchLimit}

(***************************************************************************)
(* The loop wakes up with something queued and the probe succeeding.  The  *)
(* payloads it will write are the ones it reads now.                       *)
(***************************************************************************)
SyncStart ==
  /\ ~sync.running
  /\ Queued # {}
  /\ online
  /\ engine' = TRUE
  /\ sync' = [running |-> TRUE, batch |-> [d \in Batch |-> sqlite[d]], synced |-> {}]
  /\ UNCHANGED <<online, stores, req, clients, faults>>

Todo == DOMAIN sync.batch

(***************************************************************************)
(* The item in turn: the lowest id of those not yet tried.                 *)
(***************************************************************************)
InTurn(d) == d \in Todo /\ \A e \in Todo : sync.batch[d].id <= sync.batch[e].id

Tried(d) == [e \in Todo \ {d} |-> sync.batch[e]]

(***************************************************************************)
(* One item's transaction: insert the scan_events row, or overwrite the    *)
(* snapshot and status of the one there is, and insert the verdict.        *)
(***************************************************************************)
Upsert(d) ==
  LET payload == sync.batch[d].payload IN
  /\ scans' = [scans EXCEPT ![d] = ScanOf(payload)]
  /\ decisions' = IF payload.verdict = None THEN decisions
                  ELSE [decisions EXCEPT ![d] = Append(@, payload.verdict)]

(***************************************************************************)
(* Mutant: the id of a committed item is not added to synced_ids.          *)
(***************************************************************************)
SyncCommitUnnoted(d) ==
  /\ sync.running
  /\ InTurn(d)
  /\ online
  /\ Upsert(d)
  /\ sync' = [sync EXCEPT !.batch = Tried(d)]
  /\ UNCHANGED <<online, engine, sqlite, nextId, cache, evicted, req, clients, faults>>

SyncCommit(d) ==
  /\ sync.running
  /\ InTurn(d)
  /\ online
  /\ Upsert(d)
  /\ sync' = [sync EXCEPT !.batch = Tried(d), !.synced = @ \cup {sync.batch[d].id}]
  /\ UNCHANGED <<online, engine, sqlite, nextId, cache, evicted, req, clients, faults>>

(***************************************************************************)
(* increment_retry, by id.                                                 *)
(***************************************************************************)
IncrementRetry(d) ==
  /\ sqlite' = [e \in Docs |->
                  IF sqlite[e] # None /\ sqlite[e].id = sync.batch[d].id
                  THEN [sqlite[e] EXCEPT !.retry = @ + 1] ELSE sqlite[e]]
  /\ sync' = [sync EXCEPT !.batch = Tried(d)]

(***************************************************************************)
(* Mutant: a failed item is marked synced like the others.                 *)
(***************************************************************************)
SyncFailMarked(d) ==
  /\ sync.running
  /\ InTurn(d)
  /\ ~online
  /\ sync' = [sync EXCEPT !.batch = Tried(d), !.synced = @ \cup {sync.batch[d].id}]
  /\ UNCHANGED <<online, engine, stores, req, clients, faults>>

(***************************************************************************)
(* The item fails because Supabase is unreachable.                         *)
(***************************************************************************)
SyncFail(d) ==
  /\ sync.running
  /\ InTurn(d)
  /\ ~online
  /\ IncrementRetry(d)
  /\ UNCHANGED <<online, engine, scans, decisions, nextId, cache, evicted, req, clients, faults>>

(***************************************************************************)
(* The item fails while Supabase is up: the record cannot be written, or   *)
(* it is written and the acknowledgement of the commit is lost.            *)
(***************************************************************************)
SyncFault(d) ==
  /\ sync.running
  /\ InTurn(d)
  /\ online
  /\ faults < MaxFaults
  /\ Upsert(d) \/ UNCHANGED <<scans, decisions>>
  /\ IncrementRetry(d)
  /\ faults' = faults + 1
  /\ UNCHANGED <<online, engine, nextId, cache, evicted, req, clients>>

(***************************************************************************)
(* mark_synced, once every item was tried: DELETE by id.                   *)
(***************************************************************************)
SyncPurge ==
  /\ sync.running
  /\ Todo = {}
  /\ sqlite' = [d \in Docs |->
                  IF sqlite[d] # None /\ sqlite[d].id \in sync.synced THEN None ELSE sqlite[d]]
  /\ sync' = [sync EXCEPT !.running = FALSE, !.synced = {}]
  /\ UNCHANGED <<online, engine, scans, decisions, nextId, cache, evicted, req, clients, faults>>

-----------------------------------------------------------------------------
(***************************************************************************)
(* The environment: connectivity comes and goes, the server process dies   *)
(* and starts again.                                                       *)
(***************************************************************************)
Connectivity ==
  /\ online' = ~online
  /\ UNCHANGED <<engine, stores, req, sync, clients, faults>>

Crash ==
  /\ faults < MaxFaults
  /\ faults' = faults + 1
  /\ engine' = FALSE
  /\ cache' = [d \in Docs |-> None]
  /\ evicted' = {}
  /\ req' = [r \in Requests |-> Idle]
  /\ sync' = [running |-> FALSE, batch |-> << >>, synced |-> {}]
  /\ UNCHANGED <<online, scans, decisions, sqlite, nextId, clients>>

(***************************************************************************)
(* set_cached_scan of another document drops the oldest record by          *)
(* insertion, whether or not a request holds it.                           *)
(***************************************************************************)
Evict(d) ==
  /\ cache[d] # None
  /\ cache' = [cache EXCEPT ![d] = None]
  /\ evicted' = evicted \cup Dropped(d)
  /\ UNCHANGED <<online, engine, scans, decisions, sqlite, nextId, req, sync, clients, faults>>

SyncItem == \E d \in Docs : SyncCommit(d) \/ SyncFail(d) \/ SyncFault(d)

Next ==
  \/ \E r \in Requests :
       \/ \E d \in Docs : BeginUpload(r, d)
       \/ SaveOffline(r)
       \/ SaveOnline(r)
       \/ SaveFails(r)
       \/ \E d \in Docs : BeginStage2(r, d)
       \/ Stage2Done(r)
       \/ Stage2Commit(r)
       \/ \E d \in Docs, v \in Verdicts : BeginDecision(r, d, v)
       \/ DecisionCommit(r)
       \/ DecisionAnswer(r)
       \/ DecisionOffline(r)
  \/ SyncStart
  \/ SyncItem
  \/ SyncPurge
  \/ Connectivity
  \/ Crash
  \/ \E d \in Docs : ReadScan(d) \/ Evict(d)

Spec == Init /\ [][Next]_vars

(***************************************************************************)
(* The loop's task never ends and sleeps a bounded time between rounds, so *)
(* a step of it that stays possible is taken.  Nothing is assumed of the   *)
(* officers' requests, of connectivity or of the faults.                   *)
(***************************************************************************)
FairSpec ==
  /\ Spec
  /\ WF_vars(SyncStart)
  /\ WF_vars(SyncItem)
  /\ WF_vars(SyncPurge)

-----------------------------------------------------------------------------
TypeOK ==
  /\ online \in BOOLEAN
  /\ engine \in BOOLEAN
  /\ scans \in [Docs -> Scan \cup {None}]
  /\ decisions \in [Docs -> Seq(Verdicts)]
  /\ sqlite \in [Docs -> Row \cup {None}]
  /\ nextId \in Nat
  /\ cache \in [Docs -> Scan \cup {None}]
  /\ evicted \subseteq EvictedRecord
  /\ req \in [Requests -> Request]
  /\ sync = [running |-> sync.running, batch |-> sync.batch, synced |-> sync.synced]
  /\ sync.running \in BOOLEAN
  /\ Todo \subseteq Docs
  /\ sync.batch \in [Todo -> Row]
  /\ sync.synced \subseteq Nat
  /\ acked \subseteq Docs
  /\ submitted \in [Docs -> Nat]
  /\ recorded \in [Docs -> SUBSET Verdicts]
  /\ faults \in Nat

(***************************************************************************)
(* No screening whose upload succeeded is ever lost: whatever the network, *)
(* the sync loop, the cache and crashes do, it is in Supabase or still in  *)
(* the queue.                                                              *)
(***************************************************************************)
AckedScanDurable ==
  \A d \in acked : scans[d] # None \/ sqlite[d] # None

(***************************************************************************)
(* As long as no fault has happened, a screening is in one place: a queued *)
(* row that Supabase already has was confirmed by the loop and is about to *)
(* be purged.  So a fault is the only way the loop comes to overwrite what *)
(* a handler wrote to Supabase since.                                      *)
(***************************************************************************)
QueuedTwiceOnlyAfterFault ==
  faults = 0 =>
    \A d \in Docs : sqlite[d] # None /\ scans[d] # None => sqlite[d].id \in sync.synced

(***************************************************************************)
(* Every officer_decisions row belongs to a scan_events row: a decision on *)
(* a queued screening does not reach Supabase before the screening.        *)
(***************************************************************************)
DecisionsReferToScans ==
  \A d \in Docs : decisions[d] # << >> => scans[d] # None

(***************************************************************************)
(* A decision gets at most one officer_decisions row, plus one for each    *)
(* fault: without crashes and lost acknowledgements the at-least-once sync *)
(* never duplicates a decision, and one fault duplicates at most one.      *)
(***************************************************************************)
DuplicatesBoundedByFaults ==
  \A d \in Docs : Len(decisions[d]) <= submitted[d] + faults

(***************************************************************************)
(* When connectivity returns for good, every queued screening reaches      *)
(* Supabase or has used up its retries, and then it leaves the queue.      *)
(***************************************************************************)
Exhausted(d) == sqlite[d] # None /\ sqlite[d].retry >= MaxRetry

QueueDrains ==
  (<>[]online) => \A d \in Docs : [](sqlite[d] # None => <>(sqlite[d] = None \/ Exhausted(d)))

-----------------------------------------------------------------------------
(***************************************************************************)
(* The inductive invariants.  AUTOINCREMENT never gives an id out twice,   *)
(* so the ids of the queue, of the batch and of the confirmed items name   *)
(* their rows although the queue changes while a batch is being written.   *)
(***************************************************************************)
IdsNameRows ==
  /\ \A d \in Docs : sqlite[d] # None => sqlite[d].id < nextId
  /\ \A d, e \in Docs :
       sqlite[d] # None /\ sqlite[e] # None /\ sqlite[d].id = sqlite[e].id => d = e
  /\ \A i \in sync.synced : i < nextId

BatchNamesRows ==
  \A d \in Todo :
    /\ sync.batch[d].id < nextId
    /\ sync.batch[d].retry < MaxRetry
    /\ \A e \in Docs : sqlite[e] # None /\ sqlite[e].id = sync.batch[d].id =>
         e = d /\ sqlite[e].retry = sync.batch[d].retry

ConfirmedAreStored ==
  \A d \in Docs : sqlite[d] # None /\ sqlite[d].id \in sync.synced => scans[d] # None

(***************************************************************************)
(* A Stage 2 request has a record until it is done.                        *)
(***************************************************************************)
Stage2HasARecord ==
  /\ \A r \in Requests :
       req[r].op \in {"stage2", "stage2Commit"} =>
         HeldBy(r) # {} \/ cache[req[r].doc] # None
  /\ \A e \in evicted : \A r \in e.holders :
       req[r].op \in {"stage2", "stage2Commit"} /\ req[r].doc = e.doc

StoreInv ==
  /\ TypeOK
  /\ Stage2HasARecord
  /\ IdsNameRows
  /\ BatchNamesRows
  /\ ConfirmedAreStored
  /\ AckedScanDurable

(***************************************************************************)
(* A document under upload is nowhere yet, and it is under one upload;     *)
(* what is queued was acknowledged; what a batch holds is still queued and *)
(* not yet confirmed.                                                      *)
(***************************************************************************)
UploadsAreFresh ==
  \A r \in Requests : req[r].op = "upload" =>
    /\ req[r].doc \notin acked
    /\ scans[req[r].doc] = None
    /\ InFlight(req[r].doc) = {r}

QueuedAreAcked ==
  /\ \A d \in Docs : sqlite[d] # None => d \in acked
  /\ \A r \in Requests : req[r] # Idle => req[r].op = "upload" \/ req[r].doc \in acked

BatchIsQueued ==
  /\ \A d \in Todo : sqlite[d] # None /\ sqlite[d].id = sync.batch[d].id
  /\ \A d \in Todo : sync.batch[d].id \notin sync.synced
  /\ ~sync.running => Todo = {} /\ sync.synced = {}

PlaceInv ==
  /\ StoreInv
  /\ UploadsAreFresh
  /\ QueuedAreAcked
  /\ BatchIsQueued
  /\ QueuedTwiceOnlyAfterFault

(***************************************************************************)
(* The officer_decisions rows that a document can still get without a      *)
(* fault: one if its queued row holds a verdict that no commit has         *)
(* confirmed, and one for each decision under way.                         *)
(***************************************************************************)
Owed(d) ==
  IF sqlite[d] # None /\ sqlite[d].payload.verdict # None /\ sqlite[d].id \notin sync.synced
  THEN 1 ELSE 0

DecisionsUnderWay(d) == {r \in Requests : req[r].op = "decision" /\ req[r].doc = d}

BatchVerdictsAreQueued ==
  \A d \in Todo : sync.batch[d].payload.verdict # None => sqlite[d].payload.verdict # None

DecisionsAccountedFor ==
  \A d \in Docs :
    Len(decisions[d]) + Owed(d) + Cardinality(DecisionsUnderWay(d)) <= submitted[d] + faults

CountInv ==
  /\ PlaceInv
  /\ BatchVerdictsAreQueued
  /\ DecisionsAccountedFor

(***************************************************************************)
(* "zero data loss" (readme.md): a decision answered with recorded=True is *)
(* in Supabase, or queued for it.                                          *)
(***************************************************************************)
RecordedDecisionKept ==
  \A d \in Docs : \A v \in recorded[d] :
    \/ \E i \in DOMAIN decisions[d] : decisions[d][i] = v
    \/ sqlite[d] # None /\ sqlite[d].payload.verdict = v

(***************************************************************************)
(* "hard-deleted after a confirmed Supabase write" (readme.md): what is    *)
(* deleted from SQLite is, at that moment, in Supabase.                    *)
(***************************************************************************)
PurgeLosesNothing ==
  [][\A d \in Docs : sqlite[d] # None /\ sqlite'[d] = None =>
       /\ sqlite[d].payload.stage2 => scans'[d].stage2
       /\ sqlite[d].payload.verdict # None =>
            \E i \in DOMAIN decisions'[d] : decisions'[d][i] = sqlite[d].payload.verdict]_vars
=============================================================================
