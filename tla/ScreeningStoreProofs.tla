------------------------ MODULE ScreeningStoreProofs ------------------------
(***************************************************************************)
(* Proofs about ScreeningStore, for any sets of documents and requests,    *)
(* any retry and batch limits, and any number of faults.                   *)
(***************************************************************************)
EXTENDS ScreeningStore, FiniteSetTheorems, SequenceTheorems, TLAPS

(***************************************************************************)
(* What the handlers rely on about a request in flight.                    *)
(***************************************************************************)
LEMMA RequestFields ==
  ASSUME NEW q \in Request
  PROVE  /\ q # Idle <=> q.op # "idle"
         /\ q.op # "idle" => q.doc \in Docs /\ q.db \in BOOLEAN
         /\ q.op \in {"decision", "decisionAnswer"} => q.verdict \in Verdicts
         /\ q.op \in {"upload", "stage2", "stage2Commit"} =>
              [q EXCEPT !.op = "stage2Commit"]
                = [op |-> "stage2Commit", doc |-> q.doc, db |-> q.db]
         /\ q.op \in {"decision", "decisionAnswer"} =>
              [q EXCEPT !.op = "decisionAnswer"]
                = [op |-> "decisionAnswer", doc |-> q.doc, db |-> q.db, verdict |-> q.verdict]
<1>1. CASE q = Idle
  BY <1>1 DEF Idle
<1>2. CASE q \in [op : {"upload", "stage2", "stage2Commit"}, doc : Docs, db : BOOLEAN]
  BY <1>2 DEF Idle
<1>3. CASE q \in [op : {"decision", "decisionAnswer"}, doc : Docs, db : BOOLEAN,
                  verdict : Verdicts]
  BY <1>3 DEF Idle
<1>4. QED
  BY <1>1, <1>2, <1>3 DEF Request

(***************************************************************************)
(* A request that goes on keeps its document.                              *)
(***************************************************************************)
LEMMA BecomesFields ==
  ASSUME TypeOK, NEW r \in Requests, NEW op, Becomes(r, op), req[r].op # "idle"
  PROVE  /\ req'[r].doc = req[r].doc
         /\ req'[r].op = op
         /\ \A q \in Requests \ {r} : req'[q] = req[q]
<1>1. req'[r] = [req[r] EXCEPT !.op = op] /\ \A q \in Requests \ {r} : req'[q] = req[q]
  BY DEF Becomes, TypeOK
<1>2. \A q : q \in [op : {"upload", "stage2", "stage2Commit"}, doc : Docs, db : BOOLEAN] =>
            [q EXCEPT !.op = op].doc = q.doc /\ [q EXCEPT !.op = op].op = op
  OBVIOUS
<1>3. \A q : q \in [op : {"decision", "decisionAnswer"}, doc : Docs, db : BOOLEAN,
                    verdict : Verdicts] =>
            [q EXCEPT !.op = op].doc = q.doc /\ [q EXCEPT !.op = op].op = op
  OBVIOUS
<1>4. \/ req[r] \in [op : {"upload", "stage2", "stage2Commit"}, doc : Docs, db : BOOLEAN]
      \/ req[r] \in [op : {"decision", "decisionAnswer"}, doc : Docs, db : BOOLEAN,
                     verdict : Verdicts]
  BY DEF TypeOK, Request, Idle
<1>5. QED
  BY <1>1, <1>2, <1>3, <1>4

(***************************************************************************)
(* The values the handlers write have the types of the stores.             *)
(***************************************************************************)
LEMMA ValuesTyped ==
  /\ Fresh \in Scan
  /\ \A s \in Stage2Status : [stage2 |-> TRUE, status |-> s] \in Scan
  /\ \A v \in Verdicts : StatusOf(v) \in Status
  /\ \A p \in Payload : ScanOf(p) \in Scan
  /\ [stage2 |-> FALSE, status |-> Pending, verdict |-> None] \in Payload
  /\ 0 \in 0 .. MaxRetry
BY VerdictsAreDecisions, BoundsAreNumbers
   DEF Fresh, Scan, Stage2Status, Status, StatusOf, Pending, Payload, ScanOf

(***************************************************************************)
(* What get_scan finds is a scan.                                          *)
(***************************************************************************)
LEMMA GetScanTyped ==
  ASSUME TypeOK, NEW d \in Docs, NEW db, GetScan(d, db)
  PROVE  cache' \in [Docs -> Scan \cup {None}]
<1>1. Found(d, db) \in Scan \cup {None}
  BY ValuesTyped, NoneIsNoValue DEF TypeOK, Found, Row
<1>2. QED
  BY <1>1 DEF TypeOK, GetScan

(***************************************************************************)
(* How the writers of a queued row change it.                              *)
(***************************************************************************)
LEMMA RowUpdates ==
  ASSUME NEW row \in Row
  PROVE  /\ \A s \in Stage2Status :
              [row EXCEPT !.payload = WithStage2(row.payload, s)]
                = [id |-> row.id, payload |-> WithStage2(row.payload, s), retry |-> row.retry]
         /\ \A s \in Stage2Status : WithStage2(row.payload, s) \in Payload
         /\ \A v \in Verdicts :
              [row EXCEPT !.payload = WithVerdict(row.payload, v)]
                = [id |-> row.id, payload |-> WithVerdict(row.payload, v), retry |-> row.retry]
         /\ \A v \in Verdicts : WithVerdict(row.payload, v) \in Payload
         /\ [row EXCEPT !.retry = row.retry + 1]
              = [id |-> row.id, payload |-> row.payload, retry |-> row.retry + 1]
         /\ row.retry < MaxRetry => row.retry + 1 \in 0 .. MaxRetry
<1>1. row.payload \in Payload /\ row.retry \in 0 .. MaxRetry
  BY DEF Row
<1>2. \A s \in Stage2Status : WithStage2(row.payload, s) \in Payload
  BY <1>1 DEF WithStage2, Payload, Stage2Status, Status
<1>3. \A v \in Verdicts : WithVerdict(row.payload, v) \in Payload
  BY <1>1, ValuesTyped DEF WithVerdict, Payload
<1>4. row.retry < MaxRetry => row.retry + 1 \in 0 .. MaxRetry
  BY <1>1, BoundsAreNumbers
<1>5. \A p : [row EXCEPT !.payload = p] = [id |-> row.id, payload |-> p, retry |-> row.retry]
  BY DEF Row
<1>6. [row EXCEPT !.retry = row.retry + 1]
        = [id |-> row.id, payload |-> row.payload, retry |-> row.retry + 1]
  BY DEF Row
<1>7. QED
  BY <1>2, <1>3, <1>4, <1>5, <1>6

(***************************************************************************)
(* A request that starts leaves the requests well-typed.                   *)
(***************************************************************************)
LEMMA StartTyped ==
  ASSUME TypeOK, NEW r \in Requests, NEW request \in Request, Start(r, request)
  PROVE  req' \in [Requests -> Request]
BY DEF Start, TypeOK

(***************************************************************************)
(* What the cache drops, and the record a Stage 2 request holds.           *)
(***************************************************************************)
LEMMA DroppedTyped ==
  ASSUME TypeOK, NEW d \in Docs
  PROVE  Dropped(d) \subseteq EvictedRecord
BY DEF TypeOK, Dropped, HoldersOfCached, EvictedRecord

LEMMA RecordTyped ==
  ASSUME TypeOK, Stage2HasARecord, NEW r \in Requests, req[r].op \in {"stage2", "stage2Commit"}
  PROVE  Record(r) \in Scan
<1>1. CASE HeldBy(r) = {}
  <2>1. req[r].doc \in Docs /\ cache[req[r].doc] # None
    BY <1>1, RequestFields DEF TypeOK, Stage2HasARecord
  <2>2. QED
    BY <1>1, <2>1 DEF Record, TypeOK
<1>2. CASE HeldBy(r) # {}
  <2> DEFINE e == CHOOSE e \in HeldBy(r) : TRUE
  <2>1. e \in HeldBy(r)
    BY <1>2
  <2>2. e \in EvictedRecord
    BY <2>1 DEF HeldBy, TypeOK
  <2>3. Record(r) = e.scan
    BY <1>2 DEF Record
  <2>4. QED
    BY <2>2, <2>3 DEF EvictedRecord
<1>3. QED
  BY <1>1, <1>2

LEMMA SetCachedScanTyped ==
  ASSUME TypeOK, NEW r \in Requests, req[r].doc \in Docs, NEW scan \in Scan, SetCachedScan(r, scan)
  PROVE  cache' \in [Docs -> Scan \cup {None}] /\ evicted' \subseteq EvictedRecord
<1>1. cache' \in [Docs -> Scan \cup {None}]
  BY DEF SetCachedScan, TypeOK
<1>2. evicted' \subseteq EvictedRecord
  BY DroppedTyped DEF SetCachedScan, TypeOK
<1>3. QED
  BY <1>1, <1>2

-----------------------------------------------------------------------------
(***************************************************************************)
(* Every step preserves the types.                                         *)
(***************************************************************************)
LEMMA NextTypeOK ==
  ASSUME TypeOK, Stage2HasARecord, BatchNamesRows, [Next]_vars
  PROVE  TypeOK'
<1> USE DEF vars, stores, clients, Todo
<1>1. ASSUME NEW r \in Requests, NEW d \in Docs, BeginUpload(r, d) PROVE TypeOK'
  <2>1. PICK db \in BOOLEAN :
          GetDbOptional(db) /\ Start(r, [op |-> "upload", doc |-> d, db |-> db])
    BY <1>1 DEF BeginUpload
  <2>2. [op |-> "upload", doc |-> d, db |-> db] \in Request
    BY DEF Request
  <2>3. req' \in [Requests -> Request] /\ engine' \in BOOLEAN
    BY <2>1, <2>2, StartTyped DEF GetDbOptional, TypeOK
  <2>4. QED
    BY <1>1, <2>3 DEF BeginUpload, TypeOK
<1>2. ASSUME NEW r \in Requests, SaveOffline(r) PROVE TypeOK'
  <2>1. req[r].op # "idle" /\ req[r].doc \in Docs
    BY <1>2, RequestFields DEF SaveOffline, TypeOK
  <2>2. sqlite' \in [Docs -> Row \cup {None}]
    BY <1>2, <2>1, ValuesTyped DEF SaveOffline, TypeOK, Row
  <2>3. QED
    <3>1. cache' \in [Docs -> Scan \cup {None}] /\ acked' \subseteq Docs /\ nextId' \in Nat
      BY <1>2, <2>1, ValuesTyped DEF SaveOffline, TypeOK
    <3>2. req' \in [Requests -> Request]
      BY <1>2 DEF SaveOffline, Finish, TypeOK, Request
    <3>3. QED
      BY <1>2, <2>2, <3>1, <3>2 DEF SaveOffline, TypeOK
<1>3. ASSUME NEW r \in Requests, SaveOnline(r) \/ SaveFails(r) PROVE TypeOK'
  <2>1. req[r].op # "idle" /\ req[r].doc \in Docs
    BY <1>3, RequestFields DEF SaveOnline, SaveFails, TypeOK
  <2>2. req' \in [Requests -> Request]
    BY <1>3 DEF SaveOnline, SaveFails, Finish, TypeOK, Request
  <2>3. scans' \in [Docs -> Scan \cup {None}] /\ cache' \in [Docs -> Scan \cup {None}]
    BY <1>3, <2>1, ValuesTyped DEF SaveOnline, SaveFails, TypeOK
  <2>4. QED
    BY <1>3, <2>1, <2>2, <2>3 DEF SaveOnline, SaveFails, TypeOK
<1>4. ASSUME NEW d \in Docs, ReadScan(d) PROVE TypeOK'
  <2>1. cache' \in [Docs -> Scan \cup {None}]
    BY <1>4, GetScanTyped DEF ReadScan
  <2>2. QED
    BY <1>4, <2>1 DEF ReadScan, GetDbOptional, TypeOK
<1>5. ASSUME NEW r \in Requests, NEW d \in Docs, BeginStage2(r, d) PROVE TypeOK'
  <2>1. cache' \in [Docs -> Scan \cup {None}]
    BY <1>5, GetScanTyped DEF BeginStage2
  <2>2. PICK db \in BOOLEAN : GetDbOptional(db) /\ Start(r, [op |-> "stage2", doc |-> d, db |-> db])
    BY <1>5 DEF BeginStage2
  <2>3. [op |-> "stage2", doc |-> d, db |-> db] \in Request
    BY DEF Request
  <2>4. req' \in [Requests -> Request] /\ engine' \in BOOLEAN
    BY <2>2, <2>3, StartTyped DEF GetDbOptional, TypeOK
  <2>5. QED
    BY <1>5, <2>1, <2>4 DEF BeginStage2, TypeOK
<1>6. ASSUME NEW r \in Requests, Stage2Done(r) PROVE TypeOK'
  <2>1. req[r].op # "idle" /\ req[r].doc \in Docs /\ req[r].db \in BOOLEAN
    BY <1>6, RequestFields DEF Stage2Done, TypeOK
  <2>2. req' \in [Requests -> Request]
    <3>1. /\ [op |-> "stage2Commit", doc |-> req[r].doc, db |-> req[r].db] \in Request
          /\ Idle \in Request
      BY <2>1 DEF Request
    <3>2. [req[r] EXCEPT !.op = "stage2Commit"] \in Request
      BY <1>6, <3>1, RequestFields DEF Stage2Done, TypeOK
    <3>3. QED
      BY <1>6, <3>1, <3>2 DEF Stage2Done, Becomes, Finish, TypeOK
  <2> DEFINE Written(scan) ==
               /\ cache' = IF HeldBy(r) = {} THEN [cache EXCEPT ![req[r].doc] = scan] ELSE cache
               /\ evicted' = (evicted \ HeldBy(r)) \cup {[e EXCEPT !.scan = scan] : e \in HeldBy(r)}
             Merged(s) ==
               /\ sqlite[req[r].doc] # None
               /\ sqlite' = [sqlite EXCEPT ![req[r].doc].payload = WithStage2(@, s)]
  <2>3. PICK s \in Stage2Status :
          /\ \/ Written([stage2 |-> TRUE, status |-> s])
             \/ SetCachedScan(r, [stage2 |-> TRUE, status |-> s])
          /\ UNCHANGED sqlite \/ Merged(s)
    BY <1>6 DEF Stage2Done
  <2> DEFINE scan == [stage2 |-> TRUE, status |-> s]
  <2>4. scan \in Scan
    BY ValuesTyped
  <2> HIDE DEF scan
  <2>5. cache' \in [Docs -> Scan \cup {None}] /\ evicted' \subseteq EvictedRecord
    <3>1. CASE SetCachedScan(r, scan)
      BY <2>1, <2>4, <3>1, SetCachedScanTyped
    <3>2. CASE Written(scan)
      <4>1. \A e \in HeldBy(r) : [e EXCEPT !.scan = scan] \in EvictedRecord
        BY <2>4 DEF HeldBy, TypeOK, EvictedRecord
      <4>2. QED
        BY <2>1, <2>4, <3>2, <4>1 DEF TypeOK
    <3>3. QED
      BY <2>3, <3>1, <3>2 DEF scan
  <2>6. sqlite' \in [Docs -> Row \cup {None}]
    <3>1. CASE UNCHANGED sqlite
      BY <3>1 DEF TypeOK
    <3>2. CASE Merged(s)
      <4> DEFINE row == sqlite[req[r].doc]
      <4>1. row \in Row
        BY <2>1, <3>2 DEF TypeOK
      <4>2. sqlite' = [sqlite EXCEPT ![req[r].doc] =
                         [row EXCEPT !.payload = WithStage2(row.payload, s)]]
        BY <3>2
      <4>3. [row EXCEPT !.payload = WithStage2(row.payload, s)] \in Row
        BY <4>1, RowUpdates DEF Row
      <4>4. QED
        BY <2>1, <4>2, <4>3 DEF TypeOK
    <3>3. QED
      BY <2>3, <3>1, <3>2
  <2>7. QED
    BY <1>6, <2>2, <2>5, <2>6 DEF Stage2Done, TypeOK
<1>7. ASSUME NEW r \in Requests, Stage2Commit(r) PROVE TypeOK'
  <2>1. req[r].op # "idle" /\ req[r].doc \in Docs
    BY <1>7, RequestFields DEF Stage2Commit, TypeOK
  <2>2. Record(r) \in Scan
    BY <1>7, RecordTyped DEF Stage2Commit
  <2>3. cache' \in [Docs -> Scan \cup {None}] /\ evicted' \subseteq EvictedRecord
    BY <1>7, <2>1, <2>2, SetCachedScanTyped DEF Stage2Commit
  <2>4. req' \in [Requests -> Request] /\ scans' \in [Docs -> Scan \cup {None}]
    BY <1>7, <2>1, <2>2 DEF Stage2Commit, Finish, TypeOK, Request
  <2>5. QED
    BY <1>7, <2>3, <2>4 DEF Stage2Commit, TypeOK
<1>8. ASSUME NEW r \in Requests, NEW d \in Docs, NEW v \in Verdicts, BeginDecision(r, d, v)
      PROVE  TypeOK'
  <2>1. cache' \in [Docs -> Scan \cup {None}]
    BY <1>8, GetScanTyped DEF BeginDecision
  <2>2. PICK db \in BOOLEAN : GetDbOptional(db) /\ Start(r, [op |-> "decision", doc |-> d, db |-> db, verdict |-> v])
    BY <1>8 DEF BeginDecision
  <2>3. [op |-> "decision", doc |-> d, db |-> db, verdict |-> v] \in Request
    BY DEF Request
  <2>4. req' \in [Requests -> Request] /\ engine' \in BOOLEAN
    BY <2>2, <2>3, StartTyped DEF GetDbOptional, TypeOK
  <2>5. submitted' \in [Docs -> Nat]
    BY <1>8 DEF BeginDecision, TypeOK
  <2>6. UNCHANGED <<online, scans, decisions, sqlite, nextId, evicted, sync, acked, recorded, faults>>
    BY <1>8 DEF BeginDecision
  <2>7. QED
    BY <2>1, <2>4, <2>5, <2>6 DEF TypeOK
<1>9. ASSUME NEW r \in Requests, DecisionCommit(r) PROVE TypeOK'
  <2>1. req[r].op # "idle" /\ req[r].doc \in Docs /\ req[r].verdict \in Verdicts
    BY <1>9, RequestFields DEF DecisionCommit, TypeOK
  <2>2. req' \in [Requests -> Request]
    <3>1. [req[r] EXCEPT !.op = "decisionAnswer"] \in Request
      <4>1. req[r].db \in BOOLEAN
        BY <2>1, RequestFields DEF TypeOK
      <4>2. [op |-> "decisionAnswer", doc |-> req[r].doc, db |-> req[r].db,
             verdict |-> req[r].verdict] \in Request
        BY <2>1, <4>1 DEF Request
      <4>3. QED
        BY <1>9, <4>2, RequestFields DEF DecisionCommit, TypeOK
    <3>2. QED
      BY <1>9, <3>1 DEF DecisionCommit, Becomes, TypeOK
  <2>3. scans' \in [Docs -> Scan \cup {None}] /\ decisions' \in [Docs -> Seq(Verdicts)]
    <3>1. CASE online /\ scans[req[r].doc] # None
      <4>1. StatusOf(req[r].verdict) \in Status
        BY <2>1, ValuesTyped
      <4>2. [scans[req[r].doc] EXCEPT !.status = StatusOf(req[r].verdict)] \in Scan
        BY <2>1, <3>1, <4>1 DEF TypeOK, Scan
      <4>3. scans' \in [Docs -> Scan \cup {None}]
        BY <1>9, <2>1, <3>1, <4>2 DEF DecisionCommit, TypeOK
      <4>4. Append(decisions[req[r].doc], req[r].verdict) \in Seq(Verdicts)
        BY <2>1 DEF TypeOK
      <4>5. decisions' \in [Docs -> Seq(Verdicts)]
        BY <1>9, <2>1, <3>1, <4>4 DEF DecisionCommit, TypeOK
      <4>6. QED
        BY <4>3, <4>5
    <3>2. CASE ~(online /\ scans[req[r].doc] # None)
      BY <1>9, <3>2 DEF DecisionCommit, TypeOK
    <3>3. QED
      BY <3>1, <3>2
  <2>4. QED
    BY <1>9, <2>2, <2>3 DEF DecisionCommit, TypeOK
<1>10. ASSUME NEW r \in Requests, AnswerDecision(r), req[r].op \in {"decision", "decisionAnswer"}
       PROVE  /\ cache' \in [Docs -> Scan \cup {None}]
              /\ recorded' \in [Docs -> SUBSET Verdicts]
              /\ req' \in [Requests -> Request]
  <2>1. req[r].op # "idle" /\ req[r].doc \in Docs /\ req[r].verdict \in Verdicts
    BY <1>10, RequestFields DEF TypeOK
  <2>2. QED
    BY <1>10, <2>1, ValuesTyped DEF AnswerDecision, Finish, TypeOK, Scan, Request
<1>11. ASSUME NEW r \in Requests, DecisionAnswer(r) PROVE TypeOK'
  BY <1>10, <1>11 DEF DecisionAnswer, TypeOK
<1>12. ASSUME NEW r \in Requests, DecisionOffline(r) PROVE TypeOK'
  <2>1. req[r].op # "idle" /\ req[r].doc \in Docs /\ req[r].verdict \in Verdicts
    BY <1>12, RequestFields DEF DecisionOffline, TypeOK
  <2>2. sqlite' \in [Docs -> Row \cup {None}]
    <3>1. CASE sqlite[req[r].doc] = None
      BY <1>12, <3>1 DEF DecisionOffline, TypeOK
    <3>2. CASE sqlite[req[r].doc] # None
      <4> DEFINE row == sqlite[req[r].doc]
      <4>1. row \in Row
        BY <2>1, <3>2 DEF TypeOK
      <4>2. sqlite' = [sqlite EXCEPT ![req[r].doc] =
                         [row EXCEPT !.payload = WithVerdict(row.payload, req[r].verdict)]]
        BY <1>12, <3>2 DEF DecisionOffline
      <4>3. [row EXCEPT !.payload = WithVerdict(row.payload, req[r].verdict)] \in Row
        BY <2>1, <4>1, RowUpdates DEF Row
      <4>4. QED
        BY <2>1, <4>2, <4>3 DEF TypeOK
    <3>3. QED
      BY <3>1, <3>2
  <2>3. QED
    BY <1>10, <1>12, <2>2 DEF DecisionOffline, TypeOK
<1>13. CASE SyncStart
  <2>1. Batch \subseteq Docs /\ [d \in Batch |-> sqlite[d]] \in [Batch -> Row]
    BY DEF Batch, Queued, TypeOK
  <2>2. QED
    BY <1>13, <2>1 DEF SyncStart, TypeOK
<1>14. ASSUME NEW d \in Docs, InTurn(d)
       PROVE  /\ d \in Todo /\ sync.batch[d] \in Row
              /\ Tried(d) \in [Todo \ {d} -> Row] /\ DOMAIN Tried(d) = Todo \ {d}
  BY <1>14 DEF InTurn, Tried, TypeOK
<1>15. ASSUME NEW d \in Docs, InTurn(d), Upsert(d)
       PROVE  scans' \in [Docs -> Scan \cup {None}] /\ decisions' \in [Docs -> Seq(Verdicts)]
  <2>1. sync.batch[d].payload \in Payload
    BY <1>14, <1>15 DEF Row
  <2>2. QED
    BY <1>15, <2>1, ValuesTyped DEF Upsert, TypeOK, Payload
<1>16. ASSUME NEW d \in Docs, SyncCommit(d) PROVE TypeOK'
  <2>1. sync.batch[d].id \in Nat
    BY <1>14, <1>16 DEF SyncCommit, Row
  <2>2. QED
    BY <1>14, <1>15, <1>16, <2>1 DEF SyncCommit, TypeOK
<1>17. ASSUME NEW d \in Docs, InTurn(d), IncrementRetry(d)
       PROVE  /\ sqlite' \in [Docs -> Row \cup {None}]
              /\ sync' = [sync EXCEPT !.batch = Tried(d)]
  <2>1. \A e \in Docs : sqlite[e] # None /\ sqlite[e].id = sync.batch[d].id =>
                           sqlite[e].retry < MaxRetry
    BY <1>14, <1>17 DEF BatchNamesRows
  <2>2. \A e \in Docs : sqlite[e] # None /\ sqlite[e].id = sync.batch[d].id =>
                           [sqlite[e] EXCEPT !.retry = sqlite[e].retry + 1] \in Row
    <3> SUFFICES ASSUME NEW e \in Docs, sqlite[e] # None, sqlite[e].id = sync.batch[d].id
                 PROVE  [sqlite[e] EXCEPT !.retry = sqlite[e].retry + 1] \in Row
      OBVIOUS
    <3>1. sqlite[e] \in Row /\ sqlite[e].retry < MaxRetry
      BY <2>1 DEF TypeOK
    <3>2. sqlite[e].id \in Nat /\ sqlite[e].payload \in Payload
      BY <3>1 DEF Row
    <3>3. [id |-> sqlite[e].id, payload |-> sqlite[e].payload, retry |-> sqlite[e].retry + 1]
            \in Row
      BY <3>1, <3>2, RowUpdates DEF Row
    <3>4. QED
      BY <3>1, <3>3, RowUpdates
  <2>3. QED
    BY <1>17, <2>2 DEF IncrementRetry, TypeOK
<1>18. ASSUME NEW d \in Docs, SyncFail(d) PROVE TypeOK'
  BY <1>14, <1>17, <1>18 DEF SyncFail, TypeOK
<1>19. ASSUME NEW d \in Docs, SyncFault(d) PROVE TypeOK'
  <2>1. InTurn(d) /\ IncrementRetry(d)
    BY <1>19 DEF SyncFault
  <2>2. /\ sqlite' \in [Docs -> Row \cup {None}]
        /\ sync' = [sync EXCEPT !.batch = Tried(d)]
    BY <2>1, <1>17
  <2>3. scans' \in [Docs -> Scan \cup {None}] /\ decisions' \in [Docs -> Seq(Verdicts)]
    BY <1>15, <1>19, <2>1 DEF SyncFault, TypeOK
  <2>4. faults' \in Nat /\ UNCHANGED <<online, engine, nextId, cache, evicted, req, clients>>
    BY <1>19 DEF SyncFault, TypeOK
  <2>5. QED
    BY <2>1, <2>2, <2>3, <2>4, <1>14 DEF TypeOK
<1>20. CASE SyncPurge
  BY <1>20 DEF SyncPurge, TypeOK
<1>21. CASE Connectivity \/ UNCHANGED vars
  BY <1>21 DEF Connectivity, TypeOK
<1>22. CASE Crash
  <2>1. req' \in [Requests -> Request]
    BY <1>22 DEF Crash, Request
  <2>2. /\ sync' = [running |-> FALSE, batch |-> << >>, synced |-> {}]
        /\ << >> \in [{} -> Row] /\ DOMAIN << >> = {}
    BY <1>22 DEF Crash
  <2>3. /\ sync' = [running |-> sync'.running, batch |-> sync'.batch, synced |-> sync'.synced]
        /\ sync'.running \in BOOLEAN
        /\ DOMAIN sync'.batch = {} /\ sync'.batch \in [{} -> Row]
        /\ sync'.synced = {}
    BY <2>2
  <2>4. /\ cache' = [d \in Docs |-> None] /\ evicted' = {}
        /\ engine' = FALSE
        /\ faults' = faults + 1
        /\ UNCHANGED <<online, scans, decisions, sqlite, nextId, clients>>
    BY <1>22 DEF Crash
  <2>5. Todo' = {} /\ Todo' \subseteq Docs /\ sync'.batch \in [Todo' -> Row]
        /\ sync'.synced \subseteq Nat
    BY <2>3
  <2>6. cache' \in [Docs -> Scan \cup {None}] /\ evicted' \subseteq EvictedRecord /\ engine' \in BOOLEAN
    BY <2>4
  <2>7. faults' \in Nat
    BY <2>4 DEF TypeOK
  <2>8. /\ online' \in BOOLEAN /\ scans' \in [Docs -> Scan \cup {None}]
        /\ decisions' \in [Docs -> Seq(Verdicts)] /\ sqlite' \in [Docs -> Row \cup {None}]
        /\ nextId' \in Nat /\ acked' \subseteq Docs /\ submitted' \in [Docs -> Nat]
        /\ recorded' \in [Docs -> SUBSET Verdicts]
    BY <2>4 DEF TypeOK
  <2> HIDE DEF Todo
  <2>9. QED
    BY <2>1, <2>3, <2>5, <2>6, <2>7, <2>8 DEF TypeOK
<1>23. ASSUME NEW d \in Docs, Evict(d) PROVE TypeOK'
  BY <1>23, DroppedTyped DEF Evict, TypeOK
<1>24. QED
  BY <1>1, <1>2, <1>3, <1>4, <1>5, <1>6, <1>7, <1>8, <1>9, <1>11, <1>12, <1>13, <1>16, <1>18,
     <1>19, <1>20, <1>21, <1>22, <1>23 DEF Next, SyncItem

-----------------------------------------------------------------------------
(***************************************************************************)
(* The steps of the handlers other than save_scan, and of the environment, *)
(* leave the queue's rows in place under their ids, and lose no scan.      *)
(***************************************************************************)
QueueStands ==
  /\ \A d \in Docs : scans[d] # None => scans'[d] # None
  /\ \A d \in Docs : sqlite'[d] # None <=> sqlite[d] # None
  /\ \A d \in Docs : sqlite[d] # None =>
       sqlite'[d].id = sqlite[d].id /\ sqlite'[d].retry = sqlite[d].retry
  /\ UNCHANGED <<nextId, sync, acked>>

HandlerStep(r) ==
  \/ \E d \in Docs : BeginUpload(r, d) \/ BeginStage2(r, d)
  \/ \E d \in Docs, v \in Verdicts : BeginDecision(r, d, v)
  \/ SaveFails(r)
  \/ Stage2Done(r) \/ Stage2Commit(r)
  \/ DecisionCommit(r) \/ DecisionAnswer(r) \/ DecisionOffline(r)

QuietStep ==
  \/ \E r \in Requests : HandlerStep(r)
  \/ \E d \in Docs : ReadScan(d) \/ Evict(d)
  \/ Connectivity
  \/ UNCHANGED vars

LEMMA QuietStepsStand ==
  ASSUME TypeOK, Stage2HasARecord, QuietStep
  PROVE  QueueStands
<1> USE DEF stores, clients
<1>1. ASSUME UNCHANGED <<scans, sqlite, nextId, sync, acked>> PROVE QueueStands
  BY <1>1 DEF QueueStands
<1>2. ASSUME NEW r \in Requests, NEW d \in Docs, BeginUpload(r, d) \/ BeginStage2(r, d)
      PROVE  QueueStands
  BY <1>1, <1>2 DEF BeginUpload, BeginStage2
<1>3. ASSUME NEW r \in Requests, NEW d \in Docs, NEW v \in Verdicts, BeginDecision(r, d, v)
      PROVE  QueueStands
  BY <1>1, <1>3 DEF BeginDecision
<1>4. ASSUME NEW r \in Requests, req[r].op # "idle"
      PROVE  req[r].doc \in Docs
  BY <1>4, RequestFields DEF TypeOK
<1>5. ASSUME NEW r \in Requests, SaveFails(r) PROVE QueueStands
  <2>1. req[r].doc \in Docs
    BY <1>4, <1>5 DEF SaveFails
  <2>2. \A d \in Docs : scans[d] # None => scans'[d] # None
    BY <1>5, <2>1, ValuesTyped, NoneIsNoValue DEF SaveFails, TypeOK
  <2>3. QED
    BY <1>5, <2>2 DEF SaveFails, QueueStands
<1>6. ASSUME NEW r \in Requests, Stage2Done(r) PROVE QueueStands
  <2>1. req[r].doc \in Docs
    BY <1>4, <1>6 DEF Stage2Done
  <2>2. \/ UNCHANGED sqlite
        \/ \E s \in Stage2Status :
             /\ sqlite[req[r].doc] # None
             /\ sqlite' = [sqlite EXCEPT ![req[r].doc].payload = WithStage2(@, s)]
    BY <1>6 DEF Stage2Done
  <2>3. CASE UNCHANGED sqlite
    BY <1>6, <2>3 DEF Stage2Done, QueueStands
  <2>4. ASSUME NEW s \in Stage2Status, sqlite[req[r].doc] # None,
               sqlite' = [sqlite EXCEPT ![req[r].doc].payload = WithStage2(@, s)]
        PROVE  QueueStands
    <3> DEFINE d == req[r].doc
               row == [id |-> sqlite[d].id, payload |-> WithStage2(sqlite[d].payload, s),
                       retry |-> sqlite[d].retry]
    <3>1. sqlite[d] \in Row
      BY <2>1, <2>4 DEF TypeOK
    <3>2. row \in Row
      BY <3>1, RowUpdates DEF Row
    <3>3. sqlite'[d] = row /\ \A e \in Docs \ {d} : sqlite'[e] = sqlite[e]
      BY <2>1, <2>4, <3>1, RowUpdates DEF TypeOK
    <3>4. row # None /\ row.id = sqlite[d].id /\ row.retry = sqlite[d].retry
      BY <3>2, NoneIsNoValue
    <3>5. QED
      BY <1>6, <2>1, <2>4, <3>3, <3>4 DEF Stage2Done, QueueStands
  <2>5. QED
    BY <2>2, <2>3, <2>4
<1>7. ASSUME NEW r \in Requests, Stage2Commit(r) PROVE QueueStands
  <2>1. req[r].doc \in Docs
    BY <1>4, <1>7 DEF Stage2Commit
  <2>2. Record(r) # None
    BY <1>7, RecordTyped, NoneIsNoValue DEF Stage2Commit
  <2>3. QED
    BY <1>7, <2>1, <2>2 DEF Stage2Commit, TypeOK, QueueStands
<1>8. ASSUME NEW r \in Requests, DecisionCommit(r) PROVE QueueStands
  <2>1. req[r].doc \in Docs /\ req[r].verdict \in Verdicts
    BY <1>8, RequestFields DEF DecisionCommit, TypeOK
  <2>2. QED
    <3>1. \A d \in Docs : scans[d] # None => scans'[d] # None
      <4>1. CASE online /\ scans[req[r].doc] # None
        <5>1. scans[req[r].doc] \in Scan /\ StatusOf(req[r].verdict) \in Status
          BY <2>1, <4>1, ValuesTyped DEF TypeOK
        <5>2. [scans[req[r].doc] EXCEPT !.status = StatusOf(req[r].verdict)] \in Scan
          BY <5>1 DEF Scan
        <5>3. scans' = [scans EXCEPT ![req[r].doc] =
                          [scans[req[r].doc] EXCEPT !.status = StatusOf(req[r].verdict)]]
          BY <1>8, <4>1 DEF DecisionCommit
        <5>4. QED
          BY <2>1, <5>2, <5>3, NoneIsNoValue DEF TypeOK
      <4>2. CASE ~(online /\ scans[req[r].doc] # None)
        BY <1>8, <4>2 DEF DecisionCommit
      <4>3. QED
        BY <4>1, <4>2
    <3>2. QED
      BY <1>8, <3>1 DEF DecisionCommit, QueueStands
<1>9. ASSUME NEW r \in Requests, DecisionAnswer(r) PROVE QueueStands
  BY <1>1, <1>9 DEF DecisionAnswer
<1>10. ASSUME NEW r \in Requests, DecisionOffline(r) PROVE QueueStands
  <2>1. req[r].doc \in Docs /\ req[r].verdict \in Verdicts
    BY <1>10, RequestFields DEF DecisionOffline, TypeOK
  <2>2. CASE sqlite[req[r].doc] = None
    BY <1>1, <1>10, <2>2 DEF DecisionOffline
  <2>3. CASE sqlite[req[r].doc] # None
    <3> DEFINE d == req[r].doc
               row == [id |-> sqlite[d].id,
                       payload |-> WithVerdict(sqlite[d].payload, req[r].verdict),
                       retry |-> sqlite[d].retry]
    <3>1. sqlite[d] \in Row
      BY <2>1, <2>3 DEF TypeOK
    <3>2. row \in Row
      BY <2>1, <3>1, RowUpdates DEF Row
    <3>3. sqlite' = [sqlite EXCEPT ![d].payload = WithVerdict(@, req[r].verdict)]
      BY <1>10, <2>3 DEF DecisionOffline
    <3>4. sqlite'[d] = row /\ \A e \in Docs \ {d} : sqlite'[e] = sqlite[e]
      BY <2>1, <3>1, <3>3, RowUpdates DEF TypeOK
    <3>5. row # None /\ row.id = sqlite[d].id /\ row.retry = sqlite[d].retry
      BY <3>2, NoneIsNoValue
    <3>6. QED
      BY <1>10, <2>1, <2>3, <3>4, <3>5 DEF DecisionOffline, QueueStands
  <2>4. QED
    BY <2>2, <2>3
<1>11. ASSUME NEW d \in Docs, ReadScan(d) \/ Evict(d) PROVE QueueStands
  BY <1>1, <1>11 DEF ReadScan, Evict
<1>12. CASE Connectivity \/ UNCHANGED vars
  BY <1>1, <1>12 DEF Connectivity, vars
<1>13. QED
  BY <1>2, <1>3, <1>5, <1>6, <1>7, <1>8, <1>9, <1>10, <1>11, <1>12 DEF QuietStep, HandlerStep

(***************************************************************************)
(* A standing queue preserves everything that StoreInv says of it.         *)
(***************************************************************************)
LEMMA StandingQueueSafe ==
  ASSUME TypeOK, IdsNameRows, BatchNamesRows, ConfirmedAreStored, AckedScanDurable, QueueStands
  PROVE  IdsNameRows' /\ BatchNamesRows' /\ ConfirmedAreStored' /\ AckedScanDurable'
<1> USE DEF QueueStands, TypeOK, Todo
<1>1. IdsNameRows'
  BY DEF IdsNameRows
<1>2. BatchNamesRows'
  BY DEF BatchNamesRows
<1>3. ConfirmedAreStored'
  BY DEF ConfirmedAreStored
<1>4. AckedScanDurable'
  BY DEF AckedScanDurable
<1>5. QED
  BY <1>1, <1>2, <1>3, <1>4

(***************************************************************************)
(* What a step leaves to the Stage 2 requests it does not concern: their   *)
(* records, whether cached or dropped.                                     *)
(***************************************************************************)
InStage2(request) == request.op \in {"stage2", "stage2Commit"}

CacheStays == \A d \in Docs : cache[d] # None => cache'[d] # None

LEMMA RecordsStay ==
  ASSUME TypeOK, Stage2HasARecord, CacheStays, UNCHANGED evicted,
         \A q \in Requests : InStage2(req'[q]) =>
           \/ InStage2(req[q]) /\ req'[q].doc = req[q].doc
           \/ cache'[req'[q].doc] # None,
         \A q \in Requests : InStage2(req[q]) => InStage2(req'[q]) /\ req'[q].doc = req[q].doc
  PROVE  Stage2HasARecord'
<1>1. ASSUME NEW q \in Requests, InStage2(req'[q])
      PROVE  HeldBy(q)' # {} \/ cache'[req'[q].doc] # None
  <2>1. CASE cache'[req'[q].doc] # None
    BY <2>1
  <2>2. CASE InStage2(req[q]) /\ req'[q].doc = req[q].doc
    <3>1. req[q].doc \in Docs
      BY <2>2, RequestFields DEF InStage2, TypeOK
    <3>2. HeldBy(q) # {} \/ cache[req[q].doc] # None
      BY <2>2 DEF Stage2HasARecord, InStage2
    <3>3. QED
      BY <2>2, <3>1, <3>2 DEF CacheStays, HeldBy
  <2>3. QED
    BY <1>1, <2>1, <2>2
<1>2. ASSUME NEW e \in evicted, NEW q \in e.holders
      PROVE  InStage2(req'[q]) /\ req'[q].doc = e.doc
  <2>1. q \in Requests
    BY DEF TypeOK, EvictedRecord
  <2>2. QED
    BY <2>1 DEF Stage2HasARecord, InStage2
<1>3. QED
  BY <1>1, <1>2 DEF Stage2HasARecord, InStage2

(***************************************************************************)
(* A request that is done, having put the record it held into the cache,   *)
(* leaves the others theirs: those who held the same one find it cached,   *)
(* and the one that was cached for the document is dropped to its holders. *)
(***************************************************************************)
LEMMA CachedScanIsHeld ==
  ASSUME TypeOK, Stage2HasARecord, NEW r \in Requests, InStage2(req[r]),
         NEW scan \in Scan, SetCachedScan(r, scan), Finish(r)
  PROVE  Stage2HasARecord'
<1>1. req[r].doc \in Docs
  BY RequestFields DEF InStage2, TypeOK
<1>2. req'[r] = Idle /\ \A q \in Requests \ {r} : req'[q] = req[q]
  BY DEF Finish, TypeOK
<1>3. cache'[req[r].doc] # None /\ CacheStays
  BY <1>1, NoneIsNoValue DEF SetCachedScan, TypeOK, CacheStays
<1>4. \A e \in evicted : r \notin e.holders => e \in evicted'
  BY DEF SetCachedScan, HeldBy
<1>5. ASSUME NEW q \in Requests, InStage2(req'[q])
      PROVE  HeldBy(q)' # {} \/ cache'[req'[q].doc] # None
  <2>1. q # r /\ req'[q] = req[q]
    BY <1>2, <1>5 DEF InStage2, Idle
  <2>2. req[q].doc \in Docs
    BY <1>5, <2>1, RequestFields DEF InStage2, TypeOK
  <2>3. CASE HeldBy(q) = {}
    BY <1>3, <1>5, <2>1, <2>2, <2>3 DEF Stage2HasARecord, InStage2, CacheStays
  <2>4. CASE HeldBy(q) # {}
    <3>1. PICK e \in evicted : q \in e.holders
      BY <2>4 DEF HeldBy
    <3>2. CASE r \in e.holders
      BY <1>3, <2>1, <3>1, <3>2 DEF Stage2HasARecord
    <3>3. CASE r \notin e.holders
      BY <1>4, <3>1, <3>3 DEF HeldBy
    <3>4. QED
      BY <3>2, <3>3
  <2>5. QED
    BY <2>3, <2>4
<1>6. ASSUME NEW e \in evicted', NEW q \in e.holders
      PROVE  InStage2(req'[q]) /\ req'[q].doc = e.doc
  <2>1. CASE e \in evicted /\ r \notin e.holders
    <3>1. q \in Requests /\ q # r
      BY <2>1 DEF TypeOK, EvictedRecord
    <3>2. QED
      BY <1>2, <2>1, <3>1 DEF Stage2HasARecord, InStage2
  <2>2. CASE e \in Dropped(req[r].doc) /\ HeldBy(r) # {}
    <3>1. e.doc = req[r].doc /\ e.holders = HoldersOfCached(req[r].doc)
      BY <2>2 DEF Dropped
    <3>2. q \in Requests /\ q # r /\ InStage2(req[q]) /\ req[q].doc = req[r].doc
      BY <2>2, <3>1 DEF HoldersOfCached, InStage2
    <3>3. QED
      BY <1>2, <3>1, <3>2
  <2>3. QED
    BY <1>6, <2>1, <2>2 DEF SetCachedScan, HeldBy
<1>7. QED
  BY <1>5, <1>6 DEF Stage2HasARecord, InStage2

(***************************************************************************)
(* Writing to the held record and going on to the commit.                  *)
(***************************************************************************)
LEMMA WrittenRecordIsHeld ==
  ASSUME TypeOK, Stage2HasARecord, NEW r \in Requests, InStage2(req[r]),
         Becomes(r, "stage2Commit"), CacheStays, NEW scan \in Scan,
         evicted' = (evicted \ HeldBy(r)) \cup {[e EXCEPT !.scan = scan] : e \in HeldBy(r)}
  PROVE  Stage2HasARecord'
<1>1. /\ \A q \in Requests : InStage2(req'[q]) <=> InStage2(req[q])
      /\ \A q \in Requests : InStage2(req[q]) => req'[q].doc = req[q].doc
  BY BecomesFields DEF InStage2
<1>2. \A e \in HeldBy(r) :
        [e EXCEPT !.scan = scan].holders = e.holders /\ [e EXCEPT !.scan = scan].doc = e.doc
  BY DEF HeldBy, TypeOK, EvictedRecord
<1>3. ASSUME NEW q \in Requests, InStage2(req'[q])
      PROVE  HeldBy(q)' # {} \/ cache'[req'[q].doc] # None
  <2>1. InStage2(req[q]) /\ req'[q].doc = req[q].doc /\ req[q].doc \in Docs
    BY <1>1, <1>3, RequestFields DEF InStage2, TypeOK
  <2>2. CASE HeldBy(q) = {}
    BY <2>1, <2>2 DEF Stage2HasARecord, InStage2, CacheStays
  <2>3. CASE HeldBy(q) # {}
    <3>1. PICK e \in evicted : q \in e.holders
      BY <2>3 DEF HeldBy
    <3>2. CASE e \in HeldBy(r)
      <4>1. [e EXCEPT !.scan = scan] \in evicted' /\ q \in [e EXCEPT !.scan = scan].holders
        BY <1>2, <3>1, <3>2
      <4>2. QED
        BY <4>1 DEF HeldBy
    <3>3. CASE e \notin HeldBy(r)
      BY <3>1, <3>3 DEF HeldBy
    <3>4. QED
      BY <3>2, <3>3
  <2>4. QED
    BY <2>2, <2>3
<1>4. ASSUME NEW e \in evicted', NEW q \in e.holders
      PROVE  InStage2(req'[q]) /\ req'[q].doc = e.doc
  <2>1. PICK f \in evicted : f.holders = e.holders /\ f.doc = e.doc
    BY <1>2 DEF HeldBy
  <2>2. q \in Requests /\ InStage2(req[q]) /\ req[q].doc = f.doc
    BY <2>1 DEF TypeOK, EvictedRecord, Stage2HasARecord, InStage2
  <2>3. QED
    BY <1>1, <2>1, <2>2
<1>5. QED
  BY <1>3, <1>4 DEF Stage2HasARecord, InStage2

(***************************************************************************)
(* A Stage 2 request has its record until it is done, although the cache   *)
(* may drop it.                                                            *)
(***************************************************************************)
LEMMA HeldRecordsStay ==
  ASSUME TypeOK, Stage2HasARecord, [Next]_vars
  PROVE  Stage2HasARecord'
<1> USE DEF vars, stores, clients
<1>1. ASSUME UNCHANGED <<cache, evicted, req>> PROVE Stage2HasARecord'
  BY <1>1, RecordsStay DEF CacheStays
<1>2. ASSUME NEW r \in Requests, NEW request, Start(r, request), CacheStays, UNCHANGED evicted,
             InStage2(request) => cache'[request.doc] # None
      PROVE  Stage2HasARecord'
  <2>1. req[r].op = "idle" /\ req'[r] = request /\ \A q \in Requests \ {r} : req'[q] = req[q]
    BY <1>2 DEF Start, TypeOK, Idle
  <2>2. QED
    BY <1>2, <2>1, RecordsStay DEF InStage2
<1>3. ASSUME NEW r \in Requests, Finish(r), ~InStage2(req[r]), CacheStays, UNCHANGED evicted
      PROVE  Stage2HasARecord'
  <2>1. req'[r] = Idle /\ \A q \in Requests \ {r} : req'[q] = req[q]
    BY <1>3 DEF Finish, TypeOK
  <2>2. ~InStage2(req'[r])
    BY <2>1 DEF InStage2, Idle
  <2>3. QED
    BY <1>3, <2>1, <2>2, RecordsStay
<1>4. ASSUME NEW d \in Docs, NEW db, GetScan(d, db)
      PROVE  CacheStays /\ cache'[d] # None
  BY <1>4 DEF GetScan, TypeOK, CacheStays
<1>5. ASSUME NEW r \in Requests, req[r].op # "idle"
      PROVE  req[r].doc \in Docs
  BY <1>5, RequestFields DEF TypeOK
<1>6. ASSUME NEW r \in Requests, NEW d \in Docs, BeginUpload(r, d) PROVE Stage2HasARecord'
  <2>1. PICK db \in BOOLEAN : Start(r, [op |-> "upload", doc |-> d, db |-> db])
    BY <1>6 DEF BeginUpload
  <2>2. UNCHANGED evicted /\ CacheStays
    BY <1>6 DEF BeginUpload, CacheStays
  <2> DEFINE request == [op |-> "upload", doc |-> d, db |-> db]
  <2>3. ~InStage2(request)
    BY DEF InStage2
  <2> HIDE DEF request
  <2>4. Start(r, request)
    BY <2>1 DEF request
  <2>5. QED
    BY <1>2, <2>2, <2>3, <2>4
<1>7. ASSUME NEW r \in Requests, NEW d \in Docs, BeginStage2(r, d) PROVE Stage2HasARecord'
  <2>1. PICK db \in BOOLEAN :
          GetScan(d, db) /\ Start(r, [op |-> "stage2", doc |-> d, db |-> db])
    BY <1>7 DEF BeginStage2
  <2>2. CacheStays /\ cache'[d] # None /\ UNCHANGED evicted
    BY <1>4, <1>7, <2>1 DEF BeginStage2
  <2>3. QED
    BY <1>2, <2>1, <2>2
<1>8. ASSUME NEW r \in Requests, NEW d \in Docs, NEW v \in Verdicts, BeginDecision(r, d, v)
      PROVE  Stage2HasARecord'
  <2>1. PICK db \in BOOLEAN :
          GetScan(d, db) /\ Start(r, [op |-> "decision", doc |-> d, db |-> db, verdict |-> v])
    BY <1>8 DEF BeginDecision
  <2>2. CacheStays /\ cache'[d] # None /\ UNCHANGED evicted
    BY <1>4, <1>8, <2>1 DEF BeginDecision
  <2>3. QED
    BY <1>2, <2>1, <2>2
<1>9. ASSUME NEW r \in Requests, SaveOffline(r) \/ SaveOnline(r) \/ SaveFails(r)
      PROVE  Stage2HasARecord'
  <2>1. CacheStays /\ UNCHANGED evicted
    BY <1>5, <1>9, ValuesTyped, NoneIsNoValue
    DEF SaveOffline, SaveOnline, SaveFails, TypeOK, CacheStays
  <2>2. QED
    BY <1>3, <1>9, <2>1 DEF SaveOffline, SaveOnline, SaveFails, InStage2
<1>10. ASSUME NEW r \in Requests, Stage2Done(r) PROVE Stage2HasARecord'
  <2>1. PICK s \in Stage2Status :
          \/ /\ cache' = IF HeldBy(r) = {}
                         THEN [cache EXCEPT ![req[r].doc] = [stage2 |-> TRUE, status |-> s]]
                         ELSE cache
             /\ evicted' = (evicted \ HeldBy(r)) \cup
                             {[e EXCEPT !.scan = [stage2 |-> TRUE, status |-> s]] : e \in HeldBy(r)}
             /\ Becomes(r, "stage2Commit")
          \/ SetCachedScan(r, [stage2 |-> TRUE, status |-> s]) /\ Finish(r)
    BY <1>10 DEF Stage2Done
  <2> DEFINE scan == [stage2 |-> TRUE, status |-> s]
  <2>2. scan \in Scan /\ scan # None
    BY ValuesTyped, NoneIsNoValue
  <2>3. InStage2(req[r]) /\ req[r].doc \in Docs
    BY <1>5, <1>10 DEF Stage2Done, InStage2
  <2> HIDE DEF scan
  <2>4. CASE SetCachedScan(r, scan) /\ Finish(r)
    BY <2>2, <2>3, <2>4, CachedScanIsHeld
  <2>5. CASE /\ cache' = IF HeldBy(r) = {} THEN [cache EXCEPT ![req[r].doc] = scan] ELSE cache
             /\ evicted' = (evicted \ HeldBy(r)) \cup {[e EXCEPT !.scan = scan] : e \in HeldBy(r)}
             /\ Becomes(r, "stage2Commit")
    <3>1. CacheStays
      BY <2>2, <2>3, <2>5 DEF CacheStays, TypeOK
    <3>2. QED
      BY <2>2, <2>3, <2>5, <3>1, WrittenRecordIsHeld
  <2>6. QED
    BY <2>1, <2>4, <2>5 DEF scan
<1>11. ASSUME NEW r \in Requests, Stage2Commit(r) PROVE Stage2HasARecord'
  <2>1. Record(r) \in Scan
    BY <1>11, RecordTyped DEF Stage2Commit
  <2>2. QED
    BY <1>11, <2>1, CachedScanIsHeld DEF Stage2Commit, InStage2
<1>12. ASSUME NEW r \in Requests, DecisionCommit(r) PROVE Stage2HasARecord'
  <2>1. Becomes(r, "decisionAnswer") /\ req[r].op = "decision" /\ UNCHANGED <<cache, evicted>>
    BY <1>12 DEF DecisionCommit
  <2>2. req'[r].op = "decisionAnswer" /\ \A q \in Requests \ {r} : req'[q] = req[q]
    BY <2>1, BecomesFields
  <2>3. QED
    BY <2>1, <2>2, RecordsStay DEF InStage2, CacheStays
<1>13. ASSUME NEW r \in Requests, DecisionAnswer(r) \/ DecisionOffline(r)
       PROVE  Stage2HasARecord'
  <2>1. /\ req[r].doc \in Docs /\ req[r].verdict \in Verdicts /\ AnswerDecision(r)
        /\ ~InStage2(req[r]) /\ UNCHANGED evicted
    BY <1>13, RequestFields DEF DecisionAnswer, DecisionOffline, TypeOK, InStage2
  <2>2. CacheStays
    <3>1. CASE cache[req[r].doc] = None
      BY <2>1, <3>1 DEF AnswerDecision, CacheStays
    <3>2. CASE cache[req[r].doc] # None
      <4>1. cache[req[r].doc] \in Scan /\ StatusOf(req[r].verdict) \in Status
        BY <2>1, <3>2, ValuesTyped DEF TypeOK
      <4>2. [cache[req[r].doc] EXCEPT !.status = StatusOf(req[r].verdict)] \in Scan
        BY <4>1 DEF Scan
      <4>3. cache' = [cache EXCEPT ![req[r].doc] =
                        [cache[req[r].doc] EXCEPT !.status = StatusOf(req[r].verdict)]]
        BY <2>1, <3>2 DEF AnswerDecision
      <4>4. QED
        BY <2>1, <4>2, <4>3, NoneIsNoValue DEF TypeOK, CacheStays
    <3>3. QED
      BY <3>1, <3>2
  <2>3. QED
    BY <1>3, <2>1, <2>2 DEF AnswerDecision
<1>14. ASSUME NEW d \in Docs, ReadScan(d) PROVE Stage2HasARecord'
  <2>1. PICK db \in BOOLEAN : GetScan(d, db)
    BY <1>14 DEF ReadScan
  <2>2. CacheStays /\ UNCHANGED <<req, evicted>>
    BY <1>4, <1>14, <2>1 DEF ReadScan
  <2>3. QED
    BY <2>2, RecordsStay
<1>15. ASSUME NEW d \in Docs, Evict(d) PROVE Stage2HasARecord'
  <2>1. /\ cache[d] # None /\ evicted' = evicted \cup Dropped(d) /\ UNCHANGED req
        /\ \A e \in Docs \ {d} : cache'[e] = cache[e]
    BY <1>15 DEF Evict, TypeOK
  <2>2. ASSUME NEW q \in Requests, InStage2(req[q])
        PROVE  HeldBy(q)' # {} \/ cache'[req[q].doc] # None
    <3>1. CASE HeldBy(q) # {}
      BY <2>1, <3>1 DEF HeldBy
    <3>2. CASE HeldBy(q) = {} /\ req[q].doc = d
      <4>1. q \in HoldersOfCached(d)
        BY <2>2, <3>2 DEF HoldersOfCached, InStage2
      <4> DEFINE e == [doc |-> d, scan |-> cache[d], holders |-> HoldersOfCached(d)]
      <4>2. e \in Dropped(d)
        BY <2>1, <4>1 DEF Dropped
      <4>3. e \in evicted' /\ q \in e.holders
        BY <2>1, <4>1, <4>2
      <4>4. QED
        BY <4>3 DEF HeldBy
    <3>3. CASE HeldBy(q) = {} /\ req[q].doc # d
      <4>1. req[q].doc \in Docs /\ cache[req[q].doc] # None
        BY <1>5, <2>2, <3>3 DEF Stage2HasARecord, InStage2
      <4>2. QED
        BY <2>1, <3>3, <4>1
    <3>4. QED
      BY <3>1, <3>2, <3>3
  <2>3. ASSUME NEW e \in evicted', NEW q \in e.holders
        PROVE  InStage2(req[q]) /\ req[q].doc = e.doc
    <3>1. CASE e \in evicted
      BY <3>1 DEF Stage2HasARecord, InStage2
    <3>2. CASE e \in Dropped(d)
      <4>1. e.doc = d /\ q \in HoldersOfCached(d)
        BY <3>2 DEF Dropped
      <4>2. QED
        BY <4>1 DEF HoldersOfCached, InStage2
    <3>3. QED
      BY <2>1, <2>3, <3>1, <3>2
  <2>4. QED
    BY <2>1, <2>2, <2>3 DEF Stage2HasARecord, InStage2
<1>16. CASE Crash
  BY <1>16 DEF Crash, Stage2HasARecord, Idle
<1>17. CASE SyncStart \/ SyncItem \/ SyncPurge \/ Connectivity \/ UNCHANGED vars
  BY <1>1, <1>17 DEF SyncStart, SyncItem, SyncCommit, SyncFail, SyncFault, SyncPurge,
                     Connectivity
<1>18. QED
  BY <1>6, <1>7, <1>8, <1>9, <1>10, <1>11, <1>12, <1>13, <1>14, <1>15, <1>16, <1>17 DEF Next

-----------------------------------------------------------------------------
(***************************************************************************)
(* Init establishes StoreInv.                                              *)
(***************************************************************************)
LEMMA InitStoreInv == Init => StoreInv
<1> SUFFICES ASSUME Init PROVE StoreInv
  OBVIOUS
<1> USE DEF Init, Todo
<1>1. /\ sync = [running |-> FALSE, batch |-> << >>, synced |-> {}]
      /\ sync.batch = << >> /\ DOMAIN sync.batch = {} /\ sync.batch \in [{} -> Row]
      /\ sync.running = FALSE /\ sync.synced = {}
  OBVIOUS
<1>2. TypeOK
  <2>1. \A d \in Docs : decisions[d] \in Seq(Verdicts)
    OBVIOUS
  <2>2. req \in [Requests -> Request]
    BY DEF Request
  <2>3. QED
    BY <1>1, <2>1, <2>2 DEF TypeOK
<1>3. Stage2HasARecord
  BY DEF Stage2HasARecord, Idle
<1>4. IdsNameRows /\ BatchNamesRows /\ ConfirmedAreStored /\ AckedScanDurable
  BY <1>1 DEF IdsNameRows, BatchNamesRows, ConfirmedAreStored, AckedScanDurable
<1>5. QED
  BY <1>2, <1>3, <1>4 DEF StoreInv

(***************************************************************************)
(* save_scan: an acknowledged upload is in one of the two stores, and a    *)
(* queued row has an id that was never used.                               *)
(***************************************************************************)
LEMMA SaveSteps ==
  ASSUME StoreInv, NEW r \in Requests, SaveOffline(r) \/ SaveOnline(r)
  PROVE  IdsNameRows' /\ BatchNamesRows' /\ ConfirmedAreStored' /\ AckedScanDurable'
<1> USE DEF StoreInv, Todo
<1>1. req[r].doc \in Docs
  BY RequestFields DEF SaveOffline, SaveOnline, TypeOK
<1>2. CASE SaveOffline(r)
  <2> DEFINE d == req[r].doc
             row == [id |-> nextId, retry |-> 0,
                     payload |-> [stage2 |-> FALSE, status |-> Pending, verdict |-> None]]
  <2>1. row \in Row /\ row # None /\ row.id = nextId
    <3>1. nextId \in Nat
      BY DEF TypeOK
    <3>2. row \in Row
      BY <3>1, ValuesTyped DEF Row
    <3>3. QED
      BY <3>2, NoneIsNoValue
  <2>2. /\ sqlite'[d] = row /\ \A e \in Docs \ {d} : sqlite'[e] = sqlite[e]
        /\ nextId' = nextId + 1 /\ nextId \in Nat
        /\ acked' = acked \cup {d}
        /\ UNCHANGED <<scans, sync>>
    BY <1>1, <1>2 DEF SaveOffline, TypeOK
  <2> HIDE DEF row
  <2>3. \A e \in Docs \ {d} : sqlite[e] # None => sqlite[e].id \in Nat
    BY DEF TypeOK, Row
  <2>4. \A e \in Todo : sync.batch[e].id \in Nat /\ e \in Docs
    BY DEF TypeOK, Row
  <2>5. \A i \in sync.synced : i \in Nat
    BY DEF TypeOK
  <2>6. IdsNameRows'
    BY <1>1, <2>1, <2>2, <2>3, <2>5 DEF IdsNameRows
  <2>7. BatchNamesRows'
    <3> SUFFICES ASSUME NEW e \in Todo
                 PROVE  /\ sync.batch[e].id < nextId + 1
                        /\ sync.batch[e].retry < MaxRetry
                        /\ \A o \in Docs : sqlite'[o] # None /\ sqlite'[o].id = sync.batch[e].id =>
                             o = e /\ sqlite'[o].retry = sync.batch[e].retry
      BY <2>2 DEF BatchNamesRows
    <3>1. sync.batch[e].id < nextId /\ sync.batch[e].id \in Nat
      BY <2>4 DEF BatchNamesRows
    <3>2. sync.batch[e].id < nextId + 1
      BY <2>2, <3>1
    <3>3. ASSUME NEW o \in Docs, sqlite'[o] # None, sqlite'[o].id = sync.batch[e].id
          PROVE  o = e /\ sqlite'[o].retry = sync.batch[e].retry
      <4>1. o # d
        BY <2>1, <2>2, <3>1, <3>3
      <4>2. QED
        BY <2>2, <3>3, <4>1 DEF BatchNamesRows
    <3>4. QED
      BY <3>2, <3>3 DEF BatchNamesRows
  <2>8. ConfirmedAreStored'
    BY <1>1, <2>1, <2>2, <2>5 DEF ConfirmedAreStored, IdsNameRows
  <2>9. AckedScanDurable'
    BY <1>1, <2>1, <2>2 DEF AckedScanDurable, TypeOK
  <2>10. QED
    BY <2>6, <2>7, <2>8, <2>9
<1>3. CASE SaveOnline(r)
  <2>1. /\ scans'[req[r].doc] # None
        /\ \A e \in Docs : scans[e] # None => scans'[e] # None
        /\ acked' = acked \cup {req[r].doc}
        /\ UNCHANGED <<sqlite, nextId, sync>>
    BY <1>1, <1>3, ValuesTyped, NoneIsNoValue DEF SaveOnline, TypeOK
  <2>2. QED
    BY <2>1 DEF IdsNameRows, BatchNamesRows, ConfirmedAreStored, AckedScanDurable, TypeOK
<1>4. QED
  BY <1>2, <1>3

-----------------------------------------------------------------------------
(***************************************************************************)
(* The round starts: the batch is a copy of queued rows that have retries  *)
(* left.                                                                   *)
(***************************************************************************)
LEMMA SyncStartSafe ==
  ASSUME StoreInv, SyncStart
  PROVE  IdsNameRows' /\ BatchNamesRows' /\ ConfirmedAreStored' /\ AckedScanDurable'
<1> USE DEF StoreInv, Todo
<1>1. /\ UNCHANGED <<scans, sqlite, nextId, acked>>
      /\ sync'.batch = [d \in Batch |-> sqlite[d]]
      /\ sync'.synced = {}
  BY DEF SyncStart, stores, clients
<1>2. \A d \in Batch : d \in Docs /\ sqlite[d] # None /\ sqlite[d].retry < MaxRetry
  BY DEF Batch, Queued
<1>3. BatchNamesRows'
  BY <1>1, <1>2 DEF BatchNamesRows, IdsNameRows
<1>4. IdsNameRows' /\ ConfirmedAreStored' /\ AckedScanDurable'
  BY <1>1 DEF IdsNameRows, ConfirmedAreStored, AckedScanDurable, TypeOK
<1>5. QED
  BY <1>3, <1>4

(***************************************************************************)
(* An item that was tried leaves the batch; the others stay as they were.  *)
(***************************************************************************)
LEMMA TriedItem ==
  ASSUME TypeOK, NEW d \in Docs, InTurn(d)
  PROVE  /\ d \in Todo /\ sync.batch[d] \in Row
         /\ DOMAIN Tried(d) = Todo \ {d}
         /\ \A e \in Todo \ {d} : Tried(d)[e] = sync.batch[e]
BY DEF TypeOK, InTurn, Tried

(***************************************************************************)
(* An item is committed: it is in scan_events by the time its id is        *)
(* confirmed.                                                              *)
(***************************************************************************)
LEMMA SyncCommitSafe ==
  ASSUME StoreInv, NEW d \in Docs, SyncCommit(d)
  PROVE  IdsNameRows' /\ BatchNamesRows' /\ ConfirmedAreStored' /\ AckedScanDurable'
<1> USE DEF StoreInv
<1>1. /\ d \in Todo /\ sync.batch[d] \in Row
      /\ DOMAIN Tried(d) = Todo \ {d}
      /\ \A e \in Todo \ {d} : Tried(d)[e] = sync.batch[e]
  BY TriedItem DEF SyncCommit
<1>2. /\ UNCHANGED <<sqlite, nextId, acked>>
      /\ sync'.batch = Tried(d)
      /\ sync'.synced = sync.synced \cup {sync.batch[d].id}
  BY DEF SyncCommit, clients, TypeOK
<1>3. ScanOf(sync.batch[d].payload) # None
  BY <1>1, ValuesTyped, NoneIsNoValue DEF Row
<1>4. scans'[d] # None /\ \A e \in Docs : scans[e] # None => scans'[e] # None
  BY <1>3 DEF SyncCommit, Upsert, TypeOK
<1>5. IdsNameRows'
  BY <1>1, <1>2 DEF IdsNameRows, BatchNamesRows
<1>6. BatchNamesRows'
  BY <1>1, <1>2 DEF BatchNamesRows, Todo
<1>7. ConfirmedAreStored'
  BY <1>1, <1>2, <1>4 DEF ConfirmedAreStored, BatchNamesRows
<1>8. AckedScanDurable'
  BY <1>2, <1>4 DEF AckedScanDurable, TypeOK
<1>9. QED
  BY <1>5, <1>6, <1>7, <1>8

(***************************************************************************)
(* An item fails: its row stays, with one retry less.                      *)
(***************************************************************************)
LEMMA SyncFailureSafe ==
  ASSUME StoreInv, NEW d \in Docs, SyncFail(d) \/ SyncFault(d)
  PROVE  IdsNameRows' /\ BatchNamesRows' /\ ConfirmedAreStored' /\ AckedScanDurable'
<1> USE DEF StoreInv
<1>1. /\ d \in Todo /\ sync.batch[d] \in Row
      /\ DOMAIN Tried(d) = Todo \ {d}
      /\ \A e \in Todo \ {d} : Tried(d)[e] = sync.batch[e]
  BY TriedItem DEF SyncFail, SyncFault
<1>2. /\ UNCHANGED <<nextId, acked>> /\ IncrementRetry(d)
      /\ sync'.batch = Tried(d) /\ sync'.synced = sync.synced
  BY DEF SyncFail, SyncFault, IncrementRetry, clients, TypeOK
<1>3. \A e \in Docs : scans[e] # None => scans'[e] # None
  <2>1. ScanOf(sync.batch[d].payload) # None
    BY <1>1, ValuesTyped, NoneIsNoValue DEF Row
  <2>2. QED
    BY <2>1 DEF SyncFail, SyncFault, Upsert, TypeOK
<1>4. ASSUME NEW e \in Docs
      PROVE  /\ sqlite'[e] # None <=> sqlite[e] # None
             /\ sqlite[e] # None => sqlite'[e].id = sqlite[e].id
             /\ e # d => sqlite'[e] = sqlite[e]
  <2>1. sqlite[e] # None /\ sqlite[e].id = sync.batch[d].id => e = d
    BY <1>1 DEF BatchNamesRows
  <2>2. CASE sqlite[e] # None /\ sqlite[e].id = sync.batch[d].id
    <3>1. sqlite[e] \in Row /\ sqlite[e].retry < MaxRetry
      BY <1>1, <2>2 DEF TypeOK, BatchNamesRows
    <3>2. [sqlite[e] EXCEPT !.retry = sqlite[e].retry + 1] \in Row
      BY <3>1, RowUpdates DEF Row
    <3>3. sqlite'[e] = [sqlite[e] EXCEPT !.retry = sqlite[e].retry + 1]
      BY <1>2, <2>2 DEF IncrementRetry
    <3>4. sqlite'[e].id = sqlite[e].id
      BY <3>1, <3>3, RowUpdates
    <3>5. QED
      BY <2>1, <2>2, <3>2, <3>3, <3>4, NoneIsNoValue
  <2>3. CASE ~(sqlite[e] # None /\ sqlite[e].id = sync.batch[d].id)
    BY <1>2, <2>3 DEF IncrementRetry
  <2>4. QED
    BY <2>2, <2>3
<1>5. IdsNameRows'
  BY <1>2, <1>4 DEF IdsNameRows
<1>6. BatchNamesRows'
  BY <1>1, <1>2, <1>4 DEF BatchNamesRows, Todo
<1>7. ConfirmedAreStored' /\ AckedScanDurable'
  BY <1>2, <1>3, <1>4 DEF ConfirmedAreStored, AckedScanDurable, TypeOK
<1>8. QED
  BY <1>5, <1>6, <1>7

(***************************************************************************)
(* The confirmed rows are purged: each of them is in scan_events.          *)
(***************************************************************************)
LEMMA SyncPurgeSafe ==
  ASSUME StoreInv, SyncPurge
  PROVE  IdsNameRows' /\ BatchNamesRows' /\ ConfirmedAreStored' /\ AckedScanDurable'
<1> USE DEF StoreInv
<1>1. /\ UNCHANGED <<scans, nextId, acked>>
      /\ sync'.batch = sync.batch /\ Todo = {} /\ sync'.synced = {}
  BY DEF SyncPurge, clients, TypeOK
<1>2. ASSUME NEW e \in Docs
      PROVE  /\ sqlite'[e] # None => sqlite'[e] = sqlite[e]
             /\ sqlite[e] # None /\ sqlite'[e] = None => sqlite[e].id \in sync.synced
  BY DEF SyncPurge
<1>3. IdsNameRows' /\ BatchNamesRows' /\ ConfirmedAreStored'
  BY <1>1, <1>2 DEF IdsNameRows, BatchNamesRows, ConfirmedAreStored, Todo
<1>4. AckedScanDurable'
  BY <1>1, <1>2 DEF AckedScanDurable, ConfirmedAreStored, TypeOK
<1>5. QED
  BY <1>3, <1>4

(***************************************************************************)
(* A crash forgets the batch and the confirmed ids; the stores stay.       *)
(***************************************************************************)
LEMMA CrashSafe ==
  ASSUME StoreInv, Crash
  PROVE  IdsNameRows' /\ BatchNamesRows' /\ ConfirmedAreStored' /\ AckedScanDurable'
<1>1. /\ UNCHANGED <<scans, sqlite, nextId, acked>>
      /\ sync' = [running |-> FALSE, batch |-> << >>, synced |-> {}]
  BY DEF Crash, clients
<1>2. DOMAIN sync'.batch = {} /\ sync'.synced = {}
  BY <1>1
<1>3. QED
  BY <1>1, <1>2 DEF StoreInv, IdsNameRows, BatchNamesRows, ConfirmedAreStored,
                    AckedScanDurable, TypeOK, Todo

-----------------------------------------------------------------------------
(***************************************************************************)
(* Every step preserves StoreInv.                                          *)
(***************************************************************************)
LEMMA NextStoreInv == StoreInv /\ [Next]_vars => StoreInv'
<1> SUFFICES ASSUME StoreInv, [Next]_vars PROVE StoreInv'
  OBVIOUS
<1>1. TypeOK' /\ Stage2HasARecord'
  BY NextTypeOK, HeldRecordsStay DEF StoreInv
<1>2. IdsNameRows' /\ BatchNamesRows' /\ ConfirmedAreStored' /\ AckedScanDurable'
  <2>1. CASE QuietStep
    BY <2>1, QuietStepsStand, StandingQueueSafe DEF StoreInv
  <2>2. CASE \E r \in Requests : SaveOffline(r) \/ SaveOnline(r)
    BY <2>2, SaveSteps
  <2>3. CASE SyncStart
    BY <2>3, SyncStartSafe
  <2>4. CASE SyncItem
    BY <2>4, SyncCommitSafe, SyncFailureSafe DEF SyncItem
  <2>5. CASE SyncPurge
    BY <2>5, SyncPurgeSafe
  <2>6. CASE Crash
    BY <2>6, CrashSafe
  <2>7. QED
    BY <2>1, <2>2, <2>3, <2>4, <2>5, <2>6 DEF Next, QuietStep, HandlerStep
<1>3. QED
  BY <1>1, <1>2 DEF StoreInv

(***************************************************************************)
(* The invariant of the stores holds throughout.                           *)
(***************************************************************************)
THEOREM StoreInvariance == Spec => []StoreInv
BY InitStoreInv, NextStoreInv, PTL DEF Spec

(***************************************************************************)
(* Type correctness of the screening stores.                               *)
(***************************************************************************)
THEOREM StoreTypeCorrect == Spec => []TypeOK
<1>1. StoreInv => TypeOK
  BY DEF StoreInv
<1>2. QED
  BY StoreInvariance, <1>1, PTL

(***************************************************************************)
(* No acknowledged screening is ever in neither store: neither the sync    *)
(* loop's purge (mark_synced) nor a crash, a lost acknowledgement or a     *)
(* change of connectivity can lose one.                                    *)
(***************************************************************************)
THEOREM AcknowledgedScansDurable == Spec => []AckedScanDurable
<1>1. StoreInv => AckedScanDurable
  BY DEF StoreInv
<1>2. QED
  BY StoreInvariance, <1>1, PTL

-----------------------------------------------------------------------------
(***************************************************************************)
(* A scan_events row is never deleted.                                     *)
(***************************************************************************)
LEMMA ScansStay ==
  ASSUME StoreInv, [Next]_vars, NEW d \in Docs, scans[d] # None
  PROVE  scans'[d] # None
<1> USE DEF StoreInv
<1>1. CASE QuietStep
  BY <1>1, QuietStepsStand DEF QueueStands
<1>2. ASSUME NEW r \in Requests, SaveOffline(r) \/ SaveOnline(r) PROVE scans'[d] # None
  BY <1>2, ValuesTyped, NoneIsNoValue DEF SaveOffline, SaveOnline, TypeOK
<1>3. ASSUME NEW e \in Docs, InTurn(e), Upsert(e) PROVE scans'[d] # None
  <2>1. ScanOf(sync.batch[e].payload) # None
    <3>1. sync.batch[e] \in Row
      BY <1>3, TriedItem
    <3>2. ScanOf(sync.batch[e].payload) \in Scan
      BY <3>1, ValuesTyped DEF Row
    <3>3. QED
      BY <3>2, NoneIsNoValue
  <2>2. QED
    BY <1>3, <2>1 DEF Upsert, TypeOK
<1>4. CASE SyncItem
  BY <1>3, <1>4 DEF SyncItem, SyncCommit, SyncFail, SyncFault
<1>5. CASE SyncStart \/ SyncPurge \/ Crash
  BY <1>5 DEF SyncStart, SyncPurge, Crash, stores
<1>6. QED
  BY <1>1, <1>2, <1>4, <1>5 DEF Next, QuietStep, HandlerStep

(***************************************************************************)
(* Every officer_decisions row belongs to a scan_events row: neither the   *)
(* handler nor the sync loop writes a decision ahead of its screening.     *)
(***************************************************************************)
THEOREM DecisionsHaveScans == Spec => []DecisionsReferToScans
<1>1. Init => DecisionsReferToScans
  BY DEF Init, DecisionsReferToScans
<1>2. StoreInv /\ DecisionsReferToScans /\ [Next]_vars => DecisionsReferToScans'
  <2> SUFFICES ASSUME StoreInv, DecisionsReferToScans, [Next]_vars, NEW d \in Docs,
                      decisions'[d] # << >>
               PROVE  scans'[d] # None
    BY DEF DecisionsReferToScans
  <2>1. CASE decisions'[d] = decisions[d]
    BY <2>1, ScansStay DEF DecisionsReferToScans
  <2>2. ASSUME NEW r \in Requests, DecisionCommit(r), decisions'[d] # decisions[d]
        PROVE  scans[d] # None
    BY <2>2 DEF DecisionCommit, StoreInv, TypeOK
  <2>3. ASSUME NEW e \in Docs, InTurn(e), Upsert(e), decisions'[d] # decisions[d]
        PROVE  scans'[d] # None
    <3>1. ScanOf(sync.batch[e].payload) # None
      BY <2>3, TriedItem, ValuesTyped, NoneIsNoValue DEF StoreInv, Row
    <3>2. e = d
      BY <2>3 DEF Upsert, StoreInv, TypeOK
    <3>3. QED
      BY <2>3, <3>1, <3>2 DEF Upsert, StoreInv, TypeOK
  <2>4. CASE decisions' # decisions
    <3>1. \/ \E r \in Requests : DecisionCommit(r)
          \/ \E e \in Docs : InTurn(e) /\ Upsert(e)
      BY <2>4 DEF Next, vars, stores, clients, BeginUpload, SaveOffline, SaveOnline, SaveFails,
                  ReadScan, BeginStage2, Stage2Done, Stage2Commit, BeginDecision,
                  DecisionAnswer, DecisionOffline, SyncStart, SyncItem, SyncCommit, SyncFail,
                  SyncFault, SyncPurge, Connectivity, Crash, Evict
    <3>2. QED
      BY <2>1, <2>2, <2>3, <3>1, ScansStay
  <2>5. QED
    BY <2>1, <2>4
<1>3. QED
  BY <1>1, <1>2, StoreInvariance, PTL DEF Spec

-----------------------------------------------------------------------------
(***************************************************************************)
(* Which documents requests are about, after a step that starts no upload: *)
(* a request goes on with its document, or starts with an acknowledged     *)
(* one.                                                                    *)
(***************************************************************************)
GoesOn(q) ==
  /\ req[q] # Idle
  /\ req'[q].doc = req[q].doc
  /\ req'[q].op = "upload" <=> req[q].op = "upload"

RequestsGoOn ==
  \A q \in Requests : req'[q] # Idle =>
    GoesOn(q) \/ (req'[q].op # "upload" /\ req'[q].doc \in acked)

(***************************************************************************)
(* A request for an acknowledged document that is no upload may start.     *)
(***************************************************************************)
LEMMA StartsKnown ==
  ASSUME TypeOK, NEW r \in Requests, NEW request, Start(r, request),
         request.op # "upload", request.doc \in acked
  PROVE  RequestsGoOn
<1>1. req'[r] = request /\ \A q \in Requests \ {r} : req'[q] = req[q]
  BY DEF Start, TypeOK
<1>2. QED
  BY <1>1 DEF RequestsGoOn, GoesOn

(***************************************************************************)
(* Every step but the start of an upload is of that kind.                  *)
(***************************************************************************)
LEMMA NoUploadStarts ==
  ASSUME TypeOK, [Next]_vars, ~\E r \in Requests, d \in Docs : BeginUpload(r, d)
  PROVE  RequestsGoOn
<1>1. ASSUME UNCHANGED req PROVE RequestsGoOn
  BY <1>1 DEF RequestsGoOn, GoesOn
<1>2. ASSUME NEW r \in Requests, Finish(r) PROVE RequestsGoOn
  <2>1. req'[r] = Idle /\ \A q \in Requests \ {r} : req'[q] = req[q]
    BY <1>2 DEF Finish, TypeOK
  <2>2. QED
    BY <2>1 DEF RequestsGoOn, GoesOn
<1>3. ASSUME NEW r \in Requests, NEW op, op # "upload", Becomes(r, op),
             req[r].op \notin {"idle", "upload"}
      PROVE  RequestsGoOn
  <2>1. /\ req'[r].doc = req[r].doc
        /\ req'[r].op = op
        /\ \A q \in Requests \ {r} : req'[q] = req[q]
    BY <1>3, BecomesFields
  <2>2. req[r] # Idle
    BY <1>3 DEF Idle
  <2>3. QED
    BY <1>3, <2>1, <2>2 DEF RequestsGoOn, GoesOn
<1>4. ASSUME NEW r \in Requests, NEW d \in Docs, BeginStage2(r, d) PROVE RequestsGoOn
  <2>1. PICK db \in BOOLEAN : Start(r, [op |-> "stage2", doc |-> d, db |-> db])
    BY <1>4 DEF BeginStage2
  <2> DEFINE request == [op |-> "stage2", doc |-> d, db |-> db]
  <2>2. request.op # "upload" /\ request.doc \in acked
    BY <1>4 DEF BeginStage2
  <2> HIDE DEF request
  <2>3. Start(r, request)
    BY <2>1 DEF request
  <2>4. QED
    BY <2>2, <2>3, StartsKnown
<1>5. ASSUME NEW r \in Requests, NEW d \in Docs, NEW v \in Verdicts, BeginDecision(r, d, v)
      PROVE  RequestsGoOn
  <2>1. PICK db \in BOOLEAN :
          Start(r, [op |-> "decision", doc |-> d, db |-> db, verdict |-> v])
    BY <1>5 DEF BeginDecision
  <2> DEFINE request == [op |-> "decision", doc |-> d, db |-> db, verdict |-> v]
  <2>2. request.op # "upload" /\ request.doc \in acked
    BY <1>5 DEF BeginDecision
  <2> HIDE DEF request
  <2>3. Start(r, request)
    BY <2>1 DEF request
  <2>4. QED
    BY <2>2, <2>3, StartsKnown
<1>6. ASSUME NEW r \in Requests, Stage2Done(r) PROVE RequestsGoOn
  <2>1. Becomes(r, "stage2Commit") \/ Finish(r)
    BY <1>6 DEF Stage2Done
  <2>2. req[r].op \notin {"idle", "upload"}
    BY <1>6 DEF Stage2Done
  <2>3. QED
    BY <1>2, <1>3, <2>1, <2>2
<1>7. ASSUME NEW r \in Requests, DecisionCommit(r) PROVE RequestsGoOn
  <2>1. Becomes(r, "decisionAnswer") /\ req[r].op \notin {"idle", "upload"}
    BY <1>7 DEF DecisionCommit
  <2>2. QED
    BY <1>3, <2>1
<1>8. ASSUME NEW r \in Requests,
             \/ SaveOffline(r) \/ SaveOnline(r) \/ SaveFails(r) \/ Stage2Commit(r)
             \/ DecisionAnswer(r) \/ DecisionOffline(r)
      PROVE  RequestsGoOn
  <2>1. Finish(r)
    BY <1>8 DEF SaveOffline, SaveOnline, SaveFails, Stage2Commit, DecisionAnswer,
                DecisionOffline, AnswerDecision
  <2>2. QED
    BY <1>2, <2>1
<1>9. ASSUME NEW d \in Docs, ReadScan(d) \/ Evict(d) PROVE RequestsGoOn
  BY <1>1, <1>9 DEF ReadScan, Evict
<1>10. CASE SyncStart \/ SyncItem \/ SyncPurge \/ Connectivity \/ UNCHANGED vars
  BY <1>1, <1>10 DEF SyncStart, SyncItem, SyncCommit, SyncFail, SyncFault, SyncPurge,
                     Connectivity, vars
<1>11. CASE Crash
  BY <1>11 DEF Crash, RequestsGoOn
<1>12. QED
  BY <1>4, <1>5, <1>6, <1>7, <1>8, <1>9, <1>10, <1>11 DEF Next

(***************************************************************************)
(* Uploads stay fresh in a step that puts none of their documents          *)
(* anywhere.                                                               *)
(***************************************************************************)
LEMMA UploadsStayFresh ==
  ASSUME TypeOK, UploadsAreFresh, QueuedAreAcked, RequestsGoOn, acked \subseteq acked',
         \A q \in Requests : req'[q].op = "upload" =>
           req[q].doc \notin acked' /\ scans'[req[q].doc] = None
  PROVE  /\ UploadsAreFresh'
         /\ \A q \in Requests : req'[q] # Idle => req'[q].op = "upload" \/ req'[q].doc \in acked'
<1>1. ASSUME NEW q \in Requests, req'[q] # Idle
      PROVE  req'[q].op = "upload" \/ req'[q].doc \in acked'
  <2>1. GoesOn(q) \/ (req'[q].op # "upload" /\ req'[q].doc \in acked)
    BY <1>1 DEF RequestsGoOn
  <2>2. QED
    BY <2>1 DEF GoesOn, QueuedAreAcked
<1>2. ASSUME NEW q \in Requests, req'[q].op = "upload"
      PROVE  /\ req'[q].doc \notin acked'
             /\ scans'[req'[q].doc] = None
             /\ InFlight(req[q].doc)' = {q}
  <2>1. req'[q] # Idle
    BY <1>2 DEF Idle
  <2>2. GoesOn(q)
    BY <1>2, <2>1 DEF RequestsGoOn
  <2>3. /\ req'[q].doc = req[q].doc /\ req[q].op = "upload"
        /\ req'[q].doc \notin acked' /\ scans'[req'[q].doc] = None
        /\ InFlight(req[q].doc) = {q}
    BY <1>2, <2>2 DEF GoesOn, UploadsAreFresh
  <2>4. ASSUME NEW x \in Requests, req'[x] # Idle, req'[x].doc = req'[q].doc PROVE x = q
    <3>1. GoesOn(x)
      BY <2>3, <2>4 DEF RequestsGoOn
    <3>2. x \in InFlight(req[q].doc)
      BY <2>3, <2>4, <3>1 DEF GoesOn, InFlight
    <3>3. QED
      BY <2>3, <3>2
  <2>5. InFlight(req[q].doc)' = {q}
    BY <2>1, <2>4 DEF InFlight
  <2>6. QED
    BY <2>3, <2>5
<1>3. QED
  BY <1>1, <1>2 DEF UploadsAreFresh

(***************************************************************************)
(* The quiet steps put a screening nowhere, save_scan's failed commit      *)
(* excepted, and take no verdict out of the queue.                         *)
(***************************************************************************)
NoNewPlace ==
  \A d \in Docs : scans'[d] # None =>
    scans[d] # None \/ \E r \in Requests : SaveFails(r) /\ req[r].doc = d

VerdictsStay ==
  \A d \in Docs : sqlite[d] # None /\ sqlite[d].payload.verdict # None =>
    sqlite'[d].payload.verdict # None

(***************************************************************************)
(* Of the quiet steps only save_scan's failed commit gives a document a    *)
(* row in Supabase.                                                        *)
(***************************************************************************)
LEMMA QuietStepsPlace ==
  ASSUME TypeOK, QuietStep
  PROVE  NoNewPlace
<1> USE DEF stores, clients
<1>1. ASSUME UNCHANGED scans PROVE NoNewPlace
  BY <1>1 DEF NoNewPlace
<1>2. ASSUME NEW r \in Requests, SaveFails(r) PROVE NoNewPlace
  <2>1. \A d \in Docs : scans'[d] # None /\ scans[d] = None => req[r].doc = d
    BY <1>2 DEF SaveFails, TypeOK
  <2>2. QED
    BY <1>2, <2>1 DEF NoNewPlace
<1>3. ASSUME NEW r \in Requests, Stage2Commit(r) \/ DecisionCommit(r) PROVE NoNewPlace
  <2>1. \A d \in Docs : scans[d] = None => scans'[d] = None
    BY <1>3 DEF Stage2Commit, DecisionCommit, TypeOK
  <2>2. QED
    BY <2>1 DEF NoNewPlace
<1>4. ASSUME NEW r \in Requests,
             \/ \E d \in Docs : BeginUpload(r, d) \/ BeginStage2(r, d)
             \/ \E d \in Docs, v \in Verdicts : BeginDecision(r, d, v)
             \/ Stage2Done(r) \/ DecisionAnswer(r) \/ DecisionOffline(r)
      PROVE  NoNewPlace
  BY <1>1, <1>4 DEF BeginUpload, BeginStage2, BeginDecision, Stage2Done, DecisionAnswer,
                    DecisionOffline
<1>5. CASE (\E d \in Docs : ReadScan(d) \/ Evict(d)) \/ Connectivity \/ UNCHANGED vars
  BY <1>1, <1>5 DEF ReadScan, Evict, Connectivity, vars
<1>6. QED
  BY <1>2, <1>3, <1>4, <1>5 DEF QuietStep, HandlerStep

(***************************************************************************)
(* An item that failed keeps its row, under its id and with its payload.   *)
(***************************************************************************)
LEMMA RetryKeepsRow ==
  ASSUME StoreInv, NEW d \in Docs, InTurn(d), IncrementRetry(d), NEW e \in Docs
  PROVE  /\ sqlite'[e] # None <=> sqlite[e] # None
         /\ sqlite[e] # None => /\ sqlite'[e].id = sqlite[e].id
                                /\ sqlite'[e].payload = sqlite[e].payload
<1>1. d \in Todo /\ sync.batch[d] \in Row
  BY TriedItem DEF StoreInv
<1>2. CASE sqlite[e] # None /\ sqlite[e].id = sync.batch[d].id
  <2>1. sqlite[e] \in Row /\ sqlite[e].retry < MaxRetry
    BY <1>1, <1>2 DEF StoreInv, TypeOK, BatchNamesRows, Row
  <2>2. [sqlite[e] EXCEPT !.retry = sqlite[e].retry + 1] \in Row
    BY <2>1, RowUpdates DEF Row
  <2>3. sqlite'[e] = [sqlite[e] EXCEPT !.retry = sqlite[e].retry + 1]
    BY <1>2 DEF IncrementRetry
  <2>4. sqlite'[e].id = sqlite[e].id /\ sqlite'[e].payload = sqlite[e].payload
    BY <2>1, <2>3, RowUpdates
  <2>5. QED
    BY <1>2, <2>2, <2>3, <2>4, NoneIsNoValue
<1>3. CASE ~(sqlite[e] # None /\ sqlite[e].id = sync.batch[d].id)
  BY <1>3 DEF IncrementRetry
<1>4. QED
  BY <1>2, <1>3

-----------------------------------------------------------------------------
(***************************************************************************)
(* What is added to StoreInv says where a screening may be.                *)
(***************************************************************************)
Places == UploadsAreFresh /\ QueuedAreAcked /\ BatchIsQueued /\ QueuedTwiceOnlyAfterFault

(***************************************************************************)
(* An upload starts under a new document id.                               *)
(***************************************************************************)
LEMMA UploadStartPlaced ==
  ASSUME StoreInv, Places, NEW r \in Requests, NEW d \in Docs, BeginUpload(r, d)
  PROVE  Places'
<1>1. /\ d \notin acked /\ scans[d] = None /\ InFlight(d) = {}
      /\ UNCHANGED <<stores, sync, clients, faults>>
  BY DEF BeginUpload
<1>2. PICK db \in BOOLEAN : Start(r, [op |-> "upload", doc |-> d, db |-> db])
  BY DEF BeginUpload
<1>3. /\ req'[r].op = "upload" /\ req'[r].doc = d /\ req'[r] # Idle
      /\ req[r] = Idle
      /\ \A q \in Requests \ {r} : req'[q] = req[q]
  <2> DEFINE request == [op |-> "upload", doc |-> d, db |-> db]
  <2>1. request.op = "upload" /\ request.doc = d /\ request # Idle
    BY DEF Idle
  <2> HIDE DEF request
  <2>2. Start(r, request)
    BY <1>2 DEF request
  <2>3. QED
    BY <2>1, <2>2 DEF Start, StoreInv, TypeOK
<1>4. UploadsAreFresh'
  <2> SUFFICES ASSUME NEW q \in Requests, req'[q].op = "upload"
               PROVE  /\ req'[q].doc \notin acked'
                      /\ scans'[req'[q].doc] = None
                      /\ \A x \in Requests :
                           (req'[x] # Idle /\ req'[x].doc = req'[q].doc) <=> x = q
    BY DEF UploadsAreFresh, InFlight
  <2>1. CASE q = r
    <3>1. \A x \in Requests \ {r} : ~(req[x] # Idle /\ req[x].doc = d)
      BY <1>1 DEF InFlight
    <3>2. QED
      BY <1>1, <1>3, <2>1, <3>1 DEF stores, clients
  <2>2. CASE q # r
    <3>1. req'[q] = req[q] /\ InFlight(req[q].doc) = {q} /\ req[q] # Idle
      BY <1>3, <2>2 DEF Places, UploadsAreFresh, Idle
    <3>2. req[q].doc # d
      BY <1>1, <3>1 DEF InFlight
    <3>3. \A x \in Requests \ {r} : (req'[x] # Idle /\ req'[x].doc = req'[q].doc) <=> x = q
      BY <1>3, <3>1 DEF InFlight
    <3>4. QED
      BY <1>1, <1>3, <2>2, <3>1, <3>2, <3>3 DEF Places, UploadsAreFresh, stores, clients
  <2>3. QED
    BY <2>1, <2>2
<1>5. QueuedAreAcked'
  BY <1>1, <1>3 DEF Places, QueuedAreAcked, stores, clients
<1>6. BatchIsQueued' /\ QueuedTwiceOnlyAfterFault'
  BY <1>1 DEF Places, BatchIsQueued, QueuedTwiceOnlyAfterFault, Todo, stores, clients
<1>7. QED
  BY <1>4, <1>5, <1>6 DEF Places

(***************************************************************************)
(* The quiet steps other than the start of an upload leave every screening *)
(* in its place.                                                           *)
(***************************************************************************)
LEMMA QuietStepPlaced ==
  ASSUME StoreInv, Places, QuietStep, ~\E r \in Requests, d \in Docs : BeginUpload(r, d)
  PROVE  Places'
<1>1. QueueStands /\ NoNewPlace /\ RequestsGoOn /\ faults' = faults
  <2>1. [Next]_vars
    BY DEF QuietStep, HandlerStep, Next
  <2>2. faults' = faults
    BY DEF QuietStep, HandlerStep, BeginUpload, BeginStage2, BeginDecision, SaveFails, Stage2Done,
           Stage2Commit, DecisionCommit, DecisionAnswer, DecisionOffline, ReadScan, Evict,
           Connectivity, vars
  <2>3. QED
    BY <2>1, <2>2, QuietStepsStand, QuietStepsPlace, NoUploadStarts DEF StoreInv
<1>2. ASSUME NEW r \in Requests, SaveFails(r)
      PROVE  /\ req[r].op = "upload" /\ req[r].doc \notin acked /\ InFlight(req[r].doc) = {r}
             /\ req'[r] = Idle
  BY <1>2 DEF SaveFails, Finish, Places, UploadsAreFresh, StoreInv, TypeOK
<1>3. ASSUME NEW q \in Requests, req'[q].op = "upload"
      PROVE  req[q].doc \notin acked' /\ scans'[req[q].doc] = None
  <2>1. req'[q] # Idle
    BY <1>3 DEF Idle
  <2>2. GoesOn(q)
    BY <1>1, <1>3, <2>1 DEF RequestsGoOn
  <2>3. /\ req[q].op = "upload" /\ req[q].doc \notin acked /\ scans[req[q].doc] = None
        /\ req[q] # Idle
    BY <1>3, <2>2 DEF GoesOn, Places, UploadsAreFresh
  <2>4. req[q].doc \in Docs
    BY <2>3, RequestFields DEF StoreInv, TypeOK
  <2>5. ASSUME NEW r \in Requests, SaveFails(r), req[r].doc = req[q].doc PROVE FALSE
    <3>1. q \in InFlight(req[r].doc)
      BY <2>3, <2>5 DEF InFlight
    <3>2. QED
      BY <1>2, <2>1, <2>5, <3>1
  <2>6. QED
    BY <1>1, <2>3, <2>4, <2>5 DEF QueueStands, NoNewPlace
<1>4. UploadsAreFresh'
      /\ \A q \in Requests : req'[q] # Idle => req'[q].op = "upload" \/ req'[q].doc \in acked'
  BY <1>1, <1>3, UploadsStayFresh DEF Places, StoreInv, QueueStands
<1>5. QueuedAreAcked'
  BY <1>1, <1>4 DEF QueuedAreAcked, Places, QueueStands
<1>6. BatchIsQueued'
  BY <1>1 DEF BatchIsQueued, Places, QueueStands, StoreInv, TypeOK, Todo
<1>7. QueuedTwiceOnlyAfterFault'
  <2> SUFFICES ASSUME faults' = 0, NEW d \in Docs, sqlite'[d] # None, scans'[d] # None
               PROVE  sqlite'[d].id \in sync'.synced
    BY DEF QueuedTwiceOnlyAfterFault
  <2>1. sqlite[d] # None /\ sqlite'[d].id = sqlite[d].id /\ sync' = sync
    BY <1>1 DEF QueueStands
  <2>2. CASE scans[d] # None
    BY <1>1, <2>1, <2>2 DEF Places, QueuedTwiceOnlyAfterFault
  <2>3. ASSUME NEW r \in Requests, SaveFails(r), req[r].doc = d PROVE FALSE
    BY <1>2, <2>1, <2>3 DEF Places, QueuedAreAcked
  <2>4. QED
    BY <1>1, <2>2, <2>3 DEF NoNewPlace
<1>8. QED
  BY <1>4, <1>5, <1>6, <1>7 DEF Places

(***************************************************************************)
(* save_scan acknowledges a document that is in no store and under no      *)
(* other upload.                                                           *)
(***************************************************************************)
LEMMA SavePlaced ==
  ASSUME StoreInv, Places, NEW r \in Requests, SaveOffline(r) \/ SaveOnline(r), RequestsGoOn
  PROVE  Places'
<1> DEFINE d == req[r].doc
<1>1. /\ req[r].op = "upload" /\ acked' = acked \cup {d} /\ faults' = faults
      /\ sync' = sync /\ req'[r] = Idle /\ \A q \in Requests \ {r} : req'[q] = req[q]
  BY DEF SaveOffline, SaveOnline, Finish, StoreInv, TypeOK
<1>2. d \in Docs /\ d \notin acked /\ scans[d] = None /\ InFlight(d) = {r} /\ sqlite[d] = None
  <2>1. d \in Docs
    BY <1>1, RequestFields DEF StoreInv, TypeOK
  <2>2. d \notin acked /\ scans[d] = None /\ InFlight(d) = {r}
    BY <1>1 DEF Places, UploadsAreFresh
  <2>3. QED
    BY <2>1, <2>2 DEF Places, QueuedAreAcked
<1>3. /\ \A e \in Docs \ {d} : scans'[e] = scans[e] /\ sqlite'[e] = sqlite[e]
      /\ scans'[d] = None \/ sqlite'[d] = None
  BY <1>2 DEF SaveOffline, SaveOnline, StoreInv, TypeOK
<1> HIDE DEF d
<1>4. ASSUME NEW q \in Requests, req'[q].op = "upload"
      PROVE  req[q].doc \notin acked' /\ scans'[req[q].doc] = None
  <2>1. q # r /\ req[q].op = "upload" /\ req[q] # Idle
    BY <1>1, <1>4 DEF Idle
  <2>2. req[q].doc \in Docs /\ req[q].doc \notin acked /\ scans[req[q].doc] = None
    BY <2>1, RequestFields DEF Places, UploadsAreFresh, StoreInv, TypeOK
  <2>3. req[q].doc # d
    BY <1>2, <2>1 DEF InFlight
  <2>4. QED
    BY <1>1, <1>3, <2>2, <2>3
<1>5. /\ UploadsAreFresh'
      /\ \A q \in Requests : req'[q] # Idle => req'[q].op = "upload" \/ req'[q].doc \in acked'
  BY <1>1, <1>4, UploadsStayFresh DEF Places, StoreInv
<1>6. QueuedAreAcked'
  BY <1>1, <1>3, <1>5 DEF QueuedAreAcked, Places
<1>7. BatchIsQueued'
  <2>1. \A e \in Todo : e # d /\ e \in Docs
    BY <1>2 DEF Places, BatchIsQueued, StoreInv, TypeOK
  <2>2. QED
    BY <1>1, <1>3, <2>1 DEF BatchIsQueued, Places, Todo
<1>8. QueuedTwiceOnlyAfterFault'
  BY <1>1, <1>2, <1>3 DEF QueuedTwiceOnlyAfterFault, Places
<1>9. QED
  BY <1>5, <1>6, <1>7, <1>8 DEF Places

(***************************************************************************)
(* The loop writes to Supabase what is queued, so acknowledged, and        *)
(* confirms it at once.                                                    *)
(***************************************************************************)
LEMMA SyncItemUploads ==
  ASSUME StoreInv, Places, NEW d \in Todo, UNCHANGED <<req, acked>>,
         \A e \in Docs \ {d} : scans'[e] = scans[e]
  PROVE  UploadsAreFresh'
<1>1. d \in Docs /\ d \in acked
  BY DEF Places, BatchIsQueued, QueuedAreAcked, StoreInv, TypeOK
<1>2. \A q \in Requests : req[q].op = "upload" => req[q].doc \in Docs \ {d}
  <2>1. \A q \in Requests : req[q].op = "upload" => req[q].doc \in Docs
    BY RequestFields DEF StoreInv, TypeOK
  <2>2. \A q \in Requests : req[q].op = "upload" => req[q].doc \notin acked
    BY DEF Places, UploadsAreFresh
  <2>3. QED
    BY <1>1, <2>1, <2>2
<1>3. \A e : InFlight(e)' = InFlight(e)
  BY DEF InFlight
<1>4. QED
  BY <1>2, <1>3 DEF Places, UploadsAreFresh

(***************************************************************************)
(* A committed item is in both stores and its id is among the confirmed.   *)
(***************************************************************************)
LEMMA SyncCommitPlaced ==
  ASSUME StoreInv, Places, NEW d \in Docs, SyncCommit(d)
  PROVE  Places'
<1>1. /\ d \in Todo /\ sync.batch[d] \in Row
      /\ DOMAIN Tried(d) = Todo \ {d}
      /\ \A e \in Todo \ {d} : Tried(d)[e] = sync.batch[e]
  BY TriedItem DEF SyncCommit, StoreInv
<1>2. /\ UNCHANGED <<sqlite, nextId, acked, req, faults>>
      /\ sync'.batch = Tried(d) /\ sync'.running = sync.running /\ sync.running
      /\ sync'.synced = sync.synced \cup {sync.batch[d].id}
      /\ \A e \in Docs \ {d} : scans'[e] = scans[e]
  BY DEF SyncCommit, Upsert, clients, StoreInv, TypeOK
<1>3. UploadsAreFresh'
  BY <1>1, <1>2, SyncItemUploads
<1>4. QueuedAreAcked'
  BY <1>2 DEF QueuedAreAcked, Places
<1>5. \A e \in Todo : sqlite[e] # None /\ sqlite[e].id = sync.batch[e].id /\ e \in Docs
  BY DEF Places, BatchIsQueued, StoreInv, TypeOK
<1>6. BatchIsQueued'
  <2>1. \A e \in Todo \ {d} : sync.batch[e].id \notin sync'.synced
    BY <1>1, <1>2, <1>5 DEF Places, BatchIsQueued, StoreInv, IdsNameRows
  <2>2. QED
    BY <1>1, <1>2, <1>5, <2>1 DEF BatchIsQueued, Todo
<1>7. QueuedTwiceOnlyAfterFault'
  BY <1>1, <1>2, <1>5 DEF QueuedTwiceOnlyAfterFault, Places
<1>8. QED
  BY <1>3, <1>4, <1>6, <1>7 DEF Places

(***************************************************************************)
(* An item that failed stays queued; if it was written all the same, a     *)
(* fault has happened.                                                     *)
(***************************************************************************)
LEMMA SyncFailurePlaced ==
  ASSUME StoreInv, Places, NEW d \in Docs, SyncFail(d) \/ SyncFault(d)
  PROVE  Places'
<1>1. /\ InTurn(d) /\ IncrementRetry(d) /\ d \in Todo
      /\ DOMAIN Tried(d) = Todo \ {d}
      /\ \A e \in Todo \ {d} : Tried(d)[e] = sync.batch[e]
  BY TriedItem DEF SyncFail, SyncFault, StoreInv
<1>2. /\ UNCHANGED <<nextId, acked, req>>
      /\ sync'.batch = Tried(d) /\ sync'.running = sync.running /\ sync'.synced = sync.synced
      /\ sync.running
      /\ \A e \in Docs \ {d} : scans'[e] = scans[e]
      /\ faults' # 0 \/ (UNCHANGED <<scans, faults>>)
  BY BoundsAreNumbers
  DEF SyncFail, SyncFault, IncrementRetry, Upsert, clients, StoreInv, TypeOK
<1>3. \A e \in Docs : /\ sqlite'[e] # None <=> sqlite[e] # None
                      /\ sqlite[e] # None => sqlite'[e].id = sqlite[e].id
  BY <1>1, RetryKeepsRow
<1>4. UploadsAreFresh'
  BY <1>1, <1>2, SyncItemUploads
<1>5. QueuedAreAcked'
  BY <1>2, <1>3 DEF QueuedAreAcked, Places
<1>6. BatchIsQueued'
  <2>1. \A e \in Todo : e \in Docs
    BY DEF StoreInv, TypeOK
  <2>2. QED
    BY <1>1, <1>2, <1>3, <2>1 DEF BatchIsQueued, Places, Todo
<1>7. QueuedTwiceOnlyAfterFault'
  BY <1>2, <1>3 DEF QueuedTwiceOnlyAfterFault, Places
<1>8. QED
  BY <1>4, <1>5, <1>6, <1>7 DEF Places

(***************************************************************************)
(* A round begins with the rows that are queued and ends when the          *)
(* confirmed ones are deleted; a crash forgets which were confirmed, and   *)
(* is a fault.                                                             *)
(***************************************************************************)
LEMMA RoundPlaced ==
  ASSUME StoreInv, Places, SyncStart \/ SyncPurge \/ Crash
  PROVE  Places'
<1>1. CASE SyncStart
  <2>1. /\ UNCHANGED <<scans, sqlite, acked, req, faults>>
        /\ sync'.batch = [e \in Batch |-> sqlite[e]] /\ sync'.synced = {} /\ sync'.running
        /\ sync.synced = {}
    BY <1>1 DEF SyncStart, stores, clients, Places, BatchIsQueued
  <2>2. DOMAIN sync'.batch = Batch /\ \A e \in Batch : e \in Docs /\ sqlite[e] # None
    BY <2>1 DEF Batch, Queued
  <2>3. UploadsAreFresh' /\ QueuedAreAcked' /\ QueuedTwiceOnlyAfterFault'
    BY <2>1 DEF Places, UploadsAreFresh, InFlight, QueuedAreAcked, QueuedTwiceOnlyAfterFault
  <2>4. BatchIsQueued'
    BY <2>1, <2>2 DEF BatchIsQueued, Todo
  <2>5. QED
    BY <2>3, <2>4 DEF Places
<1>2. CASE SyncPurge
  <2>1. /\ UNCHANGED <<scans, acked, req, faults>>
        /\ sync'.batch = sync.batch /\ Todo = {} /\ sync'.synced = {} /\ ~sync'.running
    BY <1>2 DEF SyncPurge, clients, StoreInv, TypeOK
  <2>2. \A e \in Docs : sqlite'[e] # None =>
          sqlite'[e] = sqlite[e] /\ sqlite[e].id \notin sync.synced
    BY <1>2 DEF SyncPurge
  <2>3. UploadsAreFresh' /\ QueuedAreAcked' /\ QueuedTwiceOnlyAfterFault'
    BY <2>1, <2>2 DEF Places, UploadsAreFresh, InFlight, QueuedAreAcked,
                      QueuedTwiceOnlyAfterFault
  <2>4. BatchIsQueued'
    BY <2>1 DEF BatchIsQueued, Todo
  <2>5. QED
    BY <2>3, <2>4 DEF Places
<1>3. CASE Crash
  <2>1. /\ UNCHANGED <<scans, sqlite, acked>>
        /\ sync' = [running |-> FALSE, batch |-> << >>, synced |-> {}]
        /\ req' = [r \in Requests |-> Idle]
        /\ faults' = faults + 1
    BY <1>3 DEF Crash, clients
  <2>2. DOMAIN sync'.batch = {} /\ sync'.synced = {} /\ ~sync'.running
    BY <2>1
  <2>3. faults' # 0
    BY <2>1 DEF StoreInv, TypeOK
  <2>4. UploadsAreFresh' /\ QueuedAreAcked'
    BY <2>1 DEF Places, UploadsAreFresh, QueuedAreAcked, Idle
  <2>5. BatchIsQueued' /\ QueuedTwiceOnlyAfterFault'
    BY <2>2, <2>3 DEF BatchIsQueued, QueuedTwiceOnlyAfterFault, Todo
  <2>6. QED
    BY <2>4, <2>5 DEF Places
<1>4. QED
  BY <1>1, <1>2, <1>3

(***************************************************************************)
(* Every step preserves PlaceInv.                                          *)
(***************************************************************************)
LEMMA NextPlaceInv == PlaceInv /\ [Next]_vars => PlaceInv'
<1> SUFFICES ASSUME PlaceInv, [Next]_vars PROVE PlaceInv'
  OBVIOUS
<1>1. StoreInv /\ Places /\ StoreInv'
  BY NextStoreInv DEF PlaceInv, Places
<1>2. Places'
  <2>1. CASE \E r \in Requests, d \in Docs : BeginUpload(r, d)
    BY <1>1, <2>1, UploadStartPlaced
  <2>2. CASE QuietStep /\ ~\E r \in Requests, d \in Docs : BeginUpload(r, d)
    BY <1>1, <2>2, QuietStepPlaced
  <2>3. CASE (\E r \in Requests : SaveOffline(r) \/ SaveOnline(r))
             /\ ~\E r \in Requests, d \in Docs : BeginUpload(r, d)
    <3>1. RequestsGoOn
      BY <1>1, <2>3, NoUploadStarts DEF StoreInv
    <3>2. QED
      BY <1>1, <2>3, <3>1, SavePlaced
  <2>4. CASE SyncItem
    BY <1>1, <2>4, SyncCommitPlaced, SyncFailurePlaced DEF SyncItem
  <2>5. CASE SyncStart \/ SyncPurge \/ Crash
    BY <1>1, <2>5, RoundPlaced
  <2>6. QED
    BY <2>1, <2>2, <2>3, <2>4, <2>5 DEF Next, QuietStep, HandlerStep
<1>3. QED
  BY <1>1, <1>2 DEF PlaceInv, Places

-----------------------------------------------------------------------------
(***************************************************************************)
(* The counts of a document are numbers.                                   *)
(***************************************************************************)
LEMMA CountsTyped ==
  ASSUME TypeOK, NEW d \in Docs
  PROVE  /\ IsFiniteSet(DecisionsUnderWay(d))
         /\ Cardinality(DecisionsUnderWay(d)) \in Nat
         /\ Len(decisions[d]) \in Nat
         /\ Owed(d) \in {0, 1}
         /\ submitted[d] \in Nat /\ faults \in Nat
<1>1. DecisionsUnderWay(d) \subseteq Requests
  BY DEF DecisionsUnderWay
<1>2. IsFiniteSet(DecisionsUnderWay(d)) /\ Cardinality(DecisionsUnderWay(d)) \in Nat
  BY <1>1, RequestsAreFinite, FS_Subset, FS_CardinalityType
<1>3. Len(decisions[d]) \in Nat
  BY LenProperties DEF TypeOK
<1>4. QED
  BY <1>2, <1>3 DEF TypeOK, Owed

DecisionsSame == \A d \in Docs : DecisionsUnderWay(d)' = DecisionsUnderWay(d)

OwesNoMore(d) ==
  (sqlite'[d] # None /\ sqlite'[d].payload.verdict # None /\ sqlite'[d].id \notin sync'.synced)
    => (sqlite[d] # None /\ sqlite[d].payload.verdict # None /\ sqlite[d].id \notin sync.synced)

(***************************************************************************)
(* What neither records, submits nor queues a decision keeps the account.  *)
(***************************************************************************)
LEMMA AccountKept ==
  ASSUME TypeOK, DecisionsAccountedFor, DecisionsSame,
         UNCHANGED <<decisions, submitted, faults>>,
         \A d \in Docs : OwesNoMore(d)
  PROVE  DecisionsAccountedFor'
<1> SUFFICES ASSUME NEW d \in Docs
             PROVE  Len(decisions[d]) + Owed(d)' + Cardinality(DecisionsUnderWay(d)')
                      <= submitted[d] + faults
  BY DEF DecisionsAccountedFor
<1>1. DecisionsUnderWay(d)' = DecisionsUnderWay(d)
  BY DEF DecisionsSame
<1>2. Owed(d)' \in {0, 1} /\ Owed(d)' <= Owed(d)
  BY DEF Owed, OwesNoMore
<1>3. Len(decisions[d]) + Owed(d) + Cardinality(DecisionsUnderWay(d)) <= submitted[d] + faults
  BY DEF DecisionsAccountedFor
<1> DEFINE l == Len(decisions[d])
           u == Cardinality(DecisionsUnderWay(d))
           o == Owed(d)
           o1 == Owed(d)'
           s == submitted[d]
<1>4. l \in Nat /\ u \in Nat /\ o \in {0, 1} /\ s \in Nat /\ faults \in Nat
  BY CountsTyped
<1>5. o1 \in {0, 1} /\ o1 <= o /\ l + o + u <= s + faults
  BY <1>2, <1>3
<1>6. Cardinality(DecisionsUnderWay(d)') = u
  BY <1>1
<1> HIDE DEF l, u, o, o1, s
<1>7. l + o1 + u <= s + faults
  BY <1>4, <1>5
<1>8. QED
  BY <1>6, <1>7 DEF l, u, o1, s

(***************************************************************************)
(* Requests that are no decisions do not matter.                           *)
(***************************************************************************)
LEMMA OthersAreNoDecisions ==
  ASSUME TypeOK, NEW r \in Requests, \A q \in Requests \ {r} : req'[q] = req[q],
         req[r].op # "decision", req'[r].op # "decision"
  PROVE  DecisionsSame
BY DEF DecisionsSame, DecisionsUnderWay

(***************************************************************************)
(* Only begin-decision, its commit and its offline path change which       *)
(* decisions are under way.                                                *)
(***************************************************************************)
LEMMA NoDecisionMoves ==
  ASSUME TypeOK, NEW r \in Requests,
         \/ \E d \in Docs : BeginUpload(r, d) \/ BeginStage2(r, d)
         \/ SaveOffline(r) \/ SaveOnline(r) \/ SaveFails(r)
         \/ Stage2Done(r) \/ Stage2Commit(r) \/ DecisionAnswer(r)
  PROVE  DecisionsSame
<1>1. ASSUME NEW request, Start(r, request), request.op # "decision" PROVE DecisionsSame
  <2>1. req'[r] = request /\ req[r] = Idle /\ \A q \in Requests \ {r} : req'[q] = req[q]
    BY <1>1 DEF Start, TypeOK
  <2>2. req[r].op # "decision" /\ req'[r].op # "decision"
    BY <1>1, <2>1 DEF Idle
  <2>3. QED
    BY <2>1, <2>2, OthersAreNoDecisions
<1>2. ASSUME NEW d \in Docs, BeginUpload(r, d) PROVE DecisionsSame
  <2>1. PICK db \in BOOLEAN : Start(r, [op |-> "upload", doc |-> d, db |-> db])
    BY <1>2 DEF BeginUpload
  <2> DEFINE request == [op |-> "upload", doc |-> d, db |-> db]
  <2>2. request.op # "decision"
    OBVIOUS
  <2> HIDE DEF request
  <2>3. Start(r, request)
    BY <2>1 DEF request
  <2>4. QED
    BY <1>1, <2>2, <2>3
<1>3. ASSUME NEW d \in Docs, BeginStage2(r, d) PROVE DecisionsSame
  <2>1. PICK db \in BOOLEAN : Start(r, [op |-> "stage2", doc |-> d, db |-> db])
    BY <1>3 DEF BeginStage2
  <2> DEFINE request == [op |-> "stage2", doc |-> d, db |-> db]
  <2>2. request.op # "decision"
    OBVIOUS
  <2> HIDE DEF request
  <2>3. Start(r, request)
    BY <2>1 DEF request
  <2>4. QED
    BY <1>1, <2>2, <2>3
<1>4. ASSUME Finish(r), req[r].op # "decision" PROVE DecisionsSame
  <2>1. req'[r].op # "decision" /\ \A q \in Requests \ {r} : req'[q] = req[q]
    BY <1>4 DEF Finish, Idle, TypeOK
  <2>2. QED
    BY <1>4, <2>1, OthersAreNoDecisions
<1>5. CASE SaveOffline(r) \/ SaveOnline(r) \/ SaveFails(r) \/ Stage2Commit(r) \/ DecisionAnswer(r)
  <2>1. Finish(r) /\ req[r].op # "decision"
    BY <1>5 DEF SaveOffline, SaveOnline, SaveFails, Stage2Commit, DecisionAnswer, AnswerDecision
  <2>2. QED
    BY <1>4, <2>1
<1>6. CASE Stage2Done(r)
  <2>1. req[r].op = "stage2" /\ (Becomes(r, "stage2Commit") \/ Finish(r))
    BY <1>6 DEF Stage2Done
  <2>2. CASE Becomes(r, "stage2Commit")
    <3>1. req'[r].op = "stage2Commit" /\ \A q \in Requests \ {r} : req'[q] = req[q]
      BY <2>1, <2>2, BecomesFields
    <3>2. QED
      BY <2>1, <3>1, OthersAreNoDecisions
  <2>3. QED
    BY <1>4, <2>1, <2>2
<1>7. QED
  BY <1>2, <1>3, <1>5, <1>6

(***************************************************************************)
(* A decision that is submitted is under way; one that is written or       *)
(* queued is so no longer.                                                 *)
(***************************************************************************)
LEMMA DecisionStarts ==
  ASSUME TypeOK, NEW r \in Requests, NEW d \in Docs, NEW v \in Verdicts, BeginDecision(r, d, v)
  PROVE  /\ \A e \in Docs \ {d} : DecisionsUnderWay(e)' = DecisionsUnderWay(e)
         /\ Cardinality(DecisionsUnderWay(d)') = Cardinality(DecisionsUnderWay(d)) + 1
<1>1. PICK db \in BOOLEAN :
        Start(r, [op |-> "decision", doc |-> d, db |-> db, verdict |-> v])
  BY DEF BeginDecision
<1> DEFINE request == [op |-> "decision", doc |-> d, db |-> db, verdict |-> v]
<1>2. request.op = "decision" /\ request.doc = d
  OBVIOUS
<1> HIDE DEF request
<1>3. Start(r, request)
  BY <1>1 DEF request
<1>4. /\ req'[r].op = "decision" /\ req'[r].doc = d /\ req[r].op # "decision"
      /\ \A q \in Requests \ {r} : req'[q] = req[q]
  BY <1>2, <1>3 DEF Start, Idle, TypeOK
<1>5. /\ DecisionsUnderWay(d)' = DecisionsUnderWay(d) \cup {r}
      /\ r \notin DecisionsUnderWay(d)
      /\ \A e \in Docs \ {d} : DecisionsUnderWay(e)' = DecisionsUnderWay(e)
  BY <1>4 DEF DecisionsUnderWay
<1>6. QED
  BY <1>5, CountsTyped, FS_AddElement

(***************************************************************************)
(* The commit and the offline path of a decision end it: it is no longer   *)
(* under way.                                                              *)
(***************************************************************************)
LEMMA DecisionEnds ==
  ASSUME TypeOK, NEW r \in Requests, DecisionCommit(r) \/ DecisionOffline(r),
         NEW d \in Docs, req[r].doc = d
  PROVE  /\ \A e \in Docs \ {d} : DecisionsUnderWay(e)' = DecisionsUnderWay(e)
         /\ Cardinality(DecisionsUnderWay(d)') = Cardinality(DecisionsUnderWay(d)) - 1
<1>1. req[r].op = "decision" /\ (Becomes(r, "decisionAnswer") \/ Finish(r))
  BY DEF DecisionCommit, DecisionOffline, AnswerDecision
<1>2. req'[r].op # "decision" /\ \A q \in Requests \ {r} : req'[q] = req[q]
  <2>1. CASE Becomes(r, "decisionAnswer")
    BY <1>1, <2>1, BecomesFields
  <2>2. CASE Finish(r)
    BY <2>2 DEF Finish, Idle, TypeOK
  <2>3. QED
    BY <1>1, <2>1, <2>2
<1>3. /\ DecisionsUnderWay(d)' = DecisionsUnderWay(d) \ {r}
      /\ r \in DecisionsUnderWay(d)
      /\ \A e \in Docs \ {d} : DecisionsUnderWay(e)' = DecisionsUnderWay(e)
  BY <1>1, <1>2 DEF DecisionsUnderWay
<1>4. QED
  BY <1>3, CountsTyped, FS_RemoveElement

-----------------------------------------------------------------------------
(***************************************************************************)
(* A decision submitted is one more under way and one more submitted.      *)
(***************************************************************************)
LEMMA DecisionSubmitted ==
  ASSUME TypeOK, DecisionsAccountedFor, NEW r \in Requests, NEW d \in Docs, NEW v \in Verdicts,
         BeginDecision(r, d, v)
  PROVE  DecisionsAccountedFor'
<1>1. /\ UNCHANGED <<decisions, sqlite, sync, faults>>
      /\ submitted'[d] = submitted[d] + 1
      /\ \A e \in Docs \ {d} : submitted'[e] = submitted[e]
  BY DEF BeginDecision, TypeOK
<1>2. \A e \in Docs : Owed(e)' = Owed(e)
  BY <1>1 DEF Owed
<1>3. /\ \A e \in Docs \ {d} : DecisionsUnderWay(e)' = DecisionsUnderWay(e)
      /\ Cardinality(DecisionsUnderWay(d)') = Cardinality(DecisionsUnderWay(d)) + 1
  BY DecisionStarts
<1>4. ASSUME NEW e \in Docs
      PROVE  Len(decisions'[e]) + Owed(e)' + Cardinality(DecisionsUnderWay(e)')
               <= submitted'[e] + faults'
  <2> DEFINE l == Len(decisions[e])
             u == Cardinality(DecisionsUnderWay(e))
             u1 == Cardinality(DecisionsUnderWay(e)')
             o == Owed(e)
             s == submitted[e]
             s1 == submitted'[e]
  <2>1. /\ l \in Nat /\ u \in Nat /\ o \in {0, 1} /\ s \in Nat /\ faults \in Nat
        /\ l + o + u <= s + faults
    BY CountsTyped DEF DecisionsAccountedFor
  <2>2. (u1 = u + 1 /\ s1 = s + 1) \/ (u1 = u /\ s1 = s)
    BY <1>1, <1>3
  <2> HIDE DEF l, u, u1, o, s, s1
  <2>3. l + o + u1 <= s1 + faults
    BY <2>1, <2>2
  <2>4. QED
    BY <1>1, <1>2, <2>3 DEF l, o, u1, s1
<1>5. QED
  BY <1>4 DEF DecisionsAccountedFor

(***************************************************************************)
(* A decision under way becomes a row, or a verdict in the queue, or (its  *)
(* commit failing) neither.                                                *)
(***************************************************************************)
LEMMA DecisionSettled ==
  ASSUME TypeOK, DecisionsAccountedFor, NEW r \in Requests, DecisionCommit(r) \/ DecisionOffline(r)
  PROVE  DecisionsAccountedFor'
<1>1. PICK d \in Docs : req[r].doc = d
  BY RequestFields DEF DecisionCommit, DecisionOffline, TypeOK
<1>2. UNCHANGED <<submitted, sync, faults>>
  BY DEF DecisionCommit, DecisionOffline, clients
<1>3. /\ \A e \in Docs \ {d} : DecisionsUnderWay(e)' = DecisionsUnderWay(e)
      /\ Cardinality(DecisionsUnderWay(d)') = Cardinality(DecisionsUnderWay(d)) - 1
  BY <1>1, DecisionEnds
<1>4. \A e \in Docs \ {d} : decisions'[e] = decisions[e] /\ sqlite'[e] = sqlite[e]
  BY <1>1 DEF DecisionCommit, DecisionOffline, TypeOK
<1>5. \/ Len(decisions'[d]) = Len(decisions[d]) + 1 /\ Owed(d)' = Owed(d)
      \/ decisions'[d] = decisions[d] /\ Owed(d)' \in {0, 1}
  <2>1. CASE DecisionCommit(r)
    <3>1. decisions[d] \in Seq(Verdicts) /\ req[r].verdict \in Verdicts
      BY <2>1, RequestFields DEF DecisionCommit, TypeOK
    <3>2. Len(Append(decisions[d], req[r].verdict)) = Len(decisions[d]) + 1
      BY <3>1, AppendProperties
    <3>3. decisions'[d] = Append(decisions[d], req[r].verdict) \/ decisions'[d] = decisions[d]
      BY <1>1, <2>1 DEF DecisionCommit, TypeOK
    <3>4. Owed(d)' = Owed(d) /\ Owed(d)' \in {0, 1}
      BY <2>1 DEF DecisionCommit, Owed
    <3>5. QED
      BY <3>2, <3>3, <3>4
  <2>2. CASE DecisionOffline(r)
    BY <2>2 DEF DecisionOffline, Owed
  <2>3. QED
    BY <2>1, <2>2
<1>6. ASSUME NEW e \in Docs
      PROVE  Len(decisions'[e]) + Owed(e)' + Cardinality(DecisionsUnderWay(e)')
               <= submitted'[e] + faults'
  <2> DEFINE l == Len(decisions[e])
             l1 == Len(decisions'[e])
             u == Cardinality(DecisionsUnderWay(e))
             u1 == Cardinality(DecisionsUnderWay(e)')
             o == Owed(e)
             o1 == Owed(e)'
             s == submitted[e]
  <2>1. /\ l \in Nat /\ u \in Nat /\ o \in {0, 1} /\ s \in Nat /\ faults \in Nat
        /\ l + o + u <= s + faults
    BY CountsTyped DEF DecisionsAccountedFor
  <2>2. \/ u1 = u - 1 /\ l1 = l + 1 /\ o1 = o
        \/ u1 = u - 1 /\ l1 = l /\ o1 \in {0, 1}
        \/ u1 = u /\ l1 = l /\ o1 = o
    <3>1. CASE e = d
      BY <1>3, <1>5, <3>1
    <3>2. CASE e # d
      BY <1>2, <1>3, <1>4, <3>2 DEF Owed
    <3>3. QED
      BY <3>1, <3>2
  <2> HIDE DEF l, l1, u, u1, o, o1, s
  <2>3. l1 + o1 + u1 <= s + faults
    BY <2>1, <2>2
  <2>4. QED
    BY <1>2, <2>3 DEF l1, o1, u1, s
<1>7. QED
  BY <1>6 DEF DecisionsAccountedFor

-----------------------------------------------------------------------------
(***************************************************************************)
(* The steps outside the decision handler move no decision: Stage 2 keeps  *)
(* the verdict of the queued row, save_scan queues a row without one.      *)
(***************************************************************************)
LEMMA OthersKeepAccount ==
  ASSUME StoreInv, DecisionsAccountedFor,
         \/ \E r \in Requests :
              \/ \E d \in Docs : BeginUpload(r, d) \/ BeginStage2(r, d)
              \/ SaveOffline(r) \/ SaveOnline(r) \/ SaveFails(r)
              \/ Stage2Done(r) \/ Stage2Commit(r) \/ DecisionAnswer(r)
         \/ \E d \in Docs : ReadScan(d) \/ Evict(d)
         \/ Connectivity
         \/ UNCHANGED vars
  PROVE  DecisionsAccountedFor'
<1> USE DEF stores, clients
<1>1. ASSUME UNCHANGED <<decisions, submitted, faults, sqlite, sync>>, DecisionsSame
      PROVE  DecisionsAccountedFor'
  BY <1>1, AccountKept DEF OwesNoMore, StoreInv
<1>2. CASE (\E d \in Docs : ReadScan(d) \/ Evict(d)) \/ Connectivity \/ UNCHANGED vars
  <2>1. UNCHANGED <<decisions, submitted, faults, sqlite, sync, req>>
    BY <1>2 DEF ReadScan, Evict, Connectivity, vars
  <2>2. DecisionsSame
    BY <2>1 DEF DecisionsSame, DecisionsUnderWay
  <2>3. QED
    BY <1>1, <2>1, <2>2
<1>3. ASSUME NEW r \in Requests,
             \/ \E d \in Docs : BeginUpload(r, d) \/ BeginStage2(r, d)
             \/ SaveOnline(r) \/ SaveFails(r) \/ Stage2Commit(r) \/ DecisionAnswer(r)
      PROVE  DecisionsAccountedFor'
  <2>1. UNCHANGED <<decisions, submitted, faults, sqlite, sync>>
    BY <1>3 DEF BeginUpload, BeginStage2, SaveOnline, SaveFails, Stage2Commit, DecisionAnswer
  <2>2. DecisionsSame
    BY <1>3, NoDecisionMoves DEF StoreInv
  <2>3. QED
    BY <1>1, <2>1, <2>2
<1>4. ASSUME NEW r \in Requests, SaveOffline(r) \/ Stage2Done(r)
      PROVE  DecisionsAccountedFor'
  <2>1. UNCHANGED <<decisions, submitted, faults, sync>>
    BY <1>4 DEF SaveOffline, Stage2Done
  <2>2. DecisionsSame
    BY <1>4, NoDecisionMoves DEF StoreInv
  <2>3. ASSUME NEW e \in Docs PROVE OwesNoMore(e)
    <3>1. CASE SaveOffline(r)
      <4>1. \/ sqlite'[e] = sqlite[e]
            \/ sqlite'[e].payload.verdict = None
        BY <3>1 DEF SaveOffline, StoreInv, TypeOK
      <4>2. QED
        BY <2>1, <4>1 DEF OwesNoMore
    <3>2. CASE Stage2Done(r)
      <4>1. sqlite' = sqlite \/
              \E s \in Stage2Status : sqlite[req[r].doc] # None /\
                sqlite' = [sqlite EXCEPT ![req[r].doc].payload = WithStage2(@, s)]
        BY <3>2 DEF Stage2Done
      <4>2. CASE sqlite' = sqlite
        BY <2>1, <4>2 DEF OwesNoMore
      <4>3. ASSUME NEW s \in Stage2Status, sqlite[req[r].doc] # None,
                   sqlite' = [sqlite EXCEPT ![req[r].doc].payload = WithStage2(@, s)]
            PROVE  OwesNoMore(e)
        <5>1. CASE e # req[r].doc
          <6>1. sqlite'[e] = sqlite[e]
            BY <4>3, <5>1 DEF StoreInv, TypeOK
          <6>2. QED
            BY <2>1, <6>1 DEF OwesNoMore
        <5>2. CASE e = req[r].doc
          <6>1. sqlite[e] \in Row
            BY <4>3, <5>2 DEF StoreInv, TypeOK
          <6>2. sqlite'[e] = [sqlite[e] EXCEPT !.payload = WithStage2(sqlite[e].payload, s)]
            BY <4>3, <5>2 DEF StoreInv, TypeOK
          <6>3. /\ sqlite'[e].id = sqlite[e].id
                /\ sqlite'[e].payload.verdict = sqlite[e].payload.verdict
            BY <6>1, <6>2 DEF Row, WithStage2
          <6>4. QED
            BY <2>1, <4>3, <5>2, <6>3 DEF OwesNoMore
        <5>3. QED
          BY <5>1, <5>2
      <4>4. QED
        BY <4>1, <4>2, <4>3
    <3>3. QED
      BY <1>4, <3>1, <3>2
  <2>4. QED
    BY <2>1, <2>2, <2>3, AccountKept DEF StoreInv
<1>5. QED
  BY <1>2, <1>3, <1>4

(***************************************************************************)
(* A step that writes at most what was owed keeps the account, and so does *)
(* one that is a fault and writes, or comes to owe, one row more.          *)
(***************************************************************************)
LEMMA AccountBalanced ==
  ASSUME TypeOK, TypeOK', DecisionsAccountedFor, UNCHANGED submitted,
         NEW extra \in {0, 1}, faults' = faults + extra,
         \A d \in Docs :
           /\ Len(decisions'[d]) + Owed(d)' <= Len(decisions[d]) + Owed(d) + extra
           /\ Cardinality(DecisionsUnderWay(d)') <= Cardinality(DecisionsUnderWay(d))
  PROVE  DecisionsAccountedFor'
<1> SUFFICES ASSUME NEW d \in Docs
             PROVE  Len(decisions'[d]) + Owed(d)' + Cardinality(DecisionsUnderWay(d)')
                      <= submitted'[d] + faults'
  BY DEF DecisionsAccountedFor
<1> DEFINE l == Len(decisions[d])
           l1 == Len(decisions'[d])
           u == Cardinality(DecisionsUnderWay(d))
           u1 == Cardinality(DecisionsUnderWay(d)')
           o == Owed(d)
           o1 == Owed(d)'
           s == submitted[d]
<1>1. /\ l \in Nat /\ u \in Nat /\ o \in {0, 1} /\ s \in Nat /\ faults \in Nat
      /\ l + o + u <= s + faults
  BY CountsTyped DEF DecisionsAccountedFor
<1>2. l1 \in Nat /\ o1 \in {0, 1} /\ u1 \in Nat
  <2>1. decisions'[d] \in Seq(Verdicts)
    BY DEF TypeOK
  <2>2. DecisionsUnderWay(d)' \subseteq Requests
    BY DEF DecisionsUnderWay
  <2>3. u1 \in Nat
    BY <2>2, RequestsAreFinite, FS_Subset, FS_CardinalityType
  <2>4. QED
    BY <2>1, <2>3, LenProperties DEF Owed
<1>3. l1 + o1 <= l + o + extra /\ u1 <= u
  OBVIOUS
<1>4. submitted'[d] = s /\ faults' = faults + extra
  OBVIOUS
<1> HIDE DEF l, l1, u, u1, o, o1, s
<1>5. l1 + o1 + u1 <= s + (faults + extra)
  BY <1>1, <1>2, <1>3
<1>6. QED
  BY <1>4, <1>5 DEF l1, u1, o1

-----------------------------------------------------------------------------
(***************************************************************************)
(* One item's transaction writes one verdict at most, and only of an item  *)
(* whose queued row owes one.                                              *)
(***************************************************************************)
LEMMA UpsertWritesOne ==
  ASSUME StoreInv, Places, BatchVerdictsAreQueued, NEW d \in Docs, InTurn(d), Upsert(d)
  PROVE  /\ \A e \in Docs \ {d} : decisions'[e] = decisions[e]
         /\ \/ decisions'[d] = decisions[d]
            \/ Len(decisions'[d]) = Len(decisions[d]) + 1 /\ Owed(d) = 1
<1>1. d \in Todo /\ sync.batch[d] \in Row
  BY TriedItem DEF StoreInv
<1>2. \A e \in Docs \ {d} : decisions'[e] = decisions[e]
  BY DEF Upsert, StoreInv, TypeOK
<1>3. CASE sync.batch[d].payload.verdict = None
  BY <1>2, <1>3 DEF Upsert
<1>4. CASE sync.batch[d].payload.verdict # None
  <2> DEFINE v == sync.batch[d].payload.verdict
  <2>1. v \in Verdicts /\ decisions[d] \in Seq(Verdicts)
    BY <1>1, <1>4 DEF Row, Payload, StoreInv, TypeOK
  <2>2. decisions'[d] = Append(decisions[d], v)
    BY <1>4 DEF Upsert, StoreInv, TypeOK
  <2>3. Len(decisions'[d]) = Len(decisions[d]) + 1
    BY <2>1, <2>2, AppendProperties
  <2>4. Owed(d) = 1
    BY <1>1, <1>4 DEF Owed, BatchVerdictsAreQueued, Places, BatchIsQueued
  <2>5. QED
    BY <1>2, <2>3, <2>4
<1>5. QED
  BY <1>3, <1>4

(***************************************************************************)
(* A confirmed item is owed nothing more; one that fails is owed what it   *)
(* was, and may have been written: that is the fault.                      *)
(***************************************************************************)
LEMMA SyncItemAccounted ==
  ASSUME StoreInv, StoreInv', Places, BatchVerdictsAreQueued, DecisionsAccountedFor, SyncItem
  PROVE  DecisionsAccountedFor'
<1>1. UNCHANGED <<submitted, req>>
  BY DEF SyncItem, SyncCommit, SyncFail, SyncFault, stores, clients
<1>2. \A e \in Docs :
        Cardinality(DecisionsUnderWay(e)') <= Cardinality(DecisionsUnderWay(e))
  <2> SUFFICES ASSUME NEW e \in Docs
               PROVE  Cardinality(DecisionsUnderWay(e)') <= Cardinality(DecisionsUnderWay(e))
    OBVIOUS
  <2>1. DecisionsUnderWay(e)' = DecisionsUnderWay(e)
    BY <1>1 DEF DecisionsUnderWay
  <2>2. QED
    BY <2>1, CountsTyped DEF StoreInv
<1>3. \A e \in Docs : Len(decisions[e]) \in Nat /\ Owed(e) \in {0, 1}
  BY CountsTyped DEF StoreInv
<1>4. ASSUME NEW d \in Docs, SyncCommit(d) PROVE DecisionsAccountedFor'
  <2>1. InTurn(d) /\ Upsert(d) /\ UNCHANGED <<sqlite, faults>>
    BY <1>4 DEF SyncCommit
  <2>2. /\ sync'.synced = sync.synced \cup {sync.batch[d].id}
        /\ d \in Todo /\ sqlite[d].id = sync.batch[d].id
    BY <1>4, <2>1, TriedItem DEF SyncCommit, StoreInv, TypeOK, Places, BatchIsQueued
  <2>3. Owed(d)' = 0 /\ \A e \in Docs : Owed(e)' \in {0, 1} /\ Owed(e)' <= Owed(e)
    BY <2>1, <2>2 DEF Owed
  <2>4. ASSUME NEW e \in Docs
        PROVE  Len(decisions'[e]) + Owed(e)' <= Len(decisions[e]) + Owed(e) + 0
    <3>1. \/ decisions'[e] = decisions[e]
          \/ e = d /\ Len(decisions'[d]) = Len(decisions[d]) + 1 /\ Owed(d) = 1
      BY <2>1, UpsertWritesOne
    <3>2. CASE decisions'[e] = decisions[e]
      BY <1>3, <2>3, <3>2
    <3>3. CASE e = d /\ Len(decisions'[d]) = Len(decisions[d]) + 1 /\ Owed(d) = 1
      BY <1>3, <2>3, <3>3
    <3>4. QED
      BY <3>1, <3>2, <3>3
  <2>5. faults' = faults + 0
    BY <2>1 DEF StoreInv, TypeOK
  <2>6. QED
    BY <1>1, <1>2, <2>4, <2>5, AccountBalanced DEF StoreInv
<1>5. ASSUME NEW d \in Docs, SyncFail(d) \/ SyncFault(d) PROVE DecisionsAccountedFor'
  <2>1. InTurn(d) /\ IncrementRetry(d) /\ sync'.synced = sync.synced
    BY <1>5 DEF SyncFail, SyncFault, IncrementRetry, StoreInv, TypeOK
  <2>2. \A e \in Docs : Owed(e)' = Owed(e)
    <3> SUFFICES ASSUME NEW e \in Docs PROVE Owed(e)' = Owed(e)
      OBVIOUS
    <3>1. /\ sqlite'[e] # None <=> sqlite[e] # None
          /\ sqlite[e] # None => /\ sqlite'[e].id = sqlite[e].id
                                 /\ sqlite'[e].payload = sqlite[e].payload
      BY <2>1, RetryKeepsRow
    <3>2. QED
      BY <2>1, <3>1 DEF Owed
  <2>3. CASE SyncFail(d)
    <3>1. UNCHANGED <<decisions, faults>>
      BY <2>3 DEF SyncFail
    <3>2. \A e \in Docs : Len(decisions'[e]) + Owed(e)' <= Len(decisions[e]) + Owed(e) + 0
      BY <1>3, <2>2, <3>1
    <3>3. faults' = faults + 0
      BY <3>1 DEF StoreInv, TypeOK
    <3>4. QED
      BY <1>1, <1>2, <3>2, <3>3, AccountBalanced DEF StoreInv
  <2>4. CASE SyncFault(d)
    <3>1. faults' = faults + 1 /\ (Upsert(d) \/ decisions' = decisions)
      BY <2>4 DEF SyncFault
    <3>2. ASSUME NEW e \in Docs
          PROVE  Len(decisions'[e]) + Owed(e)' <= Len(decisions[e]) + Owed(e) + 1
      <4>1. \/ decisions'[e] = decisions[e]
            \/ e = d /\ Len(decisions'[d]) = Len(decisions[d]) + 1
        BY <2>1, <3>1, UpsertWritesOne
      <4>2. CASE decisions'[e] = decisions[e]
        BY <1>3, <2>2, <4>2
      <4>3. CASE e = d /\ Len(decisions'[d]) = Len(decisions[d]) + 1
        BY <1>3, <2>2, <4>3
      <4>4. QED
        BY <4>1, <4>2, <4>3
    <3>3. QED
      BY <1>1, <1>2, <3>1, <3>2, AccountBalanced DEF StoreInv
  <2>5. QED
    BY <1>5, <2>3, <2>4
<1>6. QED
  BY <1>4, <1>5 DEF SyncItem

(***************************************************************************)
(* A round starts with no confirmed id and ends by deleting the confirmed  *)
(* rows; a crash forgets the confirmed ids, so that a row already written  *)
(* may be written again: one more per document, and one fault.             *)
(***************************************************************************)
LEMMA RoundAccounted ==
  ASSUME StoreInv, StoreInv', Places, DecisionsAccountedFor, SyncStart \/ SyncPurge \/ Crash
  PROVE  DecisionsAccountedFor'
<1>1. CASE SyncStart \/ SyncPurge
  <2>1. UNCHANGED <<decisions, submitted, faults, req>>
    BY <1>1 DEF SyncStart, SyncPurge, stores, clients
  <2>2. DecisionsSame
    BY <2>1 DEF DecisionsSame, DecisionsUnderWay
  <2>3. ASSUME NEW e \in Docs PROVE OwesNoMore(e)
    <3>1. CASE SyncStart
      <4>1. sync.synced = {} /\ sqlite' = sqlite
        BY <3>1 DEF SyncStart, stores, Places, BatchIsQueued
      <4>2. QED
        BY <4>1 DEF OwesNoMore
    <3>2. CASE SyncPurge
      <4>1. sqlite'[e] # None => sqlite'[e] = sqlite[e] /\ sqlite[e].id \notin sync.synced
        BY <3>2 DEF SyncPurge
      <4>2. QED
        BY <4>1 DEF OwesNoMore
    <3>3. QED
      BY <1>1, <3>1, <3>2
  <2>4. QED
    BY <2>1, <2>2, <2>3, AccountKept DEF StoreInv
<1>2. CASE Crash
  <2>1. /\ UNCHANGED <<decisions, submitted>> /\ faults' = faults + 1
        /\ req' = [r \in Requests |-> Idle]
    BY <1>2 DEF Crash, clients
  <2>2. ASSUME NEW e \in Docs
        PROVE  /\ Len(decisions'[e]) + Owed(e)' <= Len(decisions[e]) + Owed(e) + 1
               /\ Cardinality(DecisionsUnderWay(e)') <= Cardinality(DecisionsUnderWay(e))
    <3>1. Len(decisions[e]) \in Nat /\ Owed(e) \in {0, 1} /\ Owed(e)' \in {0, 1}
          /\ Cardinality(DecisionsUnderWay(e)) \in Nat
      BY CountsTyped DEF StoreInv, Owed
    <3>2. DecisionsUnderWay(e)' = {}
      BY <2>1 DEF DecisionsUnderWay, Idle
    <3>3. Cardinality(DecisionsUnderWay(e)') = 0
      BY <3>2, FS_EmptySet
    <3>4. QED
      BY <2>1, <3>1, <3>3
  <2>3. QED
    BY <2>1, <2>2, AccountBalanced DEF StoreInv
<1>3. QED
  BY <1>1, <1>2

-----------------------------------------------------------------------------
(***************************************************************************)
(* No handler takes a verdict out of a queued row.                         *)
(***************************************************************************)
LEMMA QuietVerdictsStay ==
  ASSUME StoreInv, QuietStep
  PROVE  VerdictsStay
<1>1. ASSUME sqlite' = sqlite PROVE VerdictsStay
  BY <1>1 DEF VerdictsStay
<1>2. ASSUME NEW r \in Requests, Stage2Done(r) PROVE VerdictsStay
  <2> SUFFICES ASSUME NEW e \in Docs, sqlite[e] # None, sqlite[e].payload.verdict # None
               PROVE  sqlite'[e].payload.verdict # None
    BY DEF VerdictsStay
  <2>1. \/ sqlite' = sqlite
        \/ \E s \in Stage2Status :
             sqlite' = [sqlite EXCEPT ![req[r].doc].payload = WithStage2(@, s)]
    BY <1>2 DEF Stage2Done
  <2>2. sqlite[e] \in Row
    BY DEF StoreInv, TypeOK
  <2>3. ASSUME NEW s \in Stage2Status,
               sqlite' = [sqlite EXCEPT ![req[r].doc].payload = WithStage2(@, s)]
        PROVE  sqlite'[e].payload.verdict # None
    <3>1. CASE e # req[r].doc
      <4>1. sqlite'[e] = sqlite[e]
        BY <2>3, <3>1 DEF StoreInv, TypeOK
      <4>2. QED
        BY <4>1
    <3>2. CASE e = req[r].doc
      <4>1. sqlite'[e] = [sqlite[e] EXCEPT !.payload = WithStage2(sqlite[e].payload, s)]
        BY <2>3, <3>2 DEF StoreInv, TypeOK
      <4>2. sqlite'[e].payload = WithStage2(sqlite[e].payload, s)
        BY <2>2, <4>1 DEF Row
      <4>3. QED
        BY <4>2 DEF WithStage2
    <3>3. QED
      BY <3>1, <3>2
  <2>4. QED
    BY <2>1, <2>3
<1>3. ASSUME NEW r \in Requests, DecisionOffline(r) PROVE VerdictsStay
  <2> SUFFICES ASSUME NEW e \in Docs, sqlite[e] # None, sqlite[e].payload.verdict # None
               PROVE  sqlite'[e].payload.verdict # None
    BY DEF VerdictsStay
  <2>1. req[r].verdict \in Verdicts
    BY <1>3, RequestFields DEF DecisionOffline, StoreInv, TypeOK
  <2>2. \/ sqlite' = sqlite
        \/ sqlite' = [sqlite EXCEPT ![req[r].doc].payload = WithVerdict(@, req[r].verdict)]
    BY <1>3 DEF DecisionOffline
  <2>3. sqlite[e] \in Row
    BY DEF StoreInv, TypeOK
  <2>4. CASE sqlite' = sqlite \/ e # req[r].doc
    <3>1. sqlite'[e] = sqlite[e]
      BY <2>2, <2>4 DEF StoreInv, TypeOK
    <3>2. QED
      BY <3>1
  <2>5. CASE sqlite' # sqlite /\ e = req[r].doc
    <3>1. sqlite'[e] = [sqlite[e] EXCEPT !.payload =
                          WithVerdict(sqlite[e].payload, req[r].verdict)]
      BY <2>2, <2>5 DEF StoreInv, TypeOK
    <3>2. sqlite'[e].payload = WithVerdict(sqlite[e].payload, req[r].verdict)
      BY <2>3, <3>1 DEF Row
    <3>3. QED
      BY <2>1, <3>2, NoneIsNoValue DEF WithVerdict
  <2>6. QED
    BY <2>4, <2>5
<1>4. ASSUME QuietStep, ~\E r \in Requests : Stage2Done(r) \/ DecisionOffline(r)
      PROVE  sqlite' = sqlite
  BY <1>4 DEF QuietStep, HandlerStep, BeginUpload, BeginStage2, BeginDecision, SaveFails,
              Stage2Commit, DecisionCommit, DecisionAnswer, ReadScan, Evict, Connectivity,
              vars, stores, clients
<1>5. QED
  BY <1>1, <1>2, <1>3, <1>4

(***************************************************************************)
(* A verdict in the batch is in the queue: the batch is a copy of it, and  *)
(* only a row that is in no batch leaves it.                               *)
(***************************************************************************)
LEMMA BatchVerdictsStay ==
  ASSUME StoreInv, Places, BatchVerdictsAreQueued, [Next]_vars
  PROVE  BatchVerdictsAreQueued'
<1>1. \A e \in Todo : e \in Docs /\ sqlite[e] # None
  BY DEF StoreInv, TypeOK, Places, BatchIsQueued
<1>2. ASSUME UNCHANGED sync, VerdictsStay PROVE BatchVerdictsAreQueued'
  BY <1>1, <1>2 DEF BatchVerdictsAreQueued, VerdictsStay, Todo
<1>3. CASE QuietStep
  BY <1>2, <1>3, QuietVerdictsStay, QuietStepsStand DEF QueueStands, StoreInv
<1>4. ASSUME NEW r \in Requests, SaveOffline(r) \/ SaveOnline(r) PROVE BatchVerdictsAreQueued'
  <2>1. CASE SaveOnline(r)
    BY <1>2, <2>1 DEF SaveOnline, VerdictsStay
  <2>2. CASE SaveOffline(r)
    <3>1. sqlite[req[r].doc] = None
      <4>1. req[r].op = "upload" /\ req[r].doc \in Docs
        BY <2>2, RequestFields DEF SaveOffline, StoreInv, TypeOK
      <4>2. QED
        BY <4>1 DEF Places, UploadsAreFresh, QueuedAreAcked
    <3>2. \A e \in Docs : sqlite[e] # None => sqlite'[e] = sqlite[e]
      BY <2>2, <3>1 DEF SaveOffline, StoreInv, TypeOK
    <3>3. VerdictsStay
      BY <3>2 DEF VerdictsStay
    <3>4. QED
      BY <1>2, <2>2, <3>3 DEF SaveOffline
  <2>3. QED
    BY <1>4, <2>1, <2>2
<1>5. ASSUME NEW d \in Docs, SyncCommit(d) PROVE BatchVerdictsAreQueued'
  <2>1. /\ sqlite' = sqlite /\ sync'.batch = Tried(d)
        /\ DOMAIN Tried(d) = Todo \ {d}
        /\ \A e \in Todo \ {d} : Tried(d)[e] = sync.batch[e]
    BY <1>5, TriedItem DEF SyncCommit, StoreInv, TypeOK
  <2>2. QED
    BY <2>1 DEF BatchVerdictsAreQueued, Todo
<1>6. ASSUME NEW d \in Docs, SyncFail(d) \/ SyncFault(d) PROVE BatchVerdictsAreQueued'
  <2>1. /\ InTurn(d) /\ IncrementRetry(d) /\ sync'.batch = Tried(d)
        /\ DOMAIN Tried(d) = Todo \ {d}
        /\ \A e \in Todo \ {d} : Tried(d)[e] = sync.batch[e]
    BY <1>6, TriedItem DEF SyncFail, SyncFault, IncrementRetry, StoreInv, TypeOK
  <2>2. \A e \in Docs : sqlite[e] # None => sqlite'[e].payload = sqlite[e].payload
    BY <2>1, RetryKeepsRow
  <2>3. QED
    BY <1>1, <2>1, <2>2 DEF BatchVerdictsAreQueued, Todo
<1>7. CASE SyncStart
  <2>1. sqlite' = sqlite /\ sync'.batch = [e \in Batch |-> sqlite[e]]
    BY <1>7 DEF SyncStart, stores
  <2>2. DOMAIN sync'.batch = Batch /\ \A e \in Batch : sync'.batch[e] = sqlite[e]
    BY <2>1
  <2>3. QED
    BY <2>1, <2>2 DEF BatchVerdictsAreQueued, Todo
<1>8. CASE SyncPurge
  <2>1. DOMAIN sync'.batch = {}
    BY <1>8 DEF SyncPurge, StoreInv, TypeOK, Todo
  <2>2. QED
    BY <2>1 DEF BatchVerdictsAreQueued, Todo
<1>9. CASE Crash
  <2>1. sync' = [running |-> FALSE, batch |-> << >>, synced |-> {}]
    BY <1>9 DEF Crash
  <2>2. DOMAIN sync'.batch = {}
    BY <2>1
  <2>3. QED
    BY <2>2 DEF BatchVerdictsAreQueued, Todo
<1>10. QED
  BY <1>3, <1>4, <1>5, <1>6, <1>7, <1>8, <1>9 DEF Next, SyncItem, QuietStep, HandlerStep

-----------------------------------------------------------------------------
(***************************************************************************)
(* Every step preserves CountInv.                                          *)
(***************************************************************************)
LEMMA NextCountInv == CountInv /\ [Next]_vars => CountInv'
<1> SUFFICES ASSUME CountInv, [Next]_vars PROVE CountInv'
  OBVIOUS
<1>1. /\ PlaceInv /\ PlaceInv' /\ BatchVerdictsAreQueued /\ DecisionsAccountedFor
      /\ StoreInv /\ StoreInv' /\ Places
  BY NextPlaceInv DEF CountInv, PlaceInv, Places
<1>2. BatchVerdictsAreQueued'
  BY <1>1, BatchVerdictsStay
<1>3. DecisionsAccountedFor'
  <2>1. CASE \E r \in Requests : DecisionCommit(r) \/ DecisionOffline(r)
    BY <1>1, <2>1, DecisionSettled DEF StoreInv
  <2>2. CASE \E r \in Requests, d \in Docs, v \in Verdicts : BeginDecision(r, d, v)
    BY <1>1, <2>2, DecisionSubmitted DEF StoreInv
  <2>3. CASE SyncItem
    BY <1>1, <2>3, SyncItemAccounted
  <2>4. CASE SyncStart \/ SyncPurge \/ Crash
    BY <1>1, <2>4, RoundAccounted
  <2>5. QED
    BY <1>1, <2>1, <2>2, <2>3, <2>4, OthersKeepAccount DEF Next
<1>4. QED
  BY <1>1, <1>2, <1>3 DEF CountInv

(***************************************************************************)
(* At the start nothing is queued, submitted or under way.                 *)
(***************************************************************************)
LEMMA InitCountInv == Init => CountInv
<1> SUFFICES ASSUME Init PROVE CountInv
  OBVIOUS
<1>1. StoreInv
  BY InitStoreInv
<1>2. /\ sync = [running |-> FALSE, batch |-> << >>, synced |-> {}]
      /\ sync.batch = << >> /\ DOMAIN sync.batch = {} /\ sync.synced = {}
  BY DEF Init
<1>3. UploadsAreFresh /\ QueuedAreAcked /\ QueuedTwiceOnlyAfterFault
  BY DEF Init, Idle, UploadsAreFresh, QueuedAreAcked, QueuedTwiceOnlyAfterFault
<1>4. BatchIsQueued /\ BatchVerdictsAreQueued
  BY <1>2 DEF BatchIsQueued, BatchVerdictsAreQueued, Todo
<1>5. DecisionsAccountedFor
  <2> SUFFICES ASSUME NEW d \in Docs
               PROVE  Len(decisions[d]) + Owed(d) + Cardinality(DecisionsUnderWay(d))
                        <= submitted[d] + faults
    BY DEF DecisionsAccountedFor
  <2>1. DecisionsUnderWay(d) = {} /\ decisions[d] = << >> /\ Owed(d) = 0
        /\ submitted[d] = 0 /\ faults = 0
    BY DEF Init, Idle, DecisionsUnderWay, Owed
  <2>2. Cardinality(DecisionsUnderWay(d)) = 0 /\ Len(decisions[d]) = 0
    BY <2>1, FS_EmptySet
  <2>3. QED
    BY <2>1, <2>2
<1>6. QED
  BY <1>1, <1>3, <1>4, <1>5 DEF CountInv, PlaceInv

(***************************************************************************)
(* The account of the decisions holds throughout.                          *)
(***************************************************************************)
THEOREM CountInvariance == Spec => []CountInv
BY InitCountInv, NextCountInv, PTL DEF Spec

(***************************************************************************)
(* Without a crash or a lost acknowledgement no screening is in SQLite and *)
(* in Supabase, but for the confirmed rows that wait for mark_synced.      *)
(***************************************************************************)
THEOREM TwiceOnlyAfterFault == Spec => []QueuedTwiceOnlyAfterFault
<1>1. CountInv => QueuedTwiceOnlyAfterFault
  BY DEF CountInv, PlaceInv
<1>2. QED
  BY CountInvariance, <1>1, PTL

(***************************************************************************)
(* However often the sync loop repeats a round, officer_decisions has at   *)
(* most one row per submitted decision and one per fault.                  *)
(***************************************************************************)
THEOREM DuplicatesNeedFaults == Spec => []DuplicatesBoundedByFaults
<1>1. CountInv => DuplicatesBoundedByFaults
  <2> SUFFICES ASSUME CountInv, NEW d \in Docs
               PROVE  Len(decisions[d]) <= submitted[d] + faults
    BY DEF DuplicatesBoundedByFaults
  <2> DEFINE l == Len(decisions[d])
             u == Cardinality(DecisionsUnderWay(d))
             o == Owed(d)
             s == submitted[d]
  <2>1. l \in Nat /\ u \in Nat /\ o \in {0, 1} /\ s \in Nat /\ faults \in Nat
    BY CountsTyped DEF CountInv, PlaceInv, StoreInv
  <2>2. l + o + u <= s + faults
    BY DEF CountInv, DecisionsAccountedFor
  <2> HIDE DEF l, u, o, s
  <2>3. l <= s + faults
    BY <2>1, <2>2
  <2>4. QED
    BY <2>3 DEF l, s
<1>2. QED
  BY CountInvariance, <1>1, PTL
=============================================================================
