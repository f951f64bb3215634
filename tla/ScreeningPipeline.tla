------------------------- MODULE ScreeningPipeline -------------------------
(***************************************************************************)
(* The screening graphs of orchestrator/core/langgraph_pipeline.py: Stage  *)
(* 1 (document), Stage 2 (biometrics and risk) and the unified graph, as   *)
(* LangGraph runs them, with the service calls of core/service_clients.py  *)
(* and core/blacklist.py that the nodes make.                              *)
(*                                                                         *)
(* LangGraph runs a graph in supersteps.  The nodes of a superstep run     *)
(* concurrently; the edges they trigger are followed when all are done.    *)
(* A node's result is written to the state when the superstep ends.  No    *)
(* node reads a key that another node of its superstep returns, so the     *)
(* model writes results at once.  One value is changed in place and seen   *)
(* at once by the code, too: the extraction, by the LLM fallback.          *)
(*                                                                         *)
(* Of a result the model keeps what later nodes, the routers or the        *)
(* officer's record tell apart.                                            *)
(***************************************************************************)
EXTENDS Naturals, FiniteSets

CONSTANTS
  Identities,     \* what the extracted fields can say of the holder
  Watchlist,      \* the identities with an active watchlist_entries row
  OfflineList,    \* the identities of _OFFLINE_BLACKLIST
  None            \* Python's None; zero extracted fields

ASSUME ListsNameIdentities ==
  /\ Watchlist \subseteq Identities
  /\ OfflineList \subseteq Identities
  /\ None \notin Identities

VARIABLES
  graph,      \* the compiled graph that is running, or "idle"
  live,       \* the run was given a live photo
  active,     \* nodes of this superstep that have not finished
  triggered,  \* nodes of the next superstep
  arrived,    \* the predecessors of document_gate that have finished
  state,      \* ScreeningState
  record,     \* the document's result between its stages (ScanRecord)
  ran,        \* how often each node ran in this run, counted up to Often
  hit         \* some blacklist check of this document was a hit

vars == <<graph, live, active, triggered, arrived, state, record, ran, hit>>

-----------------------------------------------------------------------------
\* ran counts no further: twice is already too often.
Often == 2

Graphs == {"stage1", "stage2", "unified"}
Services == {"ocr", "tampering", "face", "validation", "cross_checkpoint"}
Bands == {"low", "medium", "high", "critical"}

Node == {"buffer_images", "ocr_extraction", "llm_vision_fallback", "tampering_detection",
         "validation_rules", "blacklist_check", "document_gate", "face_verification",
         "cross_checkpoint", "risk_engine", "secondary_inspection", "standard_clearance",
         "audit_ledger"}

Extraction ==
  [identity : Identities \cup {None}, mrz : {"absent", "valid", "failed"}, poor : BOOLEAN]

Risk == [band : Bands, degraded : BOOLEAN]

Status == {"pending_biometric", "standard_clearance", "secondary_inspection"}

ScreeningState ==
  [extraction       : Extraction \cup {None},
   validation       : {None, "passed", "failed"},
   tampering        : {None, "clean", "flagged"},
   face             : {None, "compared", "unknown", "bypassed"},
   blacklist        : {None, "clear", "hit"},
   cross_checkpoint : {None, "clear", "repeat_offender"},
   risk_score       : Risk \cup {None},
   failed           : SUBSET Services,   \* the *_available flags that are False
   degraded_modules : SUBSET {"OCR", "OCR_EXTRACTION_EMPTY", "Tampering", "FaceVerification",
                              "Validation", "CrossCheckpoint", "degraded"},
   inspection_status : Status]

EmptyState(status) ==
  [extraction |-> None, validation |-> None, tampering |-> None, face |-> None,
   blacklist |-> None, cross_checkpoint |-> None, risk_score |-> None,
   failed |-> {}, degraded_modules |-> {}, inspection_status |-> status]

(***************************************************************************)
(* PipelineResult and the inspection_status the handler stores with it.    *)
(***************************************************************************)
Record ==
  [stage : Graphs, extraction : Extraction, validation : {"passed", "failed"},
   tampering : {"clean", "flagged"}, face : {None, "compared", "unknown", "bypassed"},
   cross_checkpoint : {None, "clear", "repeat_offender"}, risk_score : Risk \cup {None},
   failed : SUBSET Services, degraded : BOOLEAN, status : Status]

ASSUME NoneIsNoValue ==
  /\ None \notin Extraction /\ None \notin Risk /\ None \notin Record
  /\ None \notin {"passed", "failed", "clean", "flagged", "compared", "unknown", "bypassed",
                 "clear", "hit", "repeat_offender"}

(***************************************************************************)
(* Mutant: the gate waits for the LLM fallback, which not every run needs. *)
(***************************************************************************)
GatedWithFallback ==
  {"validation_rules", "tampering_detection", "blacklist_check", "buffer_images",
   "llm_vision_fallback"}

(***************************************************************************)
(* The fan-in edge of the unified graph.                                   *)
(***************************************************************************)
Gated == {"validation_rules", "tampering_detection", "blacklist_check", "buffer_images"}

-----------------------------------------------------------------------------
(***************************************************************************)
(* The service clients: two HTTP attempts, then the same code in-process;  *)
(* only the latter can raise, which the nodes catch.  Here is what a call  *)
(* that does not raise can return.                                         *)
(***************************************************************************)
CallOcrService == Extraction
CallTamperingService == {"clean", "flagged"}
CallValidationService == {"passed", "failed"}
CallFaceService == {"compared"}
CallCrossCheckpointService == {"clear", "repeat_offender"}

(***************************************************************************)
(* build_risk_response.  Any score is possible here; the band of a repeat  *)
(* offender is never low (escalate_band_one_tier).                         *)
(***************************************************************************)
CallRiskEngine(s) ==
  {r \in Risk : /\ r.degraded = (s.degraded_modules # {})
                /\ s.cross_checkpoint = "repeat_offender" => r.band # "low"}

(***************************************************************************)
(* check_blacklist asks the database, or the built-in list when there is   *)
(* no session or the query fails.                                          *)
(***************************************************************************)
CheckBlacklist(e) == {(e.identity \in list) : list \in {Watchlist, OfflineList}}

-----------------------------------------------------------------------------
(***************************************************************************)
(* The routers.  Anomalous is what check_document_integrity and            *)
(* route_by_threat_level both look for.                                    *)
(***************************************************************************)
Unread(e) == e.identity = None /\ e.mrz = "absent"

(***************************************************************************)
(* Mutant: the label of the branch is taken for the node it leads to.      *)
(***************************************************************************)
OcrQualityLabel(e) == IF Unread(e) \/ e.poor THEN "fallback" ELSE "continue"

CheckOcrQuality(e) == IF Unread(e) \/ e.poor THEN "llm_vision_fallback" ELSE "validation_rules"

Anomalous(s) ==
  \/ s.tampering = "flagged"
  \/ s.extraction # None /\ s.extraction.mrz = "failed"
  \/ s.validation = "failed"
  \/ s.blacklist = "hit"

IntegrityFlagged(s) == ~live /\ Anomalous(s)

RouteByThreatLevel(s) ==
  IF \/ s.face = "bypassed"
     \/ Anomalous(s)
     \/ s.risk_score.band \in {"high", "critical"}
     \/ s.cross_checkpoint = "repeat_offender"
  THEN "secondary_inspection"
  ELSE "standard_clearance"

-----------------------------------------------------------------------------
Init ==
  /\ graph = "idle"
  /\ live = FALSE
  /\ active = {} /\ triggered = {} /\ arrived = {}
  /\ state = EmptyState("pending_biometric")
  /\ record = None
  /\ ran = [n \in Node |-> 0]
  /\ hit = FALSE

Start(g, withPhoto, entry, initialState) ==
  /\ graph = "idle"
  /\ graph' = g
  /\ live' = withPhoto
  /\ active' = entry /\ triggered' = {} /\ arrived' = {}
  /\ state' = initialState
  /\ ran' = [n \in Node |-> 0]
  /\ UNCHANGED record

FanOut == {"buffer_images", "ocr_extraction", "tampering_detection"}

(***************************************************************************)
(* run_stage1_pipeline and run_langgraph_pipeline, for a new document.     *)
(***************************************************************************)
RunStage1 ==
  /\ record = None
  /\ Start("stage1", FALSE, FanOut, EmptyState("pending_biometric"))
  /\ UNCHANGED hit

RunUnified ==
  /\ record = None
  /\ \E withPhoto \in BOOLEAN :
       Start("unified", withPhoto, FanOut, EmptyState("standard_clearance"))
  /\ UNCHANGED hit

(***************************************************************************)
(* Mutant: the reports of Stage 1 are not passed on to Stage 2.            *)
(***************************************************************************)
Stage2StateWithoutReports(r) ==
  [EmptyState("standard_clearance") EXCEPT
     !.extraction = r.extraction,
     !.blacklist = "clear",
     !.failed = r.failed \ {"face", "cross_checkpoint"},
     !.degraded_modules = IF r.degraded THEN {"degraded"} ELSE {}]

(***************************************************************************)
(* run_stage2_pipeline, from the record that Stage 1 or an earlier Stage 2 *)
(* left.  verify_live_face passes no blacklist_sub, so it starts from      *)
(* BlacklistSubScore(), which is no hit.                                   *)
(***************************************************************************)
Stage2State(r) ==
  [EmptyState("standard_clearance") EXCEPT
     !.extraction = r.extraction, !.validation = r.validation, !.tampering = r.tampering,
     !.blacklist = "clear",
     !.failed = r.failed \ {"face", "cross_checkpoint"},
     !.degraded_modules = IF r.degraded THEN {"degraded"} ELSE {}]

RunStage2 ==
  /\ record # None
  /\ record.stage # "unified"
  /\ Start("stage2", TRUE, {"face_verification"}, Stage2State(record))
  /\ UNCHANGED hit

-----------------------------------------------------------------------------
(***************************************************************************)
(* A node finishes: it triggers its edges' targets and has arrived at the  *)
(* fan-in edge if it is one of its sources.                                *)
(***************************************************************************)
Finish(n, targets) ==
  /\ n \in active
  /\ active' = active \ {n}
  /\ triggered' = triggered \cup targets
  /\ arrived' = IF graph = "unified" THEN arrived \cup ({n} \cap Gated) ELSE arrived
  /\ ran' = [ran EXCEPT ![n] = IF @ = Often THEN Often ELSE @ + 1]
  /\ UNCHANGED <<graph, live, record>>

(***************************************************************************)
(* Mutant: without the reducer the last of two parallel writes stays.      *)
(***************************************************************************)
LastReport(s, service, module) ==
  [s EXCEPT !.failed = @ \cup {service}, !.degraded_modules = {module}]

(***************************************************************************)
(* A failed service: its flag goes down and merge_degraded adds a module.  *)
(***************************************************************************)
Degrade(s, service, module) ==
  [s EXCEPT !.failed = @ \cup {service}, !.degraded_modules = @ \cup {module}]

BufferImages ==
  /\ Finish("buffer_images", {})
  /\ UNCHANGED <<state, hit>>

OcrExtraction ==
  /\ \/ \E e \in CallOcrService :
          /\ state' = [state EXCEPT !.extraction = e,
                         !.degraded_modules = @ \cup
                           IF Unread(e) THEN {"OCR_EXTRACTION_EMPTY"} ELSE {}]
          /\ Finish("ocr_extraction", {"blacklist_check", CheckOcrQuality(e)})
     \/ LET e == [identity |-> None, mrz |-> "absent", poor |-> FALSE] IN
          /\ state' = Degrade([state EXCEPT !.extraction = e], "ocr", "OCR")
          /\ Finish("ocr_extraction", {"blacklist_check", CheckOcrQuality(e)})
  /\ UNCHANGED hit

(***************************************************************************)
(* Mutant: the fallback leads back to OCR, to try once more.               *)
(***************************************************************************)
LlmRetriesOcr ==
  /\ Finish("llm_vision_fallback", {"ocr_extraction"})
  /\ UNCHANGED <<state, hit>>

(***************************************************************************)
(* Fields the LLM reads replace those of the same name, in the extraction  *)
(* object that blacklist_check is reading in the same superstep.           *)
(***************************************************************************)
LlmVisionFallback ==
  /\ Finish("llm_vision_fallback", {"validation_rules"})
  /\ \/ \E i \in Identities : state' = [state EXCEPT !.extraction.identity = i]
     \/ UNCHANGED state
  /\ UNCHANGED hit

TamperingDetection ==
  /\ Finish("tampering_detection", {})
  /\ \/ \E t \in CallTamperingService : state' = [state EXCEPT !.tampering = t]
     \/ state' = Degrade([state EXCEPT !.tampering = "clean"], "tampering", "Tampering")
  /\ UNCHANGED hit

ValidationRules ==
  /\ Finish("validation_rules", {})
  /\ IF Unread(state.extraction)
     THEN state' = [state EXCEPT !.validation = "failed",
                      !.degraded_modules = @ \cup {"OCR_EXTRACTION_EMPTY"}]
     ELSE \/ \E v \in CallValidationService : state' = [state EXCEPT !.validation = v]
          \/ state' = Degrade([state EXCEPT !.validation = "failed"], "validation", "Validation")
  /\ UNCHANGED hit

(***************************************************************************)
(* It reads the fields as they are when it starts.                         *)
(***************************************************************************)
BlacklistCheck ==
  /\ Finish("blacklist_check", {})
  /\ \E found \in CheckBlacklist(state.extraction) :
       /\ state' = [state EXCEPT !.blacklist = IF found THEN "hit" ELSE "clear"]
       /\ hit' = (hit \/ found)

DocumentGate ==
  /\ Finish("document_gate",
            IF IntegrityFlagged(state) THEN {"risk_engine"} ELSE {"face_verification"})
  /\ state' = IF IntegrityFlagged(state) THEN [state EXCEPT !.face = "bypassed"] ELSE state
  /\ UNCHANGED hit

(***************************************************************************)
(* A compared face carries a person_cluster_id, found or new; without the  *)
(* service there is none.                                                  *)
(***************************************************************************)
FaceVerification ==
  /\ Finish("face_verification", {"cross_checkpoint"})
  /\ \/ \E f \in CallFaceService : state' = [state EXCEPT !.face = f]
     \/ state' = Degrade([state EXCEPT !.face = "unknown"], "face", "FaceVerification")
  /\ UNCHANGED hit

CrossCheckpoint ==
  /\ Finish("cross_checkpoint", {"risk_engine"})
  /\ IF state.face # "compared"
     THEN UNCHANGED state
     ELSE \/ \E c \in CallCrossCheckpointService : state' = [state EXCEPT !.cross_checkpoint = c]
          \/ state' = Degrade(state, "cross_checkpoint", "CrossCheckpoint")
  /\ UNCHANGED hit

(***************************************************************************)
(* The node always has a score: build_risk_response stands in for a        *)
(* service that fails.                                                     *)
(***************************************************************************)
RiskEngine ==
  /\ \E r \in CallRiskEngine(state) :
       LET s == [state EXCEPT !.risk_score = r] IN
       /\ state' = s
       /\ Finish("risk_engine", {RouteByThreatLevel(s)})
  /\ UNCHANGED hit

SecondaryInspection ==
  /\ state' = [state EXCEPT !.inspection_status = "secondary_inspection"]
  /\ Finish("secondary_inspection", {"audit_ledger"})
  /\ UNCHANGED hit

StandardClearance ==
  /\ state' = [state EXCEPT !.inspection_status = "standard_clearance"]
  /\ Finish("standard_clearance", {"audit_ledger"})
  /\ UNCHANGED hit

AuditLedgerNode ==
  /\ Finish("audit_ledger", {})
  /\ UNCHANGED <<state, hit>>

-----------------------------------------------------------------------------
(***************************************************************************)
(* Mutant: an edge from each source instead of one fan-in edge: the gate   *)
(* is triggered whenever one of them has finished.                         *)
(***************************************************************************)
GateOpensForAny == arrived # {}

(***************************************************************************)
(* document_gate is triggered when all sources of its edge have finished.  *)
(***************************************************************************)
GateOpens == Gated \subseteq arrived

(***************************************************************************)
(* Mutant: the fan-in edge is not reset when it has fired.                 *)
(***************************************************************************)
SuperstepNoReset ==
  /\ graph # "idle"
  /\ active = {}
  /\ triggered # {} \/ GateOpens
  /\ active' = triggered \cup (IF GateOpens THEN {"document_gate"} ELSE {})
  /\ triggered' = {}
  /\ UNCHANGED <<graph, live, arrived, state, record, ran, hit>>

Superstep ==
  /\ graph # "idle"
  /\ active = {}
  /\ triggered # {} \/ GateOpens
  /\ active' = triggered \cup (IF GateOpens THEN {"document_gate"} ELSE {})
  /\ triggered' = {}
  /\ arrived' = IF GateOpens THEN {} ELSE arrived
  /\ UNCHANGED <<graph, live, state, record, ran, hit>>

(***************************************************************************)
(* Mutant: the degradation of the second stage replaces that of the first. *)
(***************************************************************************)
ResultForgetting(s) ==
  [stage |-> graph, extraction |-> s.extraction, validation |-> s.validation,
   tampering |-> s.tampering, face |-> s.face, cross_checkpoint |-> s.cross_checkpoint,
   risk_score |-> s.risk_score, failed |-> s.failed,
   degraded |-> s.degraded_modules \ {"degraded"} # {}, status |-> s.inspection_status]

(***************************************************************************)
(* The run is over when nothing is triggered: the caller keeps the result. *)
(***************************************************************************)
Result(s) ==
  [stage |-> graph, extraction |-> s.extraction, validation |-> s.validation,
   tampering |-> s.tampering, face |-> s.face, cross_checkpoint |-> s.cross_checkpoint,
   risk_score |-> s.risk_score, failed |-> s.failed,
   degraded |-> s.degraded_modules # {}, status |-> s.inspection_status]

Return ==
  /\ graph # "idle"
  /\ active = {} /\ triggered = {} /\ ~GateOpens
  /\ graph' = "idle"
  /\ record' = IF graph = "stage2"
               THEN [Result(state) EXCEPT !.extraction = record.extraction,
                       !.validation = record.validation, !.tampering = record.tampering]
               ELSE Result(state)
  /\ UNCHANGED <<live, active, triggered, arrived, state, ran, hit>>

(***************************************************************************)
(* The officer is done with the document and takes the next.               *)
(***************************************************************************)
NextDocument ==
  /\ graph = "idle"
  /\ record # None
  /\ record' = None /\ hit' = FALSE
  /\ UNCHANGED <<graph, live, active, triggered, arrived, state, ran>>

NodeStep ==
  \/ BufferImages
  \/ OcrExtraction
  \/ LlmVisionFallback
  \/ TamperingDetection
  \/ ValidationRules
  \/ BlacklistCheck
  \/ DocumentGate
  \/ FaceVerification
  \/ CrossCheckpoint
  \/ RiskEngine
  \/ SecondaryInspection
  \/ StandardClearance
  \/ AuditLedgerNode

Next ==
  \/ RunStage1
  \/ RunUnified
  \/ RunStage2
  \/ NodeStep
  \/ Superstep
  \/ Return
  \/ NextDocument

Spec == Init /\ [][Next]_vars

(***************************************************************************)
(* The runtime drives a graph it started until nothing is triggered, and   *)
(* every service call ends: HTTP attempts time out, in-process calls       *)
(* return.  Nothing is assumed of the officer.                             *)
(***************************************************************************)
FairSpec == Spec /\ WF_vars(NodeStep \/ Superstep \/ Return)

-----------------------------------------------------------------------------
TypeOK ==
  /\ graph \in Graphs \cup {"idle"}
  /\ live \in BOOLEAN
  /\ active \subseteq Node
  /\ triggered \subseteq Node
  /\ arrived \subseteq Gated
  /\ state \in ScreeningState
  /\ record \in Record \cup {None}
  /\ ran \in [Node -> 0..Often]
  /\ hit \in BOOLEAN

(***************************************************************************)
(* The document gate decides, and the score is computed, when every result *)
(* they depend on is there, although the branches that produce the results *)
(* have different lengths and fail independently.                          *)
(***************************************************************************)
DecisionsSeeAllResults ==
  /\ "document_gate" \in active =>
       /\ state.tampering # None /\ state.validation # None /\ state.blacklist # None
       /\ active = {"document_gate"} /\ triggered = {}
  /\ "risk_engine" \in active =>
       /\ state.extraction # None /\ state.tampering # None /\ state.validation # None
       /\ state.face # None /\ state.blacklist # None
       /\ active = {"risk_engine"} /\ triggered = {}

(***************************************************************************)
(* Whatever path a run takes, no node runs twice in it: one score, one     *)
(* routing, one audit event.                                               *)
(***************************************************************************)
NodesRunOnce == \A n \in Node : ran[n] <= 1

(***************************************************************************)
(* A run that should end with a decision does: no combination of failing   *)
(* services ends Stage 2 or the unified graph without a score, a routing   *)
(* and an audit event.                                                     *)
(***************************************************************************)
RunsEndDecided ==
  graph = "idle" /\ record # None /\ record.stage # "stage1" =>
    /\ record.risk_score # None
    /\ record.status # "pending_biometric"
    /\ ran["audit_ledger"] = 1
    /\ ran["standard_clearance"] + ran["secondary_inspection"] = 1

(***************************************************************************)
(* A document is cleared only if its record, whichever stage each part of  *)
(* it comes from, shows no reason for an inspection.                       *)
(***************************************************************************)
ClearedOnlyIfClean ==
  record # None /\ record.status = "standard_clearance" =>
    /\ record.tampering = "clean"
    /\ record.validation = "passed"
    /\ record.extraction.mrz # "failed"
    /\ record.face # "bypassed"
    /\ record.cross_checkpoint # "repeat_offender"
    /\ record.risk_score.band \notin {"high", "critical"}

(***************************************************************************)
(* A service that was unavailable, in whichever stage, makes the result    *)
(* degraded and the score an estimate.                                     *)
(***************************************************************************)
FailuresReported ==
  record # None /\ record.failed # {} =>
    /\ record.degraded
    /\ record.risk_score # None => record.risk_score.degraded

(***************************************************************************)
(* merge_degraded: of services that fail in parallel, none is forgotten.   *)
(***************************************************************************)
ModuleOf ==
  [ocr |-> "OCR", tampering |-> "Tampering", face |-> "FaceVerification",
   validation |-> "Validation", cross_checkpoint |-> "CrossCheckpoint"]

EveryFailureNamed ==
  graph \in {"stage1", "unified"} =>
    \A s \in state.failed : ModuleOf[s] \in state.degraded_modules

(***************************************************************************)
(* A run that was started comes to its end.                                *)
(***************************************************************************)
RunsEnd == graph # "idle" ~> graph = "idle"

-----------------------------------------------------------------------------
(***************************************************************************)
(* "Risk >= 61 or Watchlist Hit?" leads to the secondary inspection queue  *)
(* (readme.md): a document one of whose checks was a hit is not cleared.   *)
(***************************************************************************)
WatchlistHitIsInspected ==
  record # None /\ record.status = "standard_clearance" => ~hit
=============================================================================
