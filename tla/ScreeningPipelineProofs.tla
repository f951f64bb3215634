---------------------- MODULE ScreeningPipelineProofs ----------------------
(***************************************************************************)
(* Every safety property of ScreeningPipeline, for any identities and any  *)
(* lists, from one inductive invariant.                                    *)
(***************************************************************************)
EXTENDS ScreeningPipeline, TLAPS

PreGate ==
  {"buffer_images", "ocr_extraction", "tampering_detection", "llm_vision_fallback",
   "validation_rules", "blacklist_check"}

Tail ==
  {"face_verification", "cross_checkpoint", "risk_engine", "secondary_inspection",
   "standard_clearance", "audit_ledger"}

Pending == active \cup triggered

(***************************************************************************)
(* The five places a run can be in.  Each says which nodes are pending,    *)
(* which have not run, and which results are there.                        *)
(***************************************************************************)
Idle == graph = "idle" /\ active = {} /\ triggered = {}

(***************************************************************************)
(* A result that is missing, or a source of the fan-in edge that has not   *)
(* arrived, is owed by a pending node.                                     *)
(***************************************************************************)
ResultsOwed ==
  /\ state.extraction = None => "ocr_extraction" \in active
  /\ state.tampering = None => "tampering_detection" \in active
  /\ state.validation = None =>
       \/ "ocr_extraction" \in active
       \/ "llm_vision_fallback" \in Pending
       \/ "validation_rules" \in Pending
  /\ state.blacklist = None => "ocr_extraction" \in active \/ "blacklist_check" \in Pending

ArrivalsOwed ==
  graph = "unified" =>
    /\ "buffer_images" \in active \cup arrived
    /\ "tampering_detection" \in active \cup arrived
    /\ \/ "ocr_extraction" \in active
       \/ "blacklist_check" \in Pending \cup arrived
    /\ \/ "ocr_extraction" \in active
       \/ "llm_vision_fallback" \in Pending
       \/ "validation_rules" \in Pending \cup arrived

Forensics ==
  /\ graph \in {"stage1", "unified"}
  /\ graph = "stage1" => arrived = {} /\ state.inspection_status = "pending_biometric"
  /\ active \subseteq PreGate
  /\ triggered \subseteq {"llm_vision_fallback", "validation_rules", "blacklist_check"}
  /\ active \cap triggered = {} /\ active \cap arrived = {} /\ triggered \cap arrived = {}
  /\ "ocr_extraction" \in active =>
       \A n \in {"llm_vision_fallback", "validation_rules", "blacklist_check"} :
         n \notin Pending \cup arrived /\ ran[n] = 0
  /\ "llm_vision_fallback" \in Pending =>
       "validation_rules" \notin Pending \cup arrived /\ ran["validation_rules"] = 0
  /\ ran["document_gate"] = 0 /\ \A n \in Tail : ran[n] = 0
  /\ state.face = None /\ state.cross_checkpoint = None /\ state.risk_score = None
  /\ ResultsOwed
  /\ ArrivalsOwed

Complete ==
  /\ state.extraction # None /\ state.tampering # None
  /\ state.validation # None /\ state.blacklist # None

AtGate ==
  /\ graph = "unified" /\ arrived = {}
  /\ active = {"document_gate"} /\ triggered = {}
  /\ \A n \in Tail : ran[n] = 0
  /\ state.face = None /\ state.cross_checkpoint = None /\ state.risk_score = None
  /\ Complete

(***************************************************************************)
(* From the face verification on exactly one node is pending.              *)
(***************************************************************************)
Position(n) ==
  /\ arrived = {}
  /\ \/ active = {n} /\ triggered = {}
     \/ active = {} /\ triggered = {n}

AtTail ==
  /\ graph \in {"stage2", "unified"}
  /\ Complete
  /\ \/ /\ Position("face_verification")
        /\ \A n \in Tail : ran[n] = 0
        /\ state.cross_checkpoint = None /\ state.risk_score = None
     \/ /\ Position("cross_checkpoint")
        /\ \A n \in Tail \ {"face_verification"} : ran[n] = 0
        /\ state.face # None /\ state.risk_score = None
     \/ /\ Position("risk_engine")
        /\ \A n \in Tail \ {"face_verification", "cross_checkpoint"} : ran[n] = 0
        /\ state.face # None /\ state.risk_score = None
     \/ /\ \/ Position("secondary_inspection")
              /\ RouteByThreatLevel(state) = "secondary_inspection"
           \/ Position("standard_clearance")
              /\ RouteByThreatLevel(state) = "standard_clearance"
        /\ \A n \in {"secondary_inspection", "standard_clearance", "audit_ledger"} : ran[n] = 0
        /\ state.risk_score # None
     \/ /\ Position("audit_ledger")
        /\ ran["standard_clearance"] + ran["secondary_inspection"] = 1
        /\ ran["audit_ledger"] = 0
        /\ state.risk_score # None
        /\ state.inspection_status = RouteByThreatLevel(state)

Ended ==
  /\ graph \in {"stage2", "unified"}
  /\ Complete
  /\ active = {} /\ triggered = {} /\ arrived = {}
  /\ ran["standard_clearance"] + ran["secondary_inspection"] = 1
  /\ ran["audit_ledger"] = 1
  /\ state.risk_score # None
  /\ state.inspection_status = RouteByThreatLevel(state)

PlaceInv == Idle \/ Forensics \/ AtGate \/ AtTail \/ Ended

RunInv == NodesRunOnce /\ \A n \in Pending : ran[n] = 0

ReportInv ==
  /\ state.failed # {} => state.degraded_modules # {}
  /\ EveryFailureNamed
  /\ state.risk_score # None =>
       state.risk_score.degraded = (state.degraded_modules # {})

(***************************************************************************)
(* Stage 2 works on the record it started from.                            *)
(***************************************************************************)
RecordInv ==
  /\ graph = "stage2" =>
       /\ record # None
       /\ record.extraction = state.extraction
       /\ record.validation = state.validation
       /\ record.tampering = state.tampering
  /\ ClearedOnlyIfClean
  /\ RunsEndDecided
  /\ FailuresReported

PipelineInv == TypeOK /\ PlaceInv /\ RunInv /\ ReportInv /\ RecordInv

-----------------------------------------------------------------------------
(***************************************************************************)
(* What the updates of the nodes keep.                                     *)
(***************************************************************************)
LEMMA EmptyStateType ==
  ASSUME NEW status \in Status
  PROVE  EmptyState(status) \in ScreeningState
  BY DEF EmptyState, ScreeningState, Services, Status

LEMMA SetExtraction ==
  ASSUME NEW s \in ScreeningState, NEW e \in Extraction
  PROVE  [s EXCEPT !.extraction = e] \in ScreeningState
  BY DEF ScreeningState

LEMMA SetValidation ==
  ASSUME NEW s \in ScreeningState, NEW v \in {"passed", "failed"}
  PROVE  [s EXCEPT !.validation = v] \in ScreeningState
  BY DEF ScreeningState

LEMMA SetTampering ==
  ASSUME NEW s \in ScreeningState, NEW t \in {"clean", "flagged"}
  PROVE  [s EXCEPT !.tampering = t] \in ScreeningState
  BY DEF ScreeningState

LEMMA SetFace ==
  ASSUME NEW s \in ScreeningState, NEW f \in {"compared", "unknown", "bypassed"}
  PROVE  [s EXCEPT !.face = f] \in ScreeningState
  BY DEF ScreeningState

LEMMA SetBlacklist ==
  ASSUME NEW s \in ScreeningState, NEW b \in {"clear", "hit"}
  PROVE  [s EXCEPT !.blacklist = b] \in ScreeningState
  BY DEF ScreeningState

LEMMA SetCrossCheckpoint ==
  ASSUME NEW s \in ScreeningState, NEW c \in {"clear", "repeat_offender"}
  PROVE  [s EXCEPT !.cross_checkpoint = c] \in ScreeningState
  BY DEF ScreeningState

LEMMA SetRisk ==
  ASSUME NEW s \in ScreeningState, NEW r \in Risk
  PROVE  [s EXCEPT !.risk_score = r] \in ScreeningState
  BY DEF ScreeningState

LEMMA SetStatus ==
  ASSUME NEW s \in ScreeningState, NEW status \in Status
  PROVE  [s EXCEPT !.inspection_status = status] \in ScreeningState
  BY DEF ScreeningState

Modules ==
  {"OCR", "OCR_EXTRACTION_EMPTY", "Tampering", "FaceVerification", "Validation",
   "CrossCheckpoint", "degraded"}

LEMMA AddModules ==
  ASSUME NEW s \in ScreeningState, NEW ms \in SUBSET Modules
  PROVE  [s EXCEPT !.degraded_modules = @ \cup ms] \in ScreeningState
  BY DEF ScreeningState, Modules

LEMMA DegradeType ==
  ASSUME NEW s \in ScreeningState, NEW service \in Services, NEW module \in Modules
  PROVE  Degrade(s, service, module) \in ScreeningState
  BY DEF ScreeningState, Modules, Degrade

(***************************************************************************)
(* The types of all that Finish writes.                                    *)
(***************************************************************************)
ControlType ==
  /\ graph \in Graphs \cup {"idle"}
  /\ live \in BOOLEAN
  /\ active \subseteq Node
  /\ triggered \subseteq Node
  /\ arrived \subseteq Gated
  /\ record \in Record \cup {None}
  /\ ran \in [Node -> 0..Often]

LEMMA FinishType ==
  ASSUME TypeOK, NEW n \in Node, NEW targets \in SUBSET Node, Finish(n, targets)
  PROVE  ControlType'
  <1>1. (graph \in Graphs \cup {"idle"} /\ live \in BOOLEAN /\ record \in Record \cup {None})'
    BY DEF TypeOK, Finish
  <1>2. (active \subseteq Node /\ triggered \subseteq Node /\ arrived \subseteq Gated)'
    BY DEF TypeOK, Finish
  <1>3. (ran \in [Node -> 0..Often])'
    BY DEF TypeOK, Finish, Often
  <1>4. QED
    BY <1>1, <1>2, <1>3 DEF ControlType

LEMMA TypeSplit ==
  ASSUME TypeOK, ControlType', state' \in ScreeningState, UNCHANGED hit
  PROVE  TypeOK'
  BY DEF TypeOK, ControlType

LEMMA StartType ==
  ASSUME TypeOK, NEW g \in Graphs, NEW b \in BOOLEAN, NEW entry \in SUBSET Node,
         NEW s \in ScreeningState, Start(g, b, entry, s), UNCHANGED hit
  PROVE  TypeOK'
  BY DEF TypeOK, Start, Often

LEMMA Stage2StateType ==
  ASSUME NEW r \in Record
  PROVE  Stage2State(r) \in ScreeningState
  BY DEF Stage2State, EmptyState, Record, ScreeningState, Services, Status

LEMMA ResultType ==
  ASSUME graph \in Graphs, state \in ScreeningState,
         state.extraction # None, state.tampering # None, state.validation # None
  PROVE  Result(state) \in Record
  BY DEF Result, Record, ScreeningState

(***************************************************************************)
(* The nodes that read the extraction run when it is there.                *)
(***************************************************************************)
LEMMA ExtractionThere ==
  ASSUME TypeOK, PlaceInv,
         NEW n \in {"llm_vision_fallback", "validation_rules", "blacklist_check"}, n \in active
  PROVE  Forensics /\ state.extraction \in Extraction
  <1>1. n \notin Tail \cup {"document_gate"} /\ n \in Pending
    BY DEF Tail, Pending
  <1>2. Forensics
    BY <1>1 DEF PlaceInv, Idle, AtGate, AtTail, Position, Ended, Tail
  <1>3. "ocr_extraction" \notin active
    BY <1>1, <1>2 DEF Forensics
  <1>4. state.extraction # None
    BY <1>2, <1>3 DEF Forensics, ResultsOwed
  <1>5. state.extraction \in Extraction \cup {None}
    BY DEF TypeOK, ScreeningState
  <1>6. QED
    BY <1>2, <1>4, <1>5

LEMMA TypeStep == TypeOK /\ PlaceInv /\ RecordInv /\ Next => TypeOK'
<1> SUFFICES ASSUME TypeOK, PlaceInv, RecordInv, Next PROVE TypeOK'
  OBVIOUS
<1>1. CASE RunStage1
  <2>1. EmptyState("pending_biometric") \in ScreeningState
    BY EmptyStateType DEF Status
  <2>2. FanOut \in SUBSET Node /\ "stage1" \in Graphs
    BY DEF FanOut, Node, Graphs
  <2>3. QED
    BY <1>1, <2>1, <2>2, StartType DEF RunStage1
<1>2. CASE RunUnified
  <2>1. EmptyState("standard_clearance") \in ScreeningState
    BY EmptyStateType DEF Status
  <2>2. FanOut \in SUBSET Node /\ "unified" \in Graphs
    BY DEF FanOut, Node, Graphs
  <2>3. QED
    BY <1>2, <2>1, <2>2, StartType DEF RunUnified
<1>3. CASE RunStage2
  <2>1. Stage2State(record) \in ScreeningState
    BY <1>3, Stage2StateType DEF RunStage2, TypeOK
  <2>2. {"face_verification"} \in SUBSET Node /\ "stage2" \in Graphs
    BY DEF Node, Graphs
  <2>3. QED
    BY <1>3, <2>1, <2>2, StartType DEF RunStage2
<1>4. CASE BufferImages
  <2>1. ControlType'
    BY <1>4, FinishType DEF BufferImages, Node
  <2>2. QED
    BY <1>4, <2>1, TypeSplit DEF BufferImages, TypeOK
<1>5. CASE OcrExtraction
  <2> DEFINE empty == [identity |-> None, mrz |-> "absent", poor |-> FALSE]
  <2>1. empty \in Extraction
    BY DEF Extraction
  <2>2. \A e \in Extraction : {"blacklist_check", CheckOcrQuality(e)} \in SUBSET Node
    BY DEF CheckOcrQuality, Node
  <2>3. ControlType'
    BY <1>5, <2>1, <2>2, FinishType DEF OcrExtraction, CallOcrService, Node
  <2>4. state' \in ScreeningState
    <3>1. CASE \E e \in Extraction :
                 state' = [state EXCEPT !.extraction = e,
                             !.degraded_modules = @ \cup
                               IF Unread(e) THEN {"OCR_EXTRACTION_EMPTY"} ELSE {}]
      <4>1. PICK e \in Extraction :
                 state' = [state EXCEPT !.extraction = e,
                             !.degraded_modules = @ \cup
                               IF Unread(e) THEN {"OCR_EXTRACTION_EMPTY"} ELSE {}]
        BY <3>1
      <4> DEFINE ms == IF Unread(e) THEN {"OCR_EXTRACTION_EMPTY"} ELSE {}
      <4>2. ms \in SUBSET Modules
        BY DEF Modules
      <4>3. [state EXCEPT !.extraction = e] \in ScreeningState
        BY SetExtraction DEF TypeOK
      <4>4. state' = [[state EXCEPT !.extraction = e] EXCEPT !.degraded_modules = @ \cup ms]
        BY <4>1
      <4>5. QED
        BY <4>2, <4>3, <4>4, AddModules
    <3>2. CASE state' = Degrade([state EXCEPT !.extraction = empty], "ocr", "OCR")
      <4>1. [state EXCEPT !.extraction = empty] \in ScreeningState
        BY <2>1, SetExtraction DEF TypeOK
      <4>2. QED
        BY <3>2, <4>1, DegradeType DEF Services, Modules
    <3>3. QED
      BY <1>5, <3>1, <3>2 DEF OcrExtraction, CallOcrService
  <2>5. QED
    BY <1>5, <2>3, <2>4, TypeSplit DEF OcrExtraction
<1>6. CASE LlmVisionFallback
  <2>1. ControlType'
    BY <1>6, FinishType DEF LlmVisionFallback, Node
  <2>2. state.extraction \in Extraction
    BY <1>6, ExtractionThere DEF LlmVisionFallback, Finish
  <2>3. ASSUME NEW i \in Identities, state' = [state EXCEPT !.extraction.identity = i]
        PROVE  state' \in ScreeningState
    <3>1. [state.extraction EXCEPT !.identity = i] \in Extraction
      BY <2>2 DEF Extraction
    <3>2. state' = [state EXCEPT !.extraction = [state.extraction EXCEPT !.identity = i]]
      BY <2>3
    <3>3. QED
      BY <3>1, <3>2, SetExtraction DEF TypeOK
  <2>4. state' \in ScreeningState
    BY <1>6, <2>3 DEF LlmVisionFallback, TypeOK
  <2>5. QED
    BY <1>6, <2>1, <2>4, TypeSplit DEF LlmVisionFallback
<1>7. CASE TamperingDetection
  <2>1. ControlType'
    BY <1>7, FinishType DEF TamperingDetection, Node
  <2>2. [state EXCEPT !.tampering = "clean"] \in ScreeningState
    BY SetTampering DEF TypeOK
  <2>3. Degrade([state EXCEPT !.tampering = "clean"], "tampering", "Tampering")
          \in ScreeningState
    BY <2>2, DegradeType DEF Services, Modules
  <2>4. state' \in ScreeningState
    BY <1>7, <2>3, SetTampering DEF TamperingDetection, CallTamperingService, TypeOK
  <2>5. QED
    BY <1>7, <2>1, <2>4, TypeSplit DEF TamperingDetection
<1>8. CASE ValidationRules
  <2>1. ControlType'
    BY <1>8, FinishType DEF ValidationRules, Node
  <2>2. [state EXCEPT !.validation = "failed"] \in ScreeningState
    BY SetValidation DEF TypeOK
  <2>3. Degrade([state EXCEPT !.validation = "failed"], "validation", "Validation")
          \in ScreeningState
    BY <2>2, DegradeType DEF Services, Modules
  <2>4. [state EXCEPT !.validation = "failed",
                      !.degraded_modules = @ \cup {"OCR_EXTRACTION_EMPTY"}] \in ScreeningState
    <3>1. [[state EXCEPT !.validation = "failed"] EXCEPT
             !.degraded_modules = @ \cup {"OCR_EXTRACTION_EMPTY"}] \in ScreeningState
      BY <2>2, AddModules DEF Modules
    <3>2. QED
      BY <3>1
  <2>5. state' \in ScreeningState
    BY <1>8, <2>3, <2>4, SetValidation DEF ValidationRules, CallValidationService, TypeOK
  <2>6. QED
    BY <1>8, <2>1, <2>5, TypeSplit DEF ValidationRules
<1>9. CASE BlacklistCheck
  <2>1. ControlType'
    BY <1>9, FinishType DEF BlacklistCheck, Node
  <2>2. state' \in ScreeningState
    BY <1>9, SetBlacklist DEF BlacklistCheck, TypeOK
  <2>3. hit' \in BOOLEAN
    BY <1>9 DEF BlacklistCheck, CheckBlacklist, TypeOK
  <2>4. QED
    BY <2>1, <2>2, <2>3 DEF TypeOK, ControlType
<1>10. CASE DocumentGate
  <2>1. ControlType'
    <3>1. (IF IntegrityFlagged(state) THEN {"risk_engine"} ELSE {"face_verification"})
            \in SUBSET Node
      BY DEF Node
    <3>2. QED
      BY <1>10, <3>1, FinishType DEF DocumentGate, Node
  <2>2. state' \in ScreeningState
    BY <1>10, SetFace DEF DocumentGate, TypeOK
  <2>3. QED
    BY <1>10, <2>1, <2>2, TypeSplit DEF DocumentGate
<1>11. CASE FaceVerification
  <2>1. ControlType'
    BY <1>11, FinishType DEF FaceVerification, Node
  <2>2. [state EXCEPT !.face = "unknown"] \in ScreeningState
    BY SetFace DEF TypeOK
  <2>3. Degrade([state EXCEPT !.face = "unknown"], "face", "FaceVerification")
          \in ScreeningState
    BY <2>2, DegradeType DEF Services, Modules
  <2>4. state' \in ScreeningState
    BY <1>11, <2>3, SetFace DEF FaceVerification, CallFaceService, TypeOK
  <2>5. QED
    BY <1>11, <2>1, <2>4, TypeSplit DEF FaceVerification
<1>12. CASE CrossCheckpoint
  <2>1. ControlType'
    BY <1>12, FinishType DEF CrossCheckpoint, Node
  <2>2. Degrade(state, "cross_checkpoint", "CrossCheckpoint") \in ScreeningState
    BY DegradeType DEF Services, Modules, TypeOK
  <2>3. state' \in ScreeningState
    BY <1>12, <2>2, SetCrossCheckpoint DEF CrossCheckpoint, CallCrossCheckpointService, TypeOK
  <2>4. QED
    BY <1>12, <2>1, <2>3, TypeSplit DEF CrossCheckpoint
<1>13. CASE RiskEngine
  <2>1. \A s : {RouteByThreatLevel(s)} \in SUBSET Node
    BY DEF RouteByThreatLevel, Node
  <2>2. ControlType'
    BY <1>13, <2>1, FinishType DEF RiskEngine, Node
  <2>3. state' \in ScreeningState
    BY <1>13, SetRisk DEF RiskEngine, CallRiskEngine, TypeOK
  <2>4. QED
    BY <1>13, <2>2, <2>3, TypeSplit DEF RiskEngine
<1>14. CASE SecondaryInspection
  <2>1. ControlType'
    BY <1>14, FinishType DEF SecondaryInspection, Node
  <2>2. state' \in ScreeningState
    BY <1>14, SetStatus DEF SecondaryInspection, TypeOK, Status
  <2>3. QED
    BY <1>14, <2>1, <2>2, TypeSplit DEF SecondaryInspection
<1>15. CASE StandardClearance
  <2>1. ControlType'
    BY <1>15, FinishType DEF StandardClearance, Node
  <2>2. state' \in ScreeningState
    BY <1>15, SetStatus DEF StandardClearance, TypeOK, Status
  <2>3. QED
    BY <1>15, <2>1, <2>2, TypeSplit DEF StandardClearance
<1>16. CASE AuditLedgerNode
  <2>1. ControlType'
    BY <1>16, FinishType DEF AuditLedgerNode, Node
  <2>2. QED
    BY <1>16, <2>1, TypeSplit DEF AuditLedgerNode, TypeOK
<1>17. CASE Superstep
  BY <1>17 DEF Superstep, TypeOK, Node
<1>18. CASE Return
  <2>1. graph \in Graphs /\ state.extraction # None /\ state.tampering # None
          /\ state.validation # None
    BY <1>18 DEF Return, TypeOK, PlaceInv, Idle, Forensics, ResultsOwed, Pending, AtGate, AtTail,
                 Position, Ended, Complete
  <2>2. Result(state) \in Record
    BY <2>1, ResultType DEF TypeOK
  <2>3. CASE graph = "stage2"
    <3>1. record \in Record
      BY <1>18, <2>3 DEF RecordInv, TypeOK
    <3>2. [Result(state) EXCEPT !.extraction = record.extraction,
             !.validation = record.validation, !.tampering = record.tampering] \in Record
      BY <2>2, <3>1 DEF Record
    <3>3. QED
      BY <1>18, <2>3, <3>2 DEF Return, TypeOK, Graphs
  <2>4. CASE graph # "stage2"
    BY <1>18, <2>2, <2>4 DEF Return, TypeOK, Graphs
  <2>5. QED
    BY <2>3, <2>4
<1>19. CASE NextDocument
  BY <1>19 DEF NextDocument, TypeOK
<1>20. QED
  BY <1>1, <1>2, <1>3, <1>4, <1>5, <1>6, <1>7, <1>8, <1>9, <1>10, <1>11, <1>12, <1>13, <1>14,
     <1>15, <1>16, <1>17, <1>18, <1>19 DEF Next, NodeStep

-----------------------------------------------------------------------------
(***************************************************************************)
(* Where the run is, from a node that is running.                          *)
(***************************************************************************)
LEMMA InForensics ==
  ASSUME PlaceInv, NEW n \in PreGate, n \in active
  PROVE  Forensics
  <1>1. n \notin Tail \cup {"document_gate"}
    BY DEF Tail, PreGate
  <1>2. QED
    BY <1>1 DEF PlaceInv, Idle, AtGate, AtTail, Position, Ended, Tail

LEMMA InGate ==
  ASSUME PlaceInv, "document_gate" \in active
  PROVE  AtGate
  BY DEF PlaceInv, Idle, Forensics, PreGate, AtTail, Position, Ended

LEMMA InTail ==
  ASSUME PlaceInv, NEW n \in Tail, n \in active
  PROVE  AtTail /\ active = {n} /\ triggered = {} /\ arrived = {} /\ graph \in {"stage2", "unified"}
  <1>1. n \notin PreGate \cup {"document_gate"}
    BY DEF Tail, PreGate
  <1>2. AtTail
    BY <1>1 DEF PlaceInv, Idle, Forensics, AtGate, Ended
  <1>3. QED
    BY <1>2 DEF AtTail, Position

(***************************************************************************)
(* What a node that finishes leaves to the run.                            *)
(***************************************************************************)
LEMMA FinishRan ==
  ASSUME TypeOK, RunInv, NEW n \in Node, NEW targets, Finish(n, targets)
  PROVE  /\ ran'[n] = 1
         /\ \A m \in Node \ {n} : ran'[m] = ran[m]
  <1>1. ran[n] = 0
    BY DEF Finish, RunInv, Pending
  <1>2. QED
    BY <1>1 DEF TypeOK, Finish, Often

(***************************************************************************)
(* A node before the gate leaves the run before the gate.  The updates of  *)
(* its results are given by the caller.                                    *)
(***************************************************************************)
LEMMA ForensicsFinish ==
  ASSUME TypeOK, RunInv, Forensics, state' \in ScreeningState,
         NEW n \in PreGate, NEW targets, Finish(n, targets),
         targets \subseteq {"llm_vision_fallback", "validation_rules", "blacklist_check"},
         n = "ocr_extraction" => "blacklist_check" \in targets
           /\ ("validation_rules" \in targets <=> "llm_vision_fallback" \notin targets),
         n = "llm_vision_fallback" => targets = {"validation_rules"},
         n \notin {"ocr_extraction", "llm_vision_fallback"} => targets = {},
         state'.face = None, state'.cross_checkpoint = None, state'.risk_score = None,
         state'.inspection_status = state.inspection_status,
         state'.extraction = None => state.extraction = None /\ n # "ocr_extraction",
         state'.tampering = None => state.tampering = None /\ n # "tampering_detection",
         state'.validation = None => state.validation = None /\ n # "validation_rules",
         state'.blacklist = None => state.blacklist = None /\ n # "blacklist_check"
  PROVE  Forensics'
  <1>1. /\ n \in active /\ active' = active \ {n} /\ triggered' = triggered \cup targets
        /\ graph' = graph
    BY DEF Finish
  <1>2. arrived' = IF graph = "unified" THEN arrived \cup ({n} \cap Gated) ELSE arrived
    BY DEF Finish
  <1>3. n \in Node
    BY DEF Node, PreGate
  <1>4. ran'[n] = 1 /\ \A m \in Node \ {n} : ran'[m] = ran[m]
    BY <1>3, FinishRan
  <1>5. (ran["document_gate"] = 0 /\ \A m \in Tail : ran[m] = 0)'
    BY <1>4 DEF Forensics, Tail, Node, PreGate
  <1>6. ResultsOwed'
    BY <1>1 DEF Forensics, ResultsOwed, Pending
  <1>7. ArrivalsOwed'
    BY <1>1, <1>2 DEF Forensics, ArrivalsOwed, Pending, Gated
  <1>8. (active \subseteq PreGate
          /\ triggered \subseteq {"llm_vision_fallback", "validation_rules", "blacklist_check"})'
    BY <1>1 DEF Forensics
  <1>9. ("ocr_extraction" \in active =>
           \A m \in {"llm_vision_fallback", "validation_rules", "blacklist_check"} :
             m \notin Pending \cup arrived /\ ran[m] = 0)'
    <2> SUFFICES ASSUME "ocr_extraction" \in active',
                        NEW m \in {"llm_vision_fallback", "validation_rules", "blacklist_check"}
                 PROVE  m \notin Pending' \cup arrived' /\ ran'[m] = 0
      OBVIOUS
    <2>1. n # "ocr_extraction" /\ "ocr_extraction" \in active
      BY <1>1
    <2>2. m \notin Pending \cup arrived /\ ran[m] = 0
      BY <2>1 DEF Forensics
    <2>3. n # m /\ n # "llm_vision_fallback"
      BY <1>1, <2>1, <2>2 DEF Forensics, Pending
    <2>4. QED
      BY <1>1, <1>2, <1>4, <2>1, <2>2, <2>3 DEF Pending, Node
  <1>10. ("llm_vision_fallback" \in Pending =>
            "validation_rules" \notin Pending \cup arrived /\ ran["validation_rules"] = 0)'
    <2> SUFFICES ASSUME "llm_vision_fallback" \in Pending'
                 PROVE  "validation_rules" \notin Pending' \cup arrived' /\ ran'["validation_rules"] = 0
      OBVIOUS
    <2>1. n # "llm_vision_fallback"
      BY <1>1 DEF Forensics, Pending
    <2>2. n # "validation_rules" /\ "validation_rules" \notin Pending \cup arrived
            /\ ran["validation_rules"] = 0
      BY <1>1, <2>1 DEF Forensics, Pending
    <2>3. "validation_rules" \notin targets
      BY <1>1, <2>1, <2>2 DEF Forensics, Pending
    <2>4. QED
      BY <1>1, <1>2, <1>4, <2>2, <2>3 DEF Pending, Node
  <1>11. (active \cap triggered = {} /\ active \cap arrived = {} /\ triggered \cap arrived = {})'
    BY <1>1, <1>2 DEF Forensics, Pending
  <1>12. QED
    BY <1>1, <1>2, <1>5, <1>6, <1>7, <1>8, <1>9, <1>10, <1>11 DEF Forensics

(***************************************************************************)
(* Reports leave the results alone.                                        *)
(***************************************************************************)
SameResults(s, t) ==
  /\ s.extraction = t.extraction /\ s.validation = t.validation
  /\ s.tampering = t.tampering /\ s.face = t.face /\ s.blacklist = t.blacklist
  /\ s.cross_checkpoint = t.cross_checkpoint /\ s.risk_score = t.risk_score
  /\ s.inspection_status = t.inspection_status

LEMMA DegradeResults ==
  ASSUME NEW s \in ScreeningState, NEW service, NEW module
  PROVE  SameResults(Degrade(s, service, module), s)
  BY DEF Degrade, ScreeningState, SameResults

LEMMA ModulesResults ==
  ASSUME NEW s \in ScreeningState, NEW ms
  PROVE  SameResults([s EXCEPT !.degraded_modules = @ \cup ms], s)
  BY DEF ScreeningState, SameResults

LEMMA RunPlace ==
  ASSUME NEW g \in {"stage1", "unified"}, NEW b,
         NEW status, g = "stage1" => status = "pending_biometric",
         Start(g, b, FanOut, EmptyState(status))
  PROVE  Forensics'
  <1>1. graph' = g /\ active' = FanOut /\ triggered' = {} /\ arrived' = {}
          /\ state' = EmptyState(status) /\ ran' = [n \in Node |-> 0]
    BY DEF Start
  <1>2. (ran["document_gate"] = 0 /\ \A n \in Tail : ran[n] = 0)'
    BY <1>1 DEF Node, Tail
  <1>3. ("ocr_extraction" \in active =>
           \A n \in {"llm_vision_fallback", "validation_rules", "blacklist_check"} :
             n \notin Pending \cup arrived /\ ran[n] = 0)'
    BY <1>1 DEF FanOut, Pending, Node
  <1>4. ("llm_vision_fallback" \in Pending =>
            "validation_rules" \notin Pending \cup arrived /\ ran["validation_rules"] = 0)'
    BY <1>1 DEF FanOut, Pending
  <1>5. ResultsOwed' /\ ArrivalsOwed'
    BY <1>1 DEF ResultsOwed, ArrivalsOwed, FanOut, EmptyState
  <1>6. QED
    BY <1>1, <1>2, <1>3, <1>4, <1>5 DEF Forensics, FanOut, PreGate, EmptyState

LEMMA SuperstepPlace == TypeOK /\ PlaceInv /\ Superstep => PlaceInv'
<1> SUFFICES ASSUME TypeOK, PlaceInv, Superstep PROVE PlaceInv'
  OBVIOUS
<1>1. graph # "idle" /\ active = {} /\ UNCHANGED <<graph, live, state, record, ran, hit>>
  BY DEF Superstep
<1>2. CASE Forensics /\ GateOpens
  <2>1. graph = "unified"
    BY <1>2 DEF Forensics, GateOpens, Gated
  <2>2. triggered = {}
    BY <1>2 DEF Forensics, GateOpens, Gated, Pending
  <2>3. active' = {"document_gate"} /\ triggered' = {} /\ arrived' = {}
    BY <1>2, <2>2 DEF Superstep
  <2>4. Complete
    BY <1>1, <1>2, <2>2 DEF Forensics, ResultsOwed, Complete, Pending
  <2>5. AtGate'
    BY <1>1, <1>2, <2>1, <2>3, <2>4 DEF AtGate, Complete, Forensics
  <2>6. QED
    BY <2>5 DEF PlaceInv
<1>3. CASE Forensics /\ ~GateOpens
  <2>1. active' = triggered /\ triggered' = {} /\ arrived' = arrived
    BY <1>3 DEF Superstep
  <2>2. Pending' = Pending
    BY <1>1, <2>1 DEF Pending
  <2>3. ResultsOwed'
    BY <1>1, <1>3, <2>1, <2>2 DEF Forensics, ResultsOwed
  <2>4. ArrivalsOwed'
    BY <1>1, <1>3, <2>1, <2>2 DEF Forensics, ArrivalsOwed
  <2>5. active' \subseteq PreGate /\ "ocr_extraction" \notin active'
    BY <1>3, <2>1 DEF Forensics, PreGate
  <2>6. Forensics'
    BY <1>1, <1>3, <2>1, <2>2, <2>3, <2>4, <2>5 DEF Forensics
  <2>7. QED
    BY <2>6 DEF PlaceInv
<1>4. CASE AtTail
  <2>1. arrived = {} /\ ~GateOpens
    BY <1>4 DEF AtTail, Position, GateOpens, Gated
  <2>2. active' = triggered /\ triggered' = {} /\ arrived' = {}
    BY <2>1 DEF Superstep
  <2>3. \A n : Position(n) => Position(n)'
    BY <1>1, <2>2 DEF Position
  <2>4. AtTail'
    BY <1>1, <1>4, <2>3 DEF AtTail, Complete, RouteByThreatLevel, Anomalous
  <2>5. QED
    BY <2>4 DEF PlaceInv
<1>5. CASE Idle \/ AtGate \/ Ended
  BY <1>1, <1>5 DEF Idle, AtGate, Ended, Superstep, GateOpens, Gated
<1>6. QED
  BY <1>2, <1>3, <1>4, <1>5 DEF PlaceInv

LEMMA PlaceStep == TypeOK /\ PlaceInv /\ RunInv /\ RecordInv /\ Next => PlaceInv'
<1> SUFFICES ASSUME TypeOK, PlaceInv, RunInv, RecordInv, Next PROVE PlaceInv'
  OBVIOUS
<1> USE NoneIsNoValue
<1>0. state \in ScreeningState /\ state' \in ScreeningState
  BY TypeStep DEF TypeOK
<1>1. CASE RunStage1
  BY <1>1, RunPlace DEF RunStage1, PlaceInv
<1>2. CASE RunUnified
  BY <1>2, RunPlace DEF RunUnified, PlaceInv
<1>3. CASE RunStage2
  <2>1. record \in Record
    BY <1>3 DEF RunStage2, TypeOK
  <2>2. graph' = "stage2" /\ active' = {"face_verification"} /\ triggered' = {} /\ arrived' = {}
          /\ state' = Stage2State(record) /\ ran' = [n \in Node |-> 0]
    BY <1>3 DEF RunStage2, Start
  <2>3. Complete' /\ (state.cross_checkpoint = None /\ state.risk_score = None)'
    BY <2>1, <2>2 DEF Complete, Stage2State, EmptyState, Record
  <2>4. \A n \in Tail : ran'[n] = 0
    BY <2>2 DEF Tail, Node
  <2>5. AtTail'
    BY <2>2, <2>3, <2>4 DEF AtTail, Position
  <2>6. QED
    BY <2>5 DEF PlaceInv
<1>4. CASE BufferImages
  <2>1. "buffer_images" \in PreGate /\ "buffer_images" \in active
    BY <1>4 DEF BufferImages, Finish, PreGate
  <2>2. Forensics
    BY <2>1, InForensics
  <2>3. Finish("buffer_images", {})
    BY <1>4 DEF BufferImages
  <2>4. state' = state
    BY <1>4 DEF BufferImages
  <2>5. /\ state'.face = state.face
        /\ state'.cross_checkpoint = state.cross_checkpoint
        /\ state'.risk_score = state.risk_score
        /\ state'.inspection_status = state.inspection_status
        /\ state'.extraction = state.extraction
        /\ state'.tampering = state.tampering
        /\ state'.validation = state.validation
        /\ state'.blacklist = state.blacklist
    BY <2>4
  <2>6. Forensics'
    BY <1>0, <2>1, <2>2, <2>3, <2>4, <2>5, ForensicsFinish DEF Forensics
  <2>7. QED
    BY <2>6 DEF PlaceInv
<1>5. CASE OcrExtraction
  <2>1. "ocr_extraction" \in PreGate /\ "ocr_extraction" \in active
    BY <1>5 DEF OcrExtraction, Finish, PreGate
  <2>2. Forensics
    BY <2>1, InForensics
  <2>3. PICK targets :
          /\ Finish("ocr_extraction", targets)
          /\ \/ targets = {"blacklist_check", "llm_vision_fallback"}
             \/ targets = {"blacklist_check", "validation_rules"}
    BY <1>5 DEF OcrExtraction, CheckOcrQuality
  <2>4. PICK e \in Extraction : SameResults(state', [state EXCEPT !.extraction = e])
    <3>1. ASSUME NEW e \in Extraction, NEW ms,
                 state' = [state EXCEPT !.extraction = e, !.degraded_modules = @ \cup ms]
          PROVE  SameResults(state', [state EXCEPT !.extraction = e])
      <4>1. state' = [[state EXCEPT !.extraction = e] EXCEPT !.degraded_modules = @ \cup ms]
        BY <3>1
      <4>2. QED
        BY <4>1, <1>0, SetExtraction, ModulesResults
    <3>2. ASSUME NEW e \in Extraction, state' = Degrade([state EXCEPT !.extraction = e], "ocr", "OCR")
          PROVE  SameResults(state', [state EXCEPT !.extraction = e])
      BY <3>2, <1>0, SetExtraction, DegradeResults
    <3>3. [identity |-> None, mrz |-> "absent", poor |-> FALSE] \in Extraction
      BY DEF Extraction
    <3>4. QED
      BY <1>5, <3>1, <3>2, <3>3 DEF OcrExtraction, CallOcrService
  <2>5. state'.extraction = e /\ state'.tampering = state.tampering
          /\ state'.validation = state.validation /\ state'.blacklist = state.blacklist
          /\ state'.face = state.face /\ state'.cross_checkpoint = state.cross_checkpoint
          /\ state'.risk_score = state.risk_score
          /\ state'.inspection_status = state.inspection_status
    BY <2>4, <1>0 DEF SameResults, ScreeningState
  <2>6. Forensics'
    BY <1>0, <2>1, <2>2, <2>3, <2>4, <2>5, ForensicsFinish DEF Forensics
  <2>7. QED
    BY <2>6 DEF PlaceInv
<1>6. CASE LlmVisionFallback
  <2>1. "llm_vision_fallback" \in PreGate /\ "llm_vision_fallback" \in active
    BY <1>6 DEF LlmVisionFallback, Finish, PreGate
  <2>2. Forensics
    BY <2>1, InForensics
  <2>3. Finish("llm_vision_fallback", {"validation_rules"})
    BY <1>6 DEF LlmVisionFallback
  <2>4. state.extraction # None /\ state'.extraction # None
    <3>1. state.extraction \in Extraction
      BY <2>1, ExtractionThere
    <3>2. state'.extraction \in Extraction
      <4>1. ASSUME NEW i \in Identities, state' = [state EXCEPT !.extraction.identity = i]
            PROVE  state'.extraction \in Extraction
        <5>1. state'.extraction = [state.extraction EXCEPT !.identity = i]
          BY <4>1, <1>0 DEF ScreeningState
        <5>2. QED
          BY <3>1, <5>1 DEF Extraction
      <4>2. QED
        BY <1>6, <3>1, <4>1 DEF LlmVisionFallback
    <3>3. QED
      BY <3>1, <3>2
  <2>5. /\ state'.face = state.face
        /\ state'.cross_checkpoint = state.cross_checkpoint
        /\ state'.risk_score = state.risk_score
        /\ state'.inspection_status = state.inspection_status
        /\ state'.tampering = state.tampering
        /\ state'.validation = state.validation
        /\ state'.blacklist = state.blacklist
    BY <1>6, <1>0 DEF LlmVisionFallback, ScreeningState
  <2>6. Forensics'
    BY <1>0, <2>1, <2>2, <2>3, <2>4, <2>5, ForensicsFinish DEF Forensics
  <2>7. QED
    BY <2>6 DEF PlaceInv
<1>7. CASE TamperingDetection
  <2>1. "tampering_detection" \in PreGate /\ "tampering_detection" \in active
    BY <1>7 DEF TamperingDetection, Finish, PreGate
  <2>2. Forensics
    BY <2>1, InForensics
  <2>3. Finish("tampering_detection", {})
    BY <1>7 DEF TamperingDetection
  <2>4. PICK v \in {"clean", "flagged"} : SameResults(state', [state EXCEPT !.tampering = v])
    <3>1. ASSUME NEW v \in {"clean", "flagged"}, state' = [state EXCEPT !.tampering = v]
          PROVE  SameResults(state', [state EXCEPT !.tampering = v])
      BY <3>1 DEF SameResults
    <3>2. ASSUME state' = Degrade([state EXCEPT !.tampering = "clean"], "tampering", "Tampering")
          PROVE  SameResults(state', [state EXCEPT !.tampering = "clean"])
      BY <3>2, <1>0, SetTampering, DegradeResults
    <3>4. QED
      BY <1>7, <3>1, <3>2 DEF TamperingDetection, CallTamperingService
  <2>5. /\ state'.face = state.face
        /\ state'.cross_checkpoint = state.cross_checkpoint
        /\ state'.risk_score = state.risk_score
        /\ state'.inspection_status = state.inspection_status
        /\ state'.extraction = state.extraction
        /\ state'.validation = state.validation
        /\ state'.blacklist = state.blacklist
        /\ state'.tampering = v
    BY <2>4, <1>0 DEF SameResults, ScreeningState
  <2>6. Forensics'
    BY <1>0, <2>1, <2>2, <2>3, <2>4, <2>5, ForensicsFinish DEF Forensics
  <2>7. QED
    BY <2>6 DEF PlaceInv
<1>8. CASE ValidationRules
  <2>1. "validation_rules" \in PreGate /\ "validation_rules" \in active
    BY <1>8 DEF ValidationRules, Finish, PreGate
  <2>2. Forensics
    BY <2>1, InForensics
  <2>3. Finish("validation_rules", {})
    BY <1>8 DEF ValidationRules
  <2>4. PICK v \in {"passed", "failed"} : SameResults(state', [state EXCEPT !.validation = v])
    <3>1. ASSUME NEW v \in {"passed", "failed"}, state' = [state EXCEPT !.validation = v]
          PROVE  SameResults(state', [state EXCEPT !.validation = v])
      BY <3>1 DEF SameResults
    <3>2. ASSUME state' = Degrade([state EXCEPT !.validation = "failed"], "validation", "Validation")
          PROVE  SameResults(state', [state EXCEPT !.validation = "failed"])
      BY <3>2, <1>0, SetValidation, DegradeResults
    <3>3. ASSUME state' = [state EXCEPT !.validation = "failed",
                             !.degraded_modules = @ \cup {"OCR_EXTRACTION_EMPTY"}]
          PROVE  SameResults(state', [state EXCEPT !.validation = "failed"])
      <4>1. state' = [[state EXCEPT !.validation = "failed"] EXCEPT
                        !.degraded_modules = @ \cup {"OCR_EXTRACTION_EMPTY"}]
        BY <3>3
      <4>2. QED
        BY <4>1, <1>0, SetValidation, ModulesResults
    <3>4. QED
      BY <1>8, <3>1, <3>2, <3>3 DEF ValidationRules, CallValidationService
  <2>5. /\ state'.face = state.face
        /\ state'.cross_checkpoint = state.cross_checkpoint
        /\ state'.risk_score = state.risk_score
        /\ state'.inspection_status = state.inspection_status
        /\ state'.extraction = state.extraction
        /\ state'.tampering = state.tampering
        /\ state'.blacklist = state.blacklist
        /\ state'.validation = v
    BY <2>4, <1>0 DEF SameResults, ScreeningState
  <2>6. Forensics'
    BY <1>0, <2>1, <2>2, <2>3, <2>4, <2>5, ForensicsFinish DEF Forensics
  <2>7. QED
    BY <2>6 DEF PlaceInv
<1>9. CASE BlacklistCheck
  <2>1. "blacklist_check" \in PreGate /\ "blacklist_check" \in active
    BY <1>9 DEF BlacklistCheck, Finish, PreGate
  <2>2. Forensics
    BY <2>1, InForensics
  <2>3. Finish("blacklist_check", {})
    BY <1>9 DEF BlacklistCheck
  <2>4. PICK v \in {"clear", "hit"} : SameResults(state', [state EXCEPT !.blacklist = v])
    <3>1. ASSUME NEW v \in {"clear", "hit"}, state' = [state EXCEPT !.blacklist = v]
          PROVE  SameResults(state', [state EXCEPT !.blacklist = v])
      BY <3>1 DEF SameResults
    <3>4. QED
      BY <1>9, <3>1 DEF BlacklistCheck
  <2>5. /\ state'.face = state.face
        /\ state'.cross_checkpoint = state.cross_checkpoint
        /\ state'.risk_score = state.risk_score
        /\ state'.inspection_status = state.inspection_status
        /\ state'.extraction = state.extraction
        /\ state'.tampering = state.tampering
        /\ state'.validation = state.validation
        /\ state'.blacklist = v
    BY <2>4, <1>0 DEF SameResults, ScreeningState
  <2>6. Forensics'
    BY <1>0, <2>1, <2>2, <2>3, <2>4, <2>5, ForensicsFinish DEF Forensics
  <2>7. QED
    BY <2>6 DEF PlaceInv
<1>10. CASE DocumentGate
  <2>1. AtGate
    BY <1>10, InGate DEF DocumentGate, Finish
  <2>2. /\ graph' = graph /\ arrived' = {} /\ active' = {}
        /\ triggered' = {"risk_engine"} \/ triggered' = {"face_verification"}
        /\ triggered' = {"risk_engine"} => state' = [state EXCEPT !.face = "bypassed"]
        /\ triggered' # {"risk_engine"} => state' = state
    BY <1>10, <2>1 DEF DocumentGate, Finish, AtGate, Gated
  <2>3. "document_gate" \in Node /\ "document_gate" \notin Tail /\ Tail \subseteq Node
    BY DEF Node, Tail
  <2>4. \A n \in Tail : ran'[n] = 0
    BY <1>10, <2>1, <2>3, FinishRan DEF DocumentGate, AtGate
  <2>5. /\ Complete' /\ state'.cross_checkpoint = None /\ state'.risk_score = None
        /\ triggered' = {"risk_engine"} => state'.face # None
    BY <1>0, <2>1, <2>2 DEF AtGate, Complete, ScreeningState
  <2>6. AtTail'
    BY <2>1, <2>2, <2>4, <2>5 DEF AtTail, Position, AtGate
  <2>7. QED
    BY <2>6 DEF PlaceInv
<1>11. CASE FaceVerification
  <2>1. Finish("face_verification", {"cross_checkpoint"})
    BY <1>11 DEF FaceVerification
  <2>2. /\ AtTail /\ active = {"face_verification"} /\ triggered = {} /\ arrived = {}
        /\ graph \in {"stage2", "unified"}
    BY <2>1, InTail DEF Finish, Tail
  <2>3. /\ (\A n \in Tail : ran[n] = 0)
        /\ state.risk_score = None
    BY <2>2 DEF AtTail, Position
  <2>4. /\ active' = {} /\ triggered' = {"cross_checkpoint"} /\ arrived' = {} /\ graph' = graph
    BY <2>1, <2>2 DEF Finish, Gated
  <2>5. \A n \in Tail \ {"face_verification"} : ran'[n] = 0
    BY <2>1, <2>3, FinishRan DEF Tail, Node
  <2>6. PICK f \in {"compared", "unknown"} : SameResults(state', [state EXCEPT !.face = f])
    <3>1. ASSUME NEW f \in {"compared"}, state' = [state EXCEPT !.face = f]
          PROVE  SameResults(state', [state EXCEPT !.face = f])
      BY <3>1 DEF SameResults
    <3>2. ASSUME state' = Degrade([state EXCEPT !.face = "unknown"], "face", "FaceVerification")
          PROVE  SameResults(state', [state EXCEPT !.face = "unknown"])
      BY <3>2, <1>0, SetFace, DegradeResults
    <3>3. QED
      BY <1>11, <3>1, <3>2 DEF FaceVerification, CallFaceService
  <2>7. /\ state'.extraction = state.extraction /\ state'.tampering = state.tampering
        /\ state'.validation = state.validation /\ state'.blacklist = state.blacklist
        /\ state'.face # None /\ state'.risk_score = None
    BY <2>3, <2>6, <1>0 DEF SameResults, ScreeningState
  <2>8. AtTail'
    BY <2>2, <2>4, <2>5, <2>7 DEF AtTail, Position, Complete
  <2>9. QED
    BY <2>8 DEF PlaceInv
<1>12. CASE CrossCheckpoint
  <2>1. Finish("cross_checkpoint", {"risk_engine"})
    BY <1>12 DEF CrossCheckpoint
  <2>2. /\ AtTail /\ active = {"cross_checkpoint"} /\ triggered = {} /\ arrived = {}
        /\ graph \in {"stage2", "unified"}
    BY <2>1, InTail DEF Finish, Tail
  <2>3. /\ (\A n \in Tail \ {"face_verification"} : ran[n] = 0)
        /\ state.face # None /\ state.risk_score = None
    BY <2>2 DEF AtTail, Position
  <2>4. /\ active' = {} /\ triggered' = {"risk_engine"} /\ arrived' = {} /\ graph' = graph
    BY <2>1, <2>2 DEF Finish, Gated
  <2>5. \A n \in Tail \ {"face_verification", "cross_checkpoint"} : ran'[n] = 0
    BY <2>1, <2>3, FinishRan DEF Tail, Node
  <2>6. \/ SameResults(state', state)
        \/ \E c \in {"clear", "repeat_offender"} : state' = [state EXCEPT !.cross_checkpoint = c]
    <3>1. ASSUME state' = Degrade(state, "cross_checkpoint", "CrossCheckpoint")
          PROVE  SameResults(state', state)
      BY <3>1, <1>0, DegradeResults
    <3>2. ASSUME UNCHANGED state PROVE SameResults(state', state)
      BY <3>2 DEF SameResults
    <3>3. QED
      BY <1>12, <3>1, <3>2 DEF CrossCheckpoint, CallCrossCheckpointService
  <2>7. /\ state'.extraction = state.extraction /\ state'.tampering = state.tampering
        /\ state'.validation = state.validation /\ state'.blacklist = state.blacklist
        /\ state'.face = state.face /\ state'.risk_score = None
    BY <2>3, <2>6, <1>0 DEF SameResults, ScreeningState
  <2>8. AtTail'
    BY <2>2, <2>3, <2>4, <2>5, <2>7 DEF AtTail, Position, Complete
  <2>9. QED
    BY <2>8 DEF PlaceInv
<1>13. CASE RiskEngine
  <2>1. PICK r \in CallRiskEngine(state) :
          LET s == [state EXCEPT !.risk_score = r] IN
          state' = s /\ Finish("risk_engine", {RouteByThreatLevel(s)})
    BY <1>13 DEF RiskEngine
  <2>2. state' = [state EXCEPT !.risk_score = r] /\ Finish("risk_engine", {RouteByThreatLevel(state')})
    BY <2>1
  <2>3. /\ AtTail /\ active = {"risk_engine"} /\ triggered = {} /\ arrived = {}
        /\ graph \in {"stage2", "unified"}
    BY <2>2, InTail DEF Finish, Tail
  <2>4. \A n \in {"secondary_inspection", "standard_clearance", "audit_ledger"} : ran[n] = 0
    BY <2>3 DEF AtTail, Position, Tail
  <2>5. /\ active' = {} /\ triggered' = {RouteByThreatLevel(state')} /\ arrived' = {}
        /\ graph' = graph
    BY <2>2, <2>3 DEF Finish, Gated
  <2>6. \A n \in {"secondary_inspection", "standard_clearance", "audit_ledger"} : ran'[n] = 0
    BY <2>2, <2>4, FinishRan DEF Node
  <2>7. RouteByThreatLevel(state') \in {"secondary_inspection", "standard_clearance"}
    BY DEF RouteByThreatLevel
  <2>8. Complete' /\ state'.risk_score # None
    BY <1>0, <2>1, <2>2, <2>3 DEF AtTail, Complete, ScreeningState, CallRiskEngine
  <2>9. AtTail'
    BY <2>3, <2>5, <2>6, <2>7, <2>8 DEF AtTail, Position
  <2>10. QED
    BY <2>9 DEF PlaceInv
<1>14. CASE SecondaryInspection
  <2>1. Finish("secondary_inspection", {"audit_ledger"})
    BY <1>14 DEF SecondaryInspection
  <2>2. /\ AtTail /\ active = {"secondary_inspection"} /\ triggered = {} /\ arrived = {}
        /\ graph \in {"stage2", "unified"}
    BY <2>1, InTail DEF Finish, Tail
  <2>3. /\ ran["standard_clearance"] = 0 /\ ran["audit_ledger"] = 0
        /\ state.risk_score # None /\ RouteByThreatLevel(state) = "secondary_inspection"
    BY <2>2 DEF AtTail, Position
  <2>4. /\ active' = {} /\ triggered' = {"audit_ledger"} /\ arrived' = {} /\ graph' = graph
    BY <2>1, <2>2 DEF Finish, Gated
  <2>5. ran'["secondary_inspection"] = 1 /\ ran'["standard_clearance"] = 0 /\ ran'["audit_ledger"] = 0
    BY <2>1, <2>3, FinishRan DEF Node
  <2>6. state' = [state EXCEPT !.inspection_status = "secondary_inspection"]
    BY <1>14 DEF SecondaryInspection
  <2>7. /\ Complete' /\ state'.risk_score # None
        /\ state'.inspection_status = "secondary_inspection"
    BY <1>0, <2>2, <2>3, <2>6 DEF AtTail, Complete, ScreeningState
  <2>8. RouteByThreatLevel(state') = RouteByThreatLevel(state)
    BY <1>0, <2>6 DEF RouteByThreatLevel, Anomalous, ScreeningState
  <2>9. AtTail'
    BY <2>2, <2>3, <2>4, <2>5, <2>7, <2>8 DEF AtTail, Position
  <2>10. QED
    BY <2>9 DEF PlaceInv
<1>15. CASE StandardClearance
  <2>1. Finish("standard_clearance", {"audit_ledger"})
    BY <1>15 DEF StandardClearance
  <2>2. /\ AtTail /\ active = {"standard_clearance"} /\ triggered = {} /\ arrived = {}
        /\ graph \in {"stage2", "unified"}
    BY <2>1, InTail DEF Finish, Tail
  <2>3. /\ ran["secondary_inspection"] = 0 /\ ran["audit_ledger"] = 0
        /\ state.risk_score # None /\ RouteByThreatLevel(state) = "standard_clearance"
    BY <2>2 DEF AtTail, Position
  <2>4. /\ active' = {} /\ triggered' = {"audit_ledger"} /\ arrived' = {} /\ graph' = graph
    BY <2>1, <2>2 DEF Finish, Gated
  <2>5. ran'["standard_clearance"] = 1 /\ ran'["secondary_inspection"] = 0 /\ ran'["audit_ledger"] = 0
    BY <2>1, <2>3, FinishRan DEF Node
  <2>6. state' = [state EXCEPT !.inspection_status = "standard_clearance"]
    BY <1>15 DEF StandardClearance
  <2>7. /\ Complete' /\ state'.risk_score # None
        /\ state'.inspection_status = "standard_clearance"
    BY <1>0, <2>2, <2>3, <2>6 DEF AtTail, Complete, ScreeningState
  <2>8. RouteByThreatLevel(state') = RouteByThreatLevel(state)
    BY <1>0, <2>6 DEF RouteByThreatLevel, Anomalous, ScreeningState
  <2>9. AtTail'
    BY <2>2, <2>3, <2>4, <2>5, <2>7, <2>8 DEF AtTail, Position
  <2>10. QED
    BY <2>9 DEF PlaceInv
<1>16. CASE AuditLedgerNode
  <2>1. Finish("audit_ledger", {}) /\ state' = state
    BY <1>16 DEF AuditLedgerNode
  <2>2. /\ AtTail /\ active = {"audit_ledger"} /\ triggered = {} /\ arrived = {}
        /\ graph \in {"stage2", "unified"}
    BY <2>1, InTail DEF Finish, Tail
  <2>3. /\ ran["standard_clearance"] + ran["secondary_inspection"] = 1
        /\ state.risk_score # None /\ state.inspection_status = RouteByThreatLevel(state)
    BY <2>2 DEF AtTail, Position
  <2>4. /\ active' = {} /\ triggered' = {} /\ arrived' = {} /\ graph' = graph
    BY <2>1, <2>2 DEF Finish, Gated
  <2>5. /\ ran'["standard_clearance"] = ran["standard_clearance"]
        /\ ran'["secondary_inspection"] = ran["secondary_inspection"]
        /\ ran'["audit_ledger"] = 1
    BY <2>1, FinishRan DEF Node
  <2>6. Ended'
    BY <2>1, <2>2, <2>3, <2>4, <2>5
    DEF Ended, AtTail, Complete, RouteByThreatLevel, Anomalous
  <2>7. QED
    BY <2>6 DEF PlaceInv
<1>17. CASE Superstep
  BY <1>17, SuperstepPlace
<1>18. CASE Return
  BY <1>18 DEF Return, PlaceInv, Idle
<1>19. CASE NextDocument
  BY <1>19 DEF NextDocument, PlaceInv, Idle, Forensics, AtGate, AtTail, Ended
<1>20. QED
  BY <1>1, <1>2, <1>3, <1>4, <1>5, <1>6, <1>7, <1>8, <1>9, <1>10, <1>11, <1>12, <1>13, <1>14,
     <1>15, <1>16, <1>17, <1>18, <1>19 DEF Next, NodeStep

-----------------------------------------------------------------------------
(***************************************************************************)
(* No node runs twice.                                                     *)
(***************************************************************************)
LEMMA RunFinish ==
  ASSUME TypeOK, RunInv, NEW n \in Node, NEW targets \in SUBSET Node, Finish(n, targets),
         n \notin triggered \cup targets, \A t \in targets : ran[t] = 0
  PROVE  RunInv'
  <1>1. ran'[n] = 1 /\ \A m \in Node \ {n} : ran'[m] = ran[m]
    BY FinishRan
  <1>2. Pending' = (Pending \ {n}) \cup targets
    BY DEF Finish, Pending
  <1>3. Pending' \subseteq Node
    BY <1>2 DEF TypeOK, Pending
  <1>4. \A m \in Pending' : ran'[m] = 0
    BY <1>1, <1>2, <1>3 DEF RunInv
  <1>5. \A m \in Node : ran'[m] <= 1
    BY <1>1 DEF RunInv, NodesRunOnce
  <1>6. QED
    BY <1>4, <1>5 DEF RunInv, NodesRunOnce

LEMMA RunForensics ==
  ASSUME TypeOK, PlaceInv, RunInv, NEW n \in PreGate, NEW targets \in SUBSET Node,
         Finish(n, targets), n \notin targets,
         Forensics => \A t \in targets : ran[t] = 0
  PROVE  RunInv'
  <1>1. Forensics /\ n \in Node
    BY InForensics DEF Finish, PreGate, Node
  <1>2. n \notin triggered
    BY <1>1 DEF Forensics, Finish
  <1>3. QED
    BY <1>1, <1>2, RunFinish

LEMMA RunTail ==
  ASSUME TypeOK, PlaceInv, RunInv, NEW n \in Tail, NEW targets \in SUBSET Node,
         Finish(n, targets), n \notin targets,
         AtTail /\ active = {n} => \A t \in targets : ran[t] = 0
  PROVE  RunInv'
  <1>1. AtTail /\ active = {n} /\ triggered = {} /\ n \in Node
    BY InTail DEF Finish, Tail, Node
  <1>2. QED
    BY <1>1, RunFinish

LEMMA RunStep == TypeOK /\ PlaceInv /\ RunInv /\ Next => RunInv'
<1> SUFFICES ASSUME TypeOK, PlaceInv, RunInv, Next PROVE RunInv'
  OBVIOUS
<1>1. CASE RunStage1 \/ RunUnified \/ RunStage2
  <2>1. ran' = [n \in Node |-> 0] /\ Pending' \subseteq Node
    BY <1>1 DEF RunStage1, RunUnified, RunStage2, Start, FanOut, Node, Pending
  <2>2. QED
    BY <2>1 DEF RunInv, NodesRunOnce
<1>2. CASE BufferImages
  <2>1. Finish("buffer_images", {}) /\ "buffer_images" \in PreGate
    BY <1>2 DEF BufferImages, PreGate
  <2>2. QED
    BY <2>1, RunForensics
<1>3. CASE OcrExtraction
  <2>1. PICK targets \in SUBSET {"blacklist_check", "llm_vision_fallback", "validation_rules"} :
          Finish("ocr_extraction", targets)
    BY <1>3 DEF OcrExtraction, CheckOcrQuality
  <2>2. "ocr_extraction" \in PreGate /\ targets \in SUBSET Node
    BY DEF PreGate, Node
  <2>3. Forensics => \A t \in targets : ran[t] = 0
    BY <2>1 DEF Forensics, Finish
  <2>4. QED
    BY <2>1, <2>2, <2>3, RunForensics
<1>4. CASE LlmVisionFallback
  <2>1. Finish("llm_vision_fallback", {"validation_rules"}) /\ "llm_vision_fallback" \in PreGate
          /\ {"validation_rules"} \in SUBSET Node
    BY <1>4 DEF LlmVisionFallback, PreGate, Node
  <2>2. Forensics => ran["validation_rules"] = 0
    BY <2>1 DEF Forensics, Finish, Pending
  <2>3. QED
    BY <2>1, <2>2, RunForensics
<1>5. CASE TamperingDetection
  <2>1. Finish("tampering_detection", {}) /\ "tampering_detection" \in PreGate
    BY <1>5 DEF TamperingDetection, PreGate
  <2>2. QED
    BY <2>1, RunForensics
<1>6. CASE ValidationRules
  <2>1. Finish("validation_rules", {}) /\ "validation_rules" \in PreGate
    BY <1>6 DEF ValidationRules, PreGate
  <2>2. QED
    BY <2>1, RunForensics
<1>7. CASE BlacklistCheck
  <2>1. Finish("blacklist_check", {}) /\ "blacklist_check" \in PreGate
    BY <1>7 DEF BlacklistCheck, PreGate
  <2>2. QED
    BY <2>1, RunForensics
<1>8. CASE DocumentGate
  <2>1. PICK targets \in SUBSET {"risk_engine", "face_verification"} :
          Finish("document_gate", targets)
    BY <1>8 DEF DocumentGate
  <2>2. AtGate
    BY <2>1, InGate DEF Finish
  <2>3. "document_gate" \notin triggered \cup targets /\ \A t \in targets : ran[t] = 0
    BY <2>2 DEF AtGate, Tail
  <2>4. "document_gate" \in Node /\ targets \in SUBSET Node
    BY DEF Node
  <2>5. QED
    BY <2>1, <2>3, <2>4, RunFinish
<1>9. CASE FaceVerification
  <2>1. Finish("face_verification", {"cross_checkpoint"}) /\ "face_verification" \in Tail
          /\ {"cross_checkpoint"} \in SUBSET Node
    BY <1>9 DEF FaceVerification, Tail, Node
  <2>2. AtTail /\ active = {"face_verification"} => ran["cross_checkpoint"] = 0
    BY DEF AtTail, Position, Tail
  <2>3. QED
    BY <2>1, <2>2, RunTail
<1>10. CASE CrossCheckpoint
  <2>1. Finish("cross_checkpoint", {"risk_engine"}) /\ "cross_checkpoint" \in Tail
          /\ {"risk_engine"} \in SUBSET Node
    BY <1>10 DEF CrossCheckpoint, Tail, Node
  <2>2. AtTail /\ active = {"cross_checkpoint"} => ran["risk_engine"] = 0
    BY DEF AtTail, Position, Tail
  <2>3. QED
    BY <2>1, <2>2, RunTail
<1>11. CASE RiskEngine
  <2>1. PICK t \in {"secondary_inspection", "standard_clearance"} : Finish("risk_engine", {t})
    BY <1>11 DEF RiskEngine, RouteByThreatLevel
  <2>2. "risk_engine" \in Tail /\ {t} \in SUBSET Node
    BY DEF Tail, Node
  <2>3. AtTail /\ active = {"risk_engine"} => ran[t] = 0
    BY DEF AtTail, Position, Tail
  <2>4. QED
    BY <2>1, <2>2, <2>3, RunTail
<1>12. CASE SecondaryInspection
  <2>1. Finish("secondary_inspection", {"audit_ledger"}) /\ "secondary_inspection" \in Tail
          /\ {"audit_ledger"} \in SUBSET Node
    BY <1>12 DEF SecondaryInspection, Tail, Node
  <2>2. AtTail /\ active = {"secondary_inspection"} => ran["audit_ledger"] = 0
    BY DEF AtTail, Position, Tail
  <2>3. QED
    BY <2>1, <2>2, RunTail
<1>13. CASE StandardClearance
  <2>1. Finish("standard_clearance", {"audit_ledger"}) /\ "standard_clearance" \in Tail
          /\ {"audit_ledger"} \in SUBSET Node
    BY <1>13 DEF StandardClearance, Tail, Node
  <2>2. AtTail /\ active = {"standard_clearance"} => ran["audit_ledger"] = 0
    BY DEF AtTail, Position, Tail
  <2>3. QED
    BY <2>1, <2>2, RunTail
<1>14. CASE AuditLedgerNode
  <2>1. Finish("audit_ledger", {}) /\ "audit_ledger" \in Tail
    BY <1>14 DEF AuditLedgerNode, Tail
  <2>2. QED
    BY <2>1, RunTail
<1>15. CASE Superstep
  <2>1. ran' = ran /\ active = {} /\ graph # "idle"
    BY <1>15 DEF Superstep
  <2>2. GateOpens => ran["document_gate"] = 0
    BY <2>1 DEF PlaceInv, Idle, Forensics, AtGate, AtTail, Position, Ended, GateOpens, Gated
  <2>3. Pending' = Pending \cup IF GateOpens THEN {"document_gate"} ELSE {}
    BY <1>15 DEF Superstep, Pending
  <2>4. QED
    BY <2>1, <2>2, <2>3 DEF RunInv, NodesRunOnce
<1>16. CASE Return \/ NextDocument
  <2>1. ran' = ran /\ Pending' = Pending
    BY <1>16 DEF Return, NextDocument, Pending
  <2>2. QED
    BY <2>1 DEF RunInv, NodesRunOnce
<1>17. QED
  BY <1>1, <1>2, <1>3, <1>4, <1>5, <1>6, <1>7, <1>8, <1>9, <1>10, <1>11, <1>12, <1>13, <1>14,
     <1>15, <1>16 DEF Next, NodeStep

-----------------------------------------------------------------------------
(***************************************************************************)
(* Failures are reported.  Reports only grow, and not after the score.     *)
(***************************************************************************)
LEMMA ReportGrow ==
  ASSUME TypeOK, ReportInv, state' \in ScreeningState, graph' = graph,
         state.degraded_modules \subseteq state'.degraded_modules,
         \A s \in state'.failed \ state.failed : ModuleOf[s] \in state'.degraded_modules,
         state'.risk_score = None
  PROVE  ReportInv'
  BY DEF ReportInv, EveryFailureNamed, ModuleOf, ScreeningState, Services, TypeOK

LEMMA ReportSame ==
  ASSUME ReportInv, graph' = graph \/ graph' = "idle",
         state'.failed = state.failed, state'.degraded_modules = state.degraded_modules,
         state'.risk_score = state.risk_score
  PROVE  ReportInv'
  BY DEF ReportInv, EveryFailureNamed

(***************************************************************************)
(* Results leave the reports alone.                                        *)
(***************************************************************************)
LEMMA DegradeReports ==
  ASSUME NEW s \in ScreeningState, NEW service, NEW module
  PROVE  /\ Degrade(s, service, module).failed = s.failed \cup {service}
         /\ Degrade(s, service, module).degraded_modules = s.degraded_modules \cup {module}
         /\ Degrade(s, service, module).risk_score = s.risk_score
  BY DEF Degrade, ScreeningState

LEMMA ReportStep == TypeOK /\ PlaceInv /\ ReportInv /\ RecordInv /\ Next => ReportInv'
<1> SUFFICES ASSUME TypeOK, PlaceInv, ReportInv, RecordInv, Next PROVE ReportInv'
  OBVIOUS
<1>0. state \in ScreeningState /\ state' \in ScreeningState
  BY TypeStep DEF TypeOK
<1>1. CASE RunStage1 \/ RunUnified
  <2>1. PICK status : state' = EmptyState(status)
    BY <1>1 DEF RunStage1, RunUnified, Start
  <2>2. state'.failed = {} /\ state'.risk_score = None
    BY <2>1 DEF EmptyState
  <2>3. QED
    BY <2>2 DEF ReportInv, EveryFailureNamed
<1>2. CASE RunStage2
  <2>1. record \in Record /\ record # None /\ graph' = "stage2" /\ state' = Stage2State(record)
    BY <1>2 DEF RunStage2, Start, TypeOK
  <2>2. /\ state'.failed = record.failed \ {"face", "cross_checkpoint"}
        /\ state'.degraded_modules = IF record.degraded THEN {"degraded"} ELSE {}
        /\ state'.risk_score = None
    BY <2>1 DEF Stage2State, EmptyState
  <2>3. record.failed # {} => record.degraded
    BY <2>1 DEF RecordInv, FailuresReported
  <2>4. QED
    BY <2>1, <2>2, <2>3 DEF ReportInv, EveryFailureNamed
<1>3. CASE OcrExtraction
  <2>1. "ocr_extraction" \in active /\ graph' = graph
    BY <1>3 DEF OcrExtraction, Finish
  <2>2. state.risk_score = None
    BY <2>1, InForensics DEF Forensics, PreGate
  <2>3. ASSUME NEW e \in Extraction, state' = Degrade([state EXCEPT !.extraction = e], "ocr", "OCR")
        PROVE  ReportInv'
    <3> DEFINE s == [state EXCEPT !.extraction = e]
    <3>1. /\ s \in ScreeningState /\ s.failed = state.failed /\ s.risk_score = state.risk_score
          /\ s.degraded_modules = state.degraded_modules
      BY <1>0, SetExtraction DEF ScreeningState
    <3>5. state' = Degrade(s, "ocr", "OCR")
      BY <2>3
    <3> HIDE DEF s
    <3>2. /\ state'.failed = state.failed \cup {"ocr"}
          /\ state'.degraded_modules = state.degraded_modules \cup {"OCR"}
          /\ state'.risk_score = None
      BY <2>2, <3>1, <3>5, DegradeReports
    <3>3. ModuleOf["ocr"] = "OCR"
      BY DEF ModuleOf
    <3>4. QED
      BY <1>0, <2>1, <3>2, <3>3, ReportGrow
  <2>4. ASSUME NEW e \in Extraction, NEW ms,
               state' = [state EXCEPT !.extraction = e, !.degraded_modules = @ \cup ms]
        PROVE  ReportInv'
    <3>1. /\ state'.failed = state.failed
          /\ state'.degraded_modules = state.degraded_modules \cup ms
          /\ state'.risk_score = None
      BY <1>0, <2>2, <2>4 DEF ScreeningState
    <3>2. QED
      BY <1>0, <2>1, <3>1, ReportGrow
  <2>5. [identity |-> None, mrz |-> "absent", poor |-> FALSE] \in Extraction
    BY DEF Extraction
  <2>6. QED
    BY <1>3, <2>3, <2>4, <2>5 DEF OcrExtraction, CallOcrService
<1>4. CASE TamperingDetection
  <2>1. "tampering_detection" \in active /\ graph' = graph
    BY <1>4 DEF TamperingDetection, Finish
  <2>2. state.risk_score = None
    BY <2>1, InForensics DEF Forensics, PreGate
  <2>3. ASSUME state' = Degrade([state EXCEPT !.tampering = "clean"], "tampering", "Tampering")
        PROVE  ReportInv'
    <3> DEFINE s == [state EXCEPT !.tampering = "clean"]
    <3>1. /\ s \in ScreeningState /\ s.failed = state.failed /\ s.risk_score = state.risk_score
          /\ s.degraded_modules = state.degraded_modules
      BY <1>0, SetTampering DEF ScreeningState
    <3>5. state' = Degrade(s, "tampering", "Tampering")
      BY <2>3
    <3> HIDE DEF s
    <3>2. /\ state'.failed = state.failed \cup {"tampering"}
          /\ state'.degraded_modules = state.degraded_modules \cup {"Tampering"}
          /\ state'.risk_score = None
      BY <2>2, <3>1, <3>5, DegradeReports
    <3>3. ModuleOf["tampering"] = "Tampering"
      BY DEF ModuleOf
    <3>4. QED
      BY <1>0, <2>1, <3>2, <3>3, ReportGrow
  <2>5. ASSUME NEW v, state' = [state EXCEPT !.tampering = v]
        PROVE  ReportInv'
    <3>1. /\ state'.failed = state.failed /\ state'.degraded_modules = state.degraded_modules
          /\ state'.risk_score = state.risk_score
      BY <1>0, <2>5 DEF ScreeningState
    <3>2. QED
      BY <2>1, <3>1, ReportSame
  <2>6. QED
    BY <1>4, <2>3, <2>5 DEF TamperingDetection, CallTamperingService
<1>5. CASE ValidationRules
  <2>1. "validation_rules" \in active /\ graph' = graph
    BY <1>5 DEF ValidationRules, Finish
  <2>2. state.risk_score = None
    BY <2>1, InForensics DEF Forensics, PreGate
  <2>3. ASSUME state' = Degrade([state EXCEPT !.validation = "failed"], "validation", "Validation")
        PROVE  ReportInv'
    <3> DEFINE s == [state EXCEPT !.validation = "failed"]
    <3>1. /\ s \in ScreeningState /\ s.failed = state.failed /\ s.risk_score = state.risk_score
          /\ s.degraded_modules = state.degraded_modules
      BY <1>0, SetValidation DEF ScreeningState
    <3>5. state' = Degrade(s, "validation", "Validation")
      BY <2>3
    <3> HIDE DEF s
    <3>2. /\ state'.failed = state.failed \cup {"validation"}
          /\ state'.degraded_modules = state.degraded_modules \cup {"Validation"}
          /\ state'.risk_score = None
      BY <2>2, <3>1, <3>5, DegradeReports
    <3>3. ModuleOf["validation"] = "Validation"
      BY DEF ModuleOf
    <3>4. QED
      BY <1>0, <2>1, <3>2, <3>3, ReportGrow
  <2>4. ASSUME state' = [state EXCEPT !.validation = "failed",
                           !.degraded_modules = @ \cup {"OCR_EXTRACTION_EMPTY"}]
        PROVE  ReportInv'
    <3>1. /\ state'.failed = state.failed
          /\ state'.degraded_modules = state.degraded_modules \cup {"OCR_EXTRACTION_EMPTY"}
          /\ state'.risk_score = None
      BY <1>0, <2>2, <2>4 DEF ScreeningState
    <3>2. QED
      BY <1>0, <2>1, <3>1, ReportGrow
  <2>5. ASSUME NEW v, state' = [state EXCEPT !.validation = v]
        PROVE  ReportInv'
    <3>1. /\ state'.failed = state.failed /\ state'.degraded_modules = state.degraded_modules
          /\ state'.risk_score = state.risk_score
      BY <1>0, <2>5 DEF ScreeningState
    <3>2. QED
      BY <2>1, <3>1, ReportSame
  <2>6. QED
    BY <1>5, <2>3, <2>4, <2>5 DEF ValidationRules, CallValidationService
<1>6. CASE FaceVerification
  <2>1. "face_verification" \in active /\ graph' = graph
    BY <1>6 DEF FaceVerification, Finish
  <2>2. state.risk_score = None
    BY <2>1, InTail DEF AtTail, Position, Tail
  <2>3. ASSUME state' = Degrade([state EXCEPT !.face = "unknown"], "face", "FaceVerification")
        PROVE  ReportInv'
    <3> DEFINE s == [state EXCEPT !.face = "unknown"]
    <3>1. /\ s \in ScreeningState /\ s.failed = state.failed /\ s.risk_score = state.risk_score
          /\ s.degraded_modules = state.degraded_modules
      BY <1>0, SetFace DEF ScreeningState
    <3>5. state' = Degrade(s, "face", "FaceVerification")
      BY <2>3
    <3> HIDE DEF s
    <3>2. /\ state'.failed = state.failed \cup {"face"}
          /\ state'.degraded_modules = state.degraded_modules \cup {"FaceVerification"}
          /\ state'.risk_score = None
      BY <2>2, <3>1, <3>5, DegradeReports
    <3>3. ModuleOf["face"] = "FaceVerification"
      BY DEF ModuleOf
    <3>4. QED
      BY <1>0, <2>1, <3>2, <3>3, ReportGrow
  <2>5. ASSUME NEW v, state' = [state EXCEPT !.face = v]
        PROVE  ReportInv'
    <3>1. /\ state'.failed = state.failed /\ state'.degraded_modules = state.degraded_modules
          /\ state'.risk_score = state.risk_score
      BY <1>0, <2>5 DEF ScreeningState
    <3>2. QED
      BY <2>1, <3>1, ReportSame
  <2>6. QED
    BY <1>6, <2>3, <2>5 DEF FaceVerification, CallFaceService
<1>7. CASE CrossCheckpoint
  <2>1. "cross_checkpoint" \in active /\ graph' = graph
    BY <1>7 DEF CrossCheckpoint, Finish
  <2>2. state.risk_score = None
    BY <2>1, InTail DEF AtTail, Position, Tail
  <2>3. ASSUME state' = Degrade(state, "cross_checkpoint", "CrossCheckpoint")
        PROVE  ReportInv'
    <3>2. /\ state'.failed = state.failed \cup {"cross_checkpoint"}
          /\ state'.degraded_modules = state.degraded_modules \cup {"CrossCheckpoint"}
          /\ state'.risk_score = None
      BY <1>0, <2>2, <2>3, DegradeReports
    <3>3. ModuleOf["cross_checkpoint"] = "CrossCheckpoint"
      BY DEF ModuleOf
    <3>4. QED
      BY <1>0, <2>1, <3>2, <3>3, ReportGrow
  <2>5. ASSUME NEW v, state' = [state EXCEPT !.cross_checkpoint = v]
        PROVE  ReportInv'
    <3>1. /\ state'.failed = state.failed /\ state'.degraded_modules = state.degraded_modules
          /\ state'.risk_score = state.risk_score
      BY <1>0, <2>5 DEF ScreeningState
    <3>2. QED
      BY <2>1, <3>1, ReportSame
  <2>6. ASSUME UNCHANGED state PROVE ReportInv'
    BY <2>1, <2>6, ReportSame
  <2>7. QED
    BY <1>7, <2>3, <2>5, <2>6 DEF CrossCheckpoint, CallCrossCheckpointService
<1>8. CASE BufferImages
  <2>1. /\ graph' = graph
        /\ state'.failed = state.failed /\ state'.degraded_modules = state.degraded_modules
        /\ state'.risk_score = state.risk_score
    BY <1>8, <1>0 DEF BufferImages, Finish, ScreeningState
  <2>2. QED
    BY <2>1, ReportSame
<1>9. CASE LlmVisionFallback
  <2>1. /\ graph' = graph
        /\ state'.failed = state.failed /\ state'.degraded_modules = state.degraded_modules
        /\ state'.risk_score = state.risk_score
    BY <1>9, <1>0 DEF LlmVisionFallback, Finish, ScreeningState
  <2>2. QED
    BY <2>1, ReportSame
<1>10. CASE BlacklistCheck
  <2>1. /\ graph' = graph
        /\ state'.failed = state.failed /\ state'.degraded_modules = state.degraded_modules
        /\ state'.risk_score = state.risk_score
    BY <1>10, <1>0 DEF BlacklistCheck, Finish, ScreeningState
  <2>2. QED
    BY <2>1, ReportSame
<1>11. CASE DocumentGate
  <2>1. /\ graph' = graph
        /\ state'.failed = state.failed /\ state'.degraded_modules = state.degraded_modules
        /\ state'.risk_score = state.risk_score
    BY <1>11, <1>0 DEF DocumentGate, Finish, ScreeningState
  <2>2. QED
    BY <2>1, ReportSame
<1>12. CASE SecondaryInspection
  <2>1. /\ graph' = graph
        /\ state'.failed = state.failed /\ state'.degraded_modules = state.degraded_modules
        /\ state'.risk_score = state.risk_score
    BY <1>12, <1>0 DEF SecondaryInspection, Finish, ScreeningState
  <2>2. QED
    BY <2>1, ReportSame
<1>13. CASE StandardClearance
  <2>1. /\ graph' = graph
        /\ state'.failed = state.failed /\ state'.degraded_modules = state.degraded_modules
        /\ state'.risk_score = state.risk_score
    BY <1>13, <1>0 DEF StandardClearance, Finish, ScreeningState
  <2>2. QED
    BY <2>1, ReportSame
<1>14. CASE AuditLedgerNode
  <2>1. /\ graph' = graph
        /\ state'.failed = state.failed /\ state'.degraded_modules = state.degraded_modules
        /\ state'.risk_score = state.risk_score
    BY <1>14, <1>0 DEF AuditLedgerNode, Finish, ScreeningState
  <2>2. QED
    BY <2>1, ReportSame
<1>15. CASE RiskEngine
  <2>1. PICK r \in CallRiskEngine(state) : state' = [state EXCEPT !.risk_score = r]
    BY <1>15 DEF RiskEngine
  <2>2. graph' = graph
    BY <1>15 DEF RiskEngine, Finish
  <2>3. /\ state'.failed = state.failed /\ state'.degraded_modules = state.degraded_modules
        /\ state'.risk_score = r
    BY <1>0, <2>1 DEF ScreeningState
  <2>4. r.degraded = (state.degraded_modules # {})
    BY <2>1 DEF CallRiskEngine
  <2>5. QED
    BY <2>2, <2>3, <2>4 DEF ReportInv, EveryFailureNamed
<1>16. CASE Superstep \/ Return \/ NextDocument
  <2>1. state' = state /\ (graph' = graph \/ graph' = "idle")
    BY <1>16 DEF Superstep, Return, NextDocument
  <2>2. QED
    BY <2>1, ReportSame
<1>17. QED
  BY <1>1, <1>2, <1>3, <1>4, <1>5, <1>6, <1>7, <1>8, <1>9, <1>10, <1>11, <1>12, <1>13, <1>14, <1>15, <1>16
  DEF Next, NodeStep

-----------------------------------------------------------------------------
(***************************************************************************)
(* The record.                                                             *)
(***************************************************************************)
LEMMA RecordKept ==
  ASSUME RecordInv, record' = record, graph' = graph, graph # "idle",
         graph = "stage2" =>
           \/ SameResults(state', state)
           \/ /\ state'.extraction = state.extraction
              /\ state'.validation = state.validation
              /\ state'.tampering = state.tampering
  PROVE  RecordInv'
  BY DEF RecordInv, ClearedOnlyIfClean, RunsEndDecided, FailuresReported, SameResults

LEMMA RecordStep == PipelineInv /\ Next => RecordInv'
<1> SUFFICES ASSUME TypeOK, PlaceInv, RunInv, ReportInv, RecordInv, Next PROVE RecordInv'
  BY DEF PipelineInv
<1>0. state \in ScreeningState /\ state' \in ScreeningState
  BY TypeStep DEF TypeOK
<1>1. CASE RunStage1 \/ RunUnified \/ RunStage2
  <2>1. record' = record /\ graph' # "idle"
    BY <1>1 DEF RunStage1, RunUnified, RunStage2, Start
  <2>2. graph' = "stage2" => record \in Record /\ record # None /\ state' = Stage2State(record)
    BY <1>1 DEF RunStage1, RunUnified, RunStage2, Start, TypeOK
  <2>3. (graph = "stage2" => record # None /\ record.extraction = state.extraction
           /\ record.validation = state.validation /\ record.tampering = state.tampering)'
    BY <2>1, <2>2 DEF Stage2State, EmptyState
  <2>4. QED
    BY <2>1, <2>3 DEF RecordInv, ClearedOnlyIfClean, RunsEndDecided, FailuresReported
<1>2. CASE NodeStep
  <2>1. PICK n \in Node : n \in active
    BY <1>2 DEF NodeStep, BufferImages, OcrExtraction, LlmVisionFallback, TamperingDetection,
       ValidationRules, BlacklistCheck, DocumentGate, FaceVerification, CrossCheckpoint,
       RiskEngine, SecondaryInspection, StandardClearance, AuditLedgerNode, Finish, Node
  <2>2. graph # "idle"
    BY <2>1 DEF PlaceInv, Idle, Forensics, AtGate, AtTail, Ended
  <2>3. record' = record /\ graph' = graph
    BY <1>2 DEF NodeStep, BufferImages, OcrExtraction, LlmVisionFallback, TamperingDetection,
       ValidationRules, BlacklistCheck, DocumentGate, FaceVerification, CrossCheckpoint,
       RiskEngine, SecondaryInspection, StandardClearance, AuditLedgerNode, Finish
  <2>4. CASE \/ BufferImages \/ OcrExtraction \/ LlmVisionFallback
             \/ TamperingDetection \/ ValidationRules \/ BlacklistCheck
    <3>1. PICK m \in PreGate : m \in active
      BY <2>4 DEF BufferImages, OcrExtraction, LlmVisionFallback, TamperingDetection,
         ValidationRules, BlacklistCheck, Finish, PreGate
    <3>2. graph # "stage2"
      BY <3>1, InForensics DEF Forensics
    <3>3. QED
      BY <2>2, <2>3, <3>2, RecordKept
  <2>5. CASE DocumentGate
    <3>1. graph # "stage2"
      BY <2>5, InGate DEF DocumentGate, Finish, AtGate
    <3>2. QED
      BY <2>2, <2>3, <3>1, RecordKept
  <2>6. CASE FaceVerification
    <3>1. ASSUME state' = Degrade([state EXCEPT !.face = "unknown"], "face", "FaceVerification")
          PROVE  state'.extraction = state.extraction /\ state'.validation = state.validation
                   /\ state'.tampering = state.tampering
      BY <1>0, <3>1 DEF Degrade, ScreeningState
    <3>2. ASSUME NEW f, state' = [state EXCEPT !.face = f]
          PROVE  state'.extraction = state.extraction /\ state'.validation = state.validation
                   /\ state'.tampering = state.tampering
      BY <1>0, <3>2 DEF ScreeningState
    <3>3. state'.extraction = state.extraction /\ state'.validation = state.validation
                   /\ state'.tampering = state.tampering
      BY <2>6, <3>1, <3>2 DEF FaceVerification, CallFaceService
    <3>4. QED
      BY <2>2, <2>3, <3>3, RecordKept
  <2>7. CASE CrossCheckpoint
    <3>1. ASSUME state' = Degrade(state, "cross_checkpoint", "CrossCheckpoint")
          PROVE  state'.extraction = state.extraction /\ state'.validation = state.validation
                   /\ state'.tampering = state.tampering
      BY <1>0, <3>1 DEF Degrade, ScreeningState
    <3>2. ASSUME NEW c, state' = [state EXCEPT !.cross_checkpoint = c]
          PROVE  state'.extraction = state.extraction /\ state'.validation = state.validation
                   /\ state'.tampering = state.tampering
      BY <1>0, <3>2 DEF ScreeningState
    <3>3. state'.extraction = state.extraction /\ state'.validation = state.validation
                   /\ state'.tampering = state.tampering
      BY <2>7, <3>1, <3>2 DEF CrossCheckpoint, CallCrossCheckpointService
    <3>4. QED
      BY <2>2, <2>3, <3>3, RecordKept
  <2>8. CASE RiskEngine \/ SecondaryInspection \/ StandardClearance \/ AuditLedgerNode
    <3>1. state'.extraction = state.extraction /\ state'.validation = state.validation
            /\ state'.tampering = state.tampering
      BY <1>0, <2>8
      DEF RiskEngine, SecondaryInspection, StandardClearance, AuditLedgerNode, ScreeningState
    <3>2. QED
      BY <2>2, <2>3, <3>1, RecordKept
  <2>9. QED
    BY <1>2, <2>4, <2>5, <2>6, <2>7, <2>8 DEF NodeStep
<1>3. CASE Superstep
  <2>1. record' = record /\ graph' = graph /\ graph # "idle" /\ state' = state
    BY <1>3 DEF Superstep
  <2>2. QED
    BY <2>1, RecordKept
<1>4. CASE Return
  <2>1. graph \in Graphs /\ graph' = "idle" /\ ran' = ran /\ active = {} /\ triggered = {}
          /\ ~GateOpens
    BY <1>4 DEF Return, TypeOK
  <2>2. /\ record' \in Record /\ record'.stage = graph
        /\ record'.extraction = state.extraction /\ record'.validation = state.validation
        /\ record'.tampering = state.tampering /\ record'.face = state.face
        /\ record'.cross_checkpoint = state.cross_checkpoint
        /\ record'.risk_score = state.risk_score /\ record'.failed = state.failed
        /\ record'.degraded = (state.degraded_modules # {})
        /\ record'.status = state.inspection_status
    <3>2. CASE graph = "stage2"
      <4>1. record' = [Result(state) EXCEPT !.extraction = record.extraction,
                         !.validation = record.validation, !.tampering = record.tampering]
        BY <1>4, <3>2 DEF Return
      <4>2. record.extraction = state.extraction /\ record.validation = state.validation
              /\ record.tampering = state.tampering
        BY <3>2 DEF RecordInv
      <4>3. state.extraction # None /\ state.tampering # None /\ state.validation # None
        BY <2>1, <3>2 DEF PlaceInv, Idle, Forensics, AtGate, AtTail, Position, Ended, Complete
      <4>4. Result(state) \in Record
        BY <1>0, <2>1, <4>3, ResultType
      <4>5. record' = Result(state)
        BY <4>1, <4>2 DEF Result
      <4>6. QED
        BY <4>4, <4>5 DEF Result
    <3>3. CASE graph # "stage2"
      <4>1. record' = Result(state)
        BY <1>4, <3>3 DEF Return
      <4>2. state.extraction # None /\ state.tampering # None /\ state.validation # None
        BY <2>1, <3>3 DEF PlaceInv, Idle, Forensics, ResultsOwed, Pending, AtGate, AtTail,
           Position, Ended, Complete, Graphs
      <4>3. Result(state) \in Record
        BY <1>0, <2>1, <4>2, ResultType
      <4>4. QED
        BY <4>1, <4>3 DEF Result
    <3>4. QED
      BY <3>2, <3>3
  <2>3. graph # "stage1" => Ended
    BY <2>1 DEF PlaceInv, Idle, Forensics, ArrivalsOwed, Pending, GateOpens, Gated, AtGate,
       AtTail, Position, Graphs
  <2>4. graph = "stage1" => state.inspection_status = "pending_biometric"
    BY <2>1 DEF PlaceInv, Idle, Forensics, AtGate, AtTail, Ended
  <2>5. ClearedOnlyIfClean'
    <3> SUFFICES ASSUME record'.status = "standard_clearance"
                 PROVE  /\ record'.tampering = "clean"
                        /\ record'.validation = "passed"
                        /\ record'.extraction.mrz # "failed"
                        /\ record'.face # "bypassed"
                        /\ record'.cross_checkpoint # "repeat_offender"
                        /\ record'.risk_score.band \notin {"high", "critical"}
      BY DEF ClearedOnlyIfClean
    <3>1. Ended /\ RouteByThreatLevel(state) = "standard_clearance"
      BY <2>2, <2>3, <2>4 DEF Ended
    <3>2. /\ ~Anomalous(state) /\ state.face # "bypassed"
          /\ state.risk_score.band \notin {"high", "critical"}
          /\ state.cross_checkpoint # "repeat_offender"
      BY <3>1 DEF RouteByThreatLevel
    <3>3. state.tampering = "clean" /\ state.validation = "passed" /\ state.extraction.mrz # "failed"
      BY <1>0, <3>1, <3>2 DEF Ended, Complete, Anomalous, ScreeningState
    <3>4. QED
      BY <2>2, <3>2, <3>3
  <2>6. RunsEndDecided'
    BY <2>1, <2>2, <2>3 DEF RunsEndDecided, Ended, RouteByThreatLevel
  <2>7. FailuresReported'
    BY <2>2 DEF FailuresReported, ReportInv
  <2>8. QED
    BY <2>1, <2>5, <2>6, <2>7 DEF RecordInv
<1>5. CASE NextDocument
  BY <1>5 DEF NextDocument, RecordInv, ClearedOnlyIfClean, RunsEndDecided, FailuresReported
<1>6. QED
  BY <1>1, <1>2, <1>3, <1>4, <1>5 DEF Next

-----------------------------------------------------------------------------
LEMMA PipelineInit == Init => PipelineInv
<1> SUFFICES ASSUME Init PROVE PipelineInv
  OBVIOUS
<1>1. state \in ScreeningState /\ state.failed = {} /\ state.risk_score = None
  BY EmptyStateType DEF Init, Status, EmptyState
<1>2. TypeOK
  <2>1. ran \in [Node -> 0..Often]
    BY DEF Init, Often
  <2>2. hit \in BOOLEAN /\ live \in BOOLEAN
    BY DEF Init
  <2>3. graph \in Graphs \cup {"idle"} /\ record \in Record \cup {None}
    BY DEF Init
  <2>4. active \subseteq Node /\ triggered \subseteq Node /\ arrived \subseteq Gated
    BY DEF Init
  <2>5. QED
    BY <1>1, <2>1, <2>2, <2>3, <2>4 DEF TypeOK
<1>3. PlaceInv /\ RunInv
  BY DEF Init, PlaceInv, Idle, RunInv, NodesRunOnce, Pending
<1>4. ReportInv
  BY <1>1 DEF Init, ReportInv, EveryFailureNamed
<1>5. RecordInv
  BY DEF Init, RecordInv, ClearedOnlyIfClean, RunsEndDecided, FailuresReported
<1>6. QED
  BY <1>2, <1>3, <1>4, <1>5 DEF PipelineInv

LEMMA PipelineStep == PipelineInv /\ [Next]_vars => PipelineInv'
<1> SUFFICES ASSUME PipelineInv, [Next]_vars PROVE PipelineInv'
  OBVIOUS
<1>1. CASE Next
  BY <1>1, TypeStep, PlaceStep, RunStep, ReportStep, RecordStep DEF PipelineInv
<1>2. CASE UNCHANGED vars
  <2>1. TypeOK'
    BY <1>2 DEF PipelineInv, TypeOK, vars
  <2>2. PlaceInv'
    BY <1>2 DEF PipelineInv, vars, PlaceInv, Idle, Forensics, ResultsOwed, ArrivalsOwed, Pending,
       AtGate, AtTail, Position, Ended, Complete, RouteByThreatLevel, Anomalous
  <2>3. RunInv'
    BY <1>2 DEF PipelineInv, vars, RunInv, NodesRunOnce, Pending
  <2>4. ReportInv'
    BY <1>2 DEF PipelineInv, vars, ReportInv, EveryFailureNamed
  <2>5. RecordInv'
    BY <1>2 DEF PipelineInv, vars, RecordInv, ClearedOnlyIfClean, RunsEndDecided,
       FailuresReported
  <2>6. QED
    BY <2>1, <2>2, <2>3, <2>4, <2>5 DEF PipelineInv
<1>3. QED
  BY <1>1, <1>2

LEMMA PipelineInvariant == Spec => []PipelineInv
  BY PipelineInit, PipelineStep, PTL DEF Spec

(***************************************************************************)
(* The state is a ScreeningState, whatever the services answer.            *)
(***************************************************************************)
THEOREM TypeCorrect == Spec => []TypeOK
<1>1. PipelineInv => TypeOK
  BY DEF PipelineInv
<1>2. QED
  BY <1>1, PipelineInvariant, PTL

(***************************************************************************)
(* The gate and the risk engine never run on a missing result.             *)
(***************************************************************************)
THEOREM ResultsPrecedeDecisions == Spec => []DecisionsSeeAllResults
<1>1. PipelineInv => DecisionsSeeAllResults
  <2> SUFFICES ASSUME PipelineInv PROVE DecisionsSeeAllResults
    OBVIOUS
  <2>1. PlaceInv
    BY DEF PipelineInv
  <2>2. ASSUME "document_gate" \in active
        PROVE  /\ state.tampering # None /\ state.validation # None /\ state.blacklist # None
               /\ active = {"document_gate"} /\ triggered = {}
    BY <2>1, <2>2, InGate DEF AtGate, Complete
  <2>3. ASSUME "risk_engine" \in active
        PROVE  /\ state.extraction # None /\ state.tampering # None /\ state.validation # None
               /\ state.face # None /\ state.blacklist # None
               /\ active = {"risk_engine"} /\ triggered = {}
    <3>1. AtTail /\ active = {"risk_engine"} /\ triggered = {}
      BY <2>1, <2>3, InTail DEF Tail
    <3>2. QED
      BY <3>1 DEF AtTail, Position, Complete
  <2>4. QED
    BY <2>2, <2>3 DEF DecisionsSeeAllResults
<1>2. QED
  BY <1>1, PipelineInvariant, PTL

(***************************************************************************)
(* No node runs twice in a run.                                            *)
(***************************************************************************)
THEOREM RunsOnce == Spec => []NodesRunOnce
<1>1. PipelineInv => NodesRunOnce
  BY DEF PipelineInv, RunInv
<1>2. QED
  BY <1>1, PipelineInvariant, PTL

(***************************************************************************)
(* A run that ends, of Stage 2 or of the unified graph, has decided.       *)
(***************************************************************************)
THEOREM EndMeansDecided == Spec => []RunsEndDecided
<1>1. PipelineInv => RunsEndDecided
  BY DEF PipelineInv, RecordInv
<1>2. QED
  BY <1>1, PipelineInvariant, PTL

(***************************************************************************)
(* Both graphs start with inspection_status "standard_clearance".  Still,  *)
(* no run that stops early or joins in the wrong order leaves a flagged    *)
(* document with it.                                                       *)
(***************************************************************************)
THEOREM ClearanceIsClean == Spec => []ClearedOnlyIfClean
<1>1. PipelineInv => ClearedOnlyIfClean
  BY DEF PipelineInv, RecordInv
<1>2. QED
  BY <1>1, PipelineInvariant, PTL

(***************************************************************************)
(* A service that failed in either stage is visible in the result the      *)
(* pipeline hands to the officer.                                          *)
(***************************************************************************)
THEOREM NoSilentFailure == Spec => []FailuresReported
<1>1. PipelineInv => FailuresReported
  BY DEF PipelineInv, RecordInv
<1>2. QED
  BY <1>1, PipelineInvariant, PTL

(***************************************************************************)
(* Of Stage 1's parallel nodes each one that fell back is named in         *)
(* degraded_modules, whatever the order they end in (merge_degraded).      *)
(***************************************************************************)
THEOREM FailuresNamed == Spec => []EveryFailureNamed
<1>1. PipelineInv => EveryFailureNamed
  BY DEF PipelineInv, ReportInv
<1>2. QED
  BY <1>1, PipelineInvariant, PTL
=============================================================================
