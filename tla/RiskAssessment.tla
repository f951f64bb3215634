--------------------------- MODULE RiskAssessment ---------------------------
(***************************************************************************)
(* The data of a Stage 2 run: face_verification_node,                      *)
(* cross_checkpoint_node and risk_engine_node with the services they call, *)
(* in one process (use_in_process_services).  The graph around the nodes   *)
(* is ScreeningPipeline; here the services' state lives on between runs,   *)
(* and other requests change it while a run goes on.                       *)
(*                                                                         *)
(* The results of Stage 1 are inputs: nothing before the risk engine reads *)
(* them, so they are chosen there.                                         *)
(***************************************************************************)
EXTENDS FaceVerification, CrossCheckpoint, RiskScoring, TamperingDetection

CONSTANTS
  CurrentScans,        \* the ClusterDocuments a pipeline can build of its document
  Images,              \* what is measured in the documents' images
  ValidationResults,   \* ValidationSubScores
  BlacklistResults     \* BlacklistSubScores

ASSUME InputsAreTyped ==
  /\ \A d \in Scans : IsClusterDocument(d)
  /\ \A d \in CurrentScans : IsClusterDocument(d) /\ d.uploaded_at = None
  /\ \A image \in Images : image \in Image
  /\ \A v \in ValidationResults : v \in ValidationSubScore
  /\ BlacklistResults \subseteq BlacklistSubScore

ASSUME NoneIsNoAnswer == None \notin CrossCheckpointSubScore

VARIABLES
  node,               \* the node that runs next, "reply" or "idle"
  current,            \* the document of the run
  cross_checkpoint,   \* ClusterAnalysisResponse, or None
  degraded_modules,
  offender,           \* history: a severe prior was on record at the analysis
  assessed            \* the request and the response of the risk engine, or None

run == <<node, current, cross_checkpoint, degraded_modules, offender, assessed>>
vars == <<registry, faceVars, run>>

-----------------------------------------------------------------------------
TypeOK ==
  /\ registry \in [Clusters -> Seq(Scans)]
  /\ \A c \in Clusters : Len(registry[c]) <= MaxScans
  /\ FaceTypeOK
  /\ node \in {"idle", "face_verification", "cross_checkpoint", "risk_engine", "reply"}
  /\ current \in CurrentScans
  /\ cross_checkpoint \in CrossCheckpointSubScore \cup {None}
  /\ degraded_modules \subseteq DegradedModule
  /\ offender \in BOOLEAN
  /\ assessed # None => /\ assessed.response.score \in 0..1000
                        /\ assessed.response.band \in Bands
                        /\ assessed.response.reasons # {}

Init ==
  /\ registry = [c \in Clusters |-> <<>>]
  /\ FaceInit
  /\ node = "idle"
  /\ current \in CurrentScans
  /\ cross_checkpoint = None
  /\ degraded_modules = {}
  /\ offender = FALSE
  /\ assessed = None

(***************************************************************************)
(* run_stage2_pipeline, with a live photo.  That a module failed in Stage  *)
(* 1 is carried over as "degraded".                                        *)
(***************************************************************************)
StartStage2 ==
  /\ node = "idle"
  /\ node' = "face_verification"
  /\ current' \in CurrentScans
  /\ phase' = "document"
  /\ degraded_modules' \in {{}, {"degraded"}}
  /\ UNCHANGED <<registry, insightface, embeddings, visible, embedded, raced, face,
                 cross_checkpoint, offender, assessed>>

(***************************************************************************)
(* The result goes back to the router, which stores it.                    *)
(***************************************************************************)
Reply ==
  /\ node = "reply"
  /\ node' = "idle"
  /\ face' = NoFace
  /\ cross_checkpoint' = None
  /\ degraded_modules' = {}
  /\ offender' = FALSE
  /\ assessed' = None
  /\ UNCHANGED <<registry, insightface, embeddings, phase, visible, embedded, raced, current>>

-----------------------------------------------------------------------------
(***************************************************************************)
(* face_verification_node; a call that raises leaves an empty response.    *)
(***************************************************************************)
FaceVerificationNode ==
  /\ node = "face_verification"
  /\ \/ /\ AwsCompareFaces \/ ExtractionFails \/ EmbedDocument \/ EmbedLive \/ CompareFaces
        /\ UNCHANGED <<node, degraded_modules>>
     \/ /\ Dedup(current.document_id)
        /\ node' = "cross_checkpoint"
        /\ UNCHANGED degraded_modules
  /\ UNCHANGED <<registry, current, cross_checkpoint, offender, assessed>>

FaceVerificationRaises ==
  /\ node = "face_verification"
  /\ face' = NoFace
  /\ phase' = "idle"
  /\ embedded' = [p \in Photo |-> None]
  /\ visible' = [p \in Photo |-> FALSE]
  /\ raced' = FALSE
  /\ node' = "cross_checkpoint"
  /\ degraded_modules' = degraded_modules \cup {"FaceVerification"}
  /\ UNCHANGED <<registry, insightface, embeddings, current, cross_checkpoint, offender,
                 assessed>>

-----------------------------------------------------------------------------
DocumentsOf(cluster) == IF cluster \in Clusters THEN registry[cluster] ELSE <<>>

(***************************************************************************)
(* Mutant: a failed analysis is not reported.                              *)
(***************************************************************************)
CrossCheckpointNodeSilent ==
  /\ node = "cross_checkpoint"
  /\ node' = "risk_engine"
  /\ LET documents == DocumentsOf(face.dedup.person_cluster_id)
         answers == AnalyzeCluster(documents, current)
     IN  IF face.dedup = None
         THEN UNCHANGED <<cross_checkpoint, offender>>
         ELSE /\ offender' = (PriorOffences(documents, current.document_id) # {})
              /\ IF answers = {} THEN UNCHANGED cross_checkpoint
                 ELSE cross_checkpoint' \in answers
  /\ UNCHANGED <<registry, faceVars, current, degraded_modules, assessed>>

(***************************************************************************)
(* cross_checkpoint_node.                                                  *)
(***************************************************************************)
CrossCheckpointNode ==
  /\ node = "cross_checkpoint"
  /\ node' = "risk_engine"
  /\ IF face.dedup = None
     THEN UNCHANGED <<cross_checkpoint, degraded_modules, offender>>
     ELSE LET documents == DocumentsOf(face.dedup.person_cluster_id)
              answers == AnalyzeCluster(documents, current)
          IN  /\ offender' = (PriorOffences(documents, current.document_id) # {})
              /\ IF answers = {}
                 THEN /\ degraded_modules' = degraded_modules \cup {"CrossCheckpoint"}
                      /\ UNCHANGED cross_checkpoint
                 ELSE /\ cross_checkpoint' \in answers
                      /\ UNCHANGED degraded_modules
  /\ UNCHANGED <<registry, faceVars, current, assessed>>

-----------------------------------------------------------------------------
(***************************************************************************)
(* The request risk_engine_node builds.                                    *)
(***************************************************************************)
FaceSub ==
  [cosine_similarity |-> IF face.one_to_one = None THEN None
                         ELSE face.one_to_one.cosine_similarity,
   matched |-> IF face.one_to_one = None THEN None ELSE face.one_to_one.matched,
   has_duplicates |-> IF face.dedup = None THEN FALSE ELSE face.dedup.has_duplicates]

Request(validation, tampering, blacklist) ==
  [validation |-> validation,
   tampering |-> tampering,
   face |-> FaceSub,
   blacklist |-> blacklist,
   cross_checkpoint |-> IF cross_checkpoint = None THEN NoHistory ELSE cross_checkpoint,
   degraded_modules |-> degraded_modules]

(***************************************************************************)
(* risk_engine_node; the fallback calls build_risk_response, too.          *)
(***************************************************************************)
RiskEngineNode ==
  /\ node = "risk_engine"
  /\ node' = "reply"
  /\ \E validation \in ValidationResults, blacklist \in BlacklistResults,
        tampering \in (UNION {call_tampering_service(image) : image \in Images})
                       \cup (IF "degraded" \in degraded_modules THEN {NoTampering} ELSE {}) :
       LET request == Request(validation, tampering, blacklist) IN
       \E response \in build_risk_response(request) :
         assessed' = [request |-> request, response |-> response]
  /\ UNCHANGED <<registry, faceVars, current, cross_checkpoint, degraded_modules, offender>>

-----------------------------------------------------------------------------
(***************************************************************************)
(* Other requests and threads.  What they change is read by one node of    *)
(* the run and commutes with the others, so they are let in before that    *)
(* node and between runs.                                                  *)
(***************************************************************************)
Seed ==
  /\ node \in {"idle", "cross_checkpoint"}
  /\ \E c \in Clusters, d \in Scans : SeedClusterDocument(c, d)
  /\ UNCHANGED <<faceVars, run>>

RegisterFace ==
  /\ node = "idle" \/ phase = "dedup"
  /\ \E d \in Documents, c \in Clusters : RegisterEmbedding(d, c)
  /\ UNCHANGED <<registry, run>>

TamperingThread ==
  /\ node \in {"idle", "face_verification"}
  /\ ThreadStartsLoad \/ ThreadEndsLoad
  /\ UNCHANGED <<registry, run>>

Next ==
  \/ StartStage2
  \/ FaceVerificationNode
  \/ FaceVerificationRaises
  \/ CrossCheckpointNode
  \/ RiskEngineNode
  \/ Reply
  \/ Seed
  \/ RegisterFace
  \/ TamperingThread

Spec == Init /\ [][Next]_vars

-----------------------------------------------------------------------------
(***************************************************************************)
(* A known severe offence never makes a traveller look better: the band is *)
(* at least the one the same evidence has without any history, although    *)
(* the history's term takes a tenth of the other weights.                  *)
(***************************************************************************)
RepeatOffenderNeverRatedLower ==
  assessed # None =>
    (assessed.request.cross_checkpoint.repeat_offender_hit =>
       \A alone \in compute_risk_score([assessed.request EXCEPT !.cross_checkpoint = NoHistory]) :
         Rank[alone.band] <= Rank[assessed.response.band])

(***************************************************************************)
(* A severe offence on record when the cluster was analysed is in the      *)
(* officer's reasons and in the band, or the failure of the analysis is.   *)
(***************************************************************************)
PriorOffenceIsTold ==
  (assessed # None /\ offender) =>
    \/ /\ Reason("cross_checkpoint", "repeat_offender") \in assessed.response.reasons
       /\ assessed.response.band # "low"
    \/ Reason("degraded", "CrossCheckpoint") \in assessed.response.reasons

(***************************************************************************)
(* "No risk signals detected ... Document appears genuine" is said only    *)
(* when no check flagged anything, no module failed, the faces were        *)
(* compared and what is left in the score is below 15.0.                   *)
(***************************************************************************)
SilenceMeansClean ==
  (assessed # None /\ NoSignal \in assessed.response.reasons) =>
    /\ assessed.response.reasons = {NoSignal}
    /\ assessed.response.score < 150
    /\ ~assessed.request.tampering.flagged
    /\ assessed.request.degraded_modules = {}
    /\ ~offender
    /\ face.one_to_one # None

(***************************************************************************)
(* Any two sightings at different checkpoints too close in time are found, *)
(* although only neighbours are compared, when every dated document names  *)
(* its checkpoint.                                                         *)
(***************************************************************************)
TripsAreFound ==
  \A c \in Clusters :
    LET docs == registry[c] IN
    (\A i \in Dated(docs) : docs[i].checkpoint_type # None /\ docs[i].checkpoint_id # None) =>
      ((\E i \in Dated(docs), j \in Dated(docs) : TooFast(docs[i], docs[j]))
         => ImpossibleTravel(docs))

(***************************************************************************)
(* What a cluster's dossier shows is also found when the next document of  *)
(* that face is screened: a scan hides nothing and mends no failure.       *)
(***************************************************************************)
NewScanHidesNothing ==
  \A c \in Clusters, d \in CurrentScans :
    (\A i \in DOMAIN registry[c] : registry[c][i].document_id # d.document_id) =>
      \A found \in AnalyzeCluster(registry[c], d) :
        \E known \in GetClusterHistory(registry[c]) : known.flags \subseteq found.flags

(***************************************************************************)
(* reasons.py: "Every flagged check MUST produce at least one reason       *)
(* string."  A face that does not match is one.                            *)
(***************************************************************************)
EveryFlaggedCheckHasAReason ==
  (assessed # None /\ assessed.request.face.matched = FALSE) =>
    \E r \in assessed.response.reasons : r.module = "face"
=============================================================================
