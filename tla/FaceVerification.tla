-------------------------- MODULE FaceVerification --------------------------
(***************************************************************************)
(* The face service as the pipeline calls it (call_face_service): the 1:1  *)
(* comparison by AWS Rekognition or, without an answer from there, by      *)
(* local embeddings, and the 1:N search for the same face.                 *)
(*                                                                         *)
(* A verification runs in the event loop without a pause, but the photo    *)
(* boundary analysis of another document runs in a worker thread, and both *)
(* use the InsightFace singleton of core/embedding.py, whose first caller  *)
(* loads it while later callers are told there is none.                    *)
(*                                                                         *)
(* Similarities and scores are in thousandths.                             *)
(***************************************************************************)
EXTENDS ScreeningData, Integers, FiniteSets

CONSTANTS
  Similarities,      \* what comparing two embeddings can give
  AwsConfigured,     \* AWS credentials are set
  DeepFaceInstalled

ASSUME SimilaritiesAreCosines == Similarities \subseteq -1000..1000

VARIABLES
  insightface,  \* _insightface_attempted and _insightface_app
  embeddings,   \* _in_memory_embeddings: which document in which cluster
  phase,        \* where the verification is
  visible,      \* for each photo: RetinaFace would find its face
  embedded,     \* for each photo the model that embedded it
  raced,        \* history: a load ended between the two embeddings
  face          \* FullFaceVerificationResponse

faceVars == <<insightface, embeddings, phase, visible, embedded, raced, face>>

Photo == {"doc", "live"}
Model == {"arcface", "facenet", "histogram"}

\* A uuid4 that no other cluster has.
FreshCluster == "fresh"

FaceResponse ==
  [matched : BOOLEAN, match_score : 0..1000, cosine_similarity : -1000..1000]

DedupResponse == [has_duplicates : BOOLEAN, person_cluster_id : Clusters \cup {FreshCluster}]

FaceTypeOK ==
  /\ insightface \in {"not_attempted", "loading", "loaded", "failed"}
  /\ embeddings \subseteq (Documents \X Clusters)
  /\ phase \in {"idle", "document", "live", "compare", "dedup"}
  /\ visible \in [Photo -> BOOLEAN]
  /\ embedded \in [Photo -> Model \cup {None}]
  /\ raced \in BOOLEAN
  /\ face \in [one_to_one : FaceResponse \cup {None}, dedup : DedupResponse \cup {None}]

NoFace == [one_to_one |-> None, dedup |-> None]

FaceInit ==
  /\ insightface = "not_attempted"
  /\ embeddings = {}
  /\ phase = "idle"
  /\ visible = [p \in Photo |-> FALSE]
  /\ embedded = [p \in Photo |-> None]
  /\ raced = FALSE
  /\ face = NoFace

-----------------------------------------------------------------------------
(***************************************************************************)
(* _get_insightface_app, as the worker thread of analyze_photo_boundaries  *)
(* calls it: attempted is set before the load, and for good.               *)
(***************************************************************************)
ThreadStartsLoad ==
  /\ insightface = "not_attempted"
  /\ insightface' = "loading"
  /\ UNCHANGED <<embeddings, phase, visible, embedded, raced, face>>

ThreadEndsLoad ==
  /\ insightface = "loading"
  /\ insightface' \in {"loaded", "failed"}
  /\ raced' = (phase = "live")
  /\ UNCHANGED <<embeddings, phase, visible, embedded, face>>

(***************************************************************************)
(* The same in the event loop, which waits for a load of its own but not   *)
(* for a thread's.                                                         *)
(***************************************************************************)
GetInsightfaceApp ==
  insightface' \in IF insightface = "not_attempted" THEN {"loaded", "failed"} ELSE {insightface}

(***************************************************************************)
(* extract_face_crop_bytes: the document's face is looked for first, so    *)
(* that InsightFace is settled before any embedding unless a thread is     *)
(* loading it.                                                             *)
(***************************************************************************)
ExtractFaceCropBytes == GetInsightfaceApp

(***************************************************************************)
(* extract_face_embedding of a readable photo: ArcFace when InsightFace is *)
(* there and finds the face, else Facenet512, which may fail for a photo,  *)
(* else the histogram, which never does.                                   *)
(***************************************************************************)
ExtractFaceEmbedding(app, found) ==
  IF app = "loaded" /\ found THEN {"arcface"}
  ELSE {"histogram"} \cup (IF DeepFaceInstalled THEN {"facenet"} ELSE {})

-----------------------------------------------------------------------------
(***************************************************************************)
(* aws_compare_faces and what verify_one_to_one makes of its answer.       *)
(* Rekognition returns only matches above the threshold it is given, 0.90  *)
(* or more.  On an error the comparison goes on locally.                   *)
(***************************************************************************)
AwsAnswers ==
  {[matched |-> TRUE, match_score |-> sim, cosine_similarity |-> sim] :
     sim \in {s \in Similarities : s >= 900}}
  \cup {[matched |-> FALSE, match_score |-> 0, cosine_similarity |-> 0]}

AwsCompareFaces ==
  /\ phase = "document"
  /\ AwsConfigured
  /\ ExtractFaceCropBytes
  /\ \E answer \in AwsAnswers : face' = [face EXCEPT !.one_to_one = answer]
  /\ phase' = "dedup"
  /\ UNCHANGED <<embeddings, visible, embedded, raced>>

(***************************************************************************)
(* A photo that cannot be decoded or is too small.                         *)
(***************************************************************************)
ExtractionFails ==
  /\ phase \in {"document", "live"}
  /\ face' = [face EXCEPT !.one_to_one =
                [matched |-> FALSE, match_score |-> 0, cosine_similarity |-> 0]]
  /\ phase' = "dedup"
  /\ embedded' = [p \in Photo |-> None]
  /\ visible' = [p \in Photo |-> FALSE]
  /\ raced' = FALSE
  /\ UNCHANGED <<insightface, embeddings>>

EmbedDocument ==
  /\ phase = "document"
  /\ ExtractFaceCropBytes
  /\ visible' \in [Photo -> BOOLEAN]
  /\ \E m \in ExtractFaceEmbedding(insightface', visible'["doc"]) :
       embedded' = [embedded EXCEPT !["doc"] = m]
  /\ phase' = "live"
  /\ raced' = FALSE
  /\ UNCHANGED <<embeddings, face>>

EmbedLive ==
  /\ phase = "live"
  /\ GetInsightfaceApp
  /\ \E m \in ExtractFaceEmbedding(insightface', visible["live"]) :
       embedded' = [embedded EXCEPT !["live"] = m]
  /\ phase' = "compare"
  /\ UNCHANGED <<embeddings, visible, raced, face>>

-----------------------------------------------------------------------------
(***************************************************************************)
(* The threshold is 0.90; with an ArcFace embedding on either side, 0.35.  *)
(***************************************************************************)
EffectiveThreshold ==
  IF \E p \in Photo : embedded[p] = "arcface" THEN 350 ELSE 900

(***************************************************************************)
(* deepface_multi_model_vote in the borderline band: up to three models    *)
(* and the primary one, a strict majority; none can run without DeepFace.  *)
(***************************************************************************)
BorderlineBand == 80

Vote(primary) ==
  {2 * (cast.yes + (IF primary THEN 1 ELSE 0)) > cast.all + 1 :
     cast \in {v \in [yes : 0..3, all : 0..3] :
                 v.yes <= v.all /\ (v.all > 0 => DeepFaceInstalled)}}

Verdicts(sim, threshold) ==
  IF sim - threshold \in -BorderlineBand..BorderlineBand
  THEN Vote(sim >= threshold)
  ELSE {sim >= threshold}

AtLeast(low, x) == IF x < low THEN low ELSE x
AtMost(high, x) == IF x > high THEN high ELSE x

(***************************************************************************)
(* Mutant: one scale for matches and mismatches.                           *)
(***************************************************************************)
CalibratedOnOneScale(matched, sim, threshold) ==
  AtMost(995, 100 + (810 * AtLeast(0, sim)) \div threshold)

(***************************************************************************)
(* calibrated_score: matches from 0.91 up, mismatches from 0.10.           *)
(***************************************************************************)
Calibrated(matched, sim, threshold) ==
  IF matched
  THEN AtMost(995, 910 + (85 * AtLeast(0, sim - threshold)) \div AtLeast(10, 600 - threshold))
  ELSE AtMost(650, 100 + AtMost(500, (500 * AtLeast(0, sim)) \div threshold))

CompareFaces ==
  /\ phase = "compare"
  /\ \E sim \in Similarities : \E matched \in Verdicts(sim, EffectiveThreshold) :
       face' = [face EXCEPT !.one_to_one =
                  [matched |-> matched,
                   match_score |-> Calibrated(matched, sim, EffectiveThreshold),
                   cosine_similarity |-> sim]]
  /\ phase' = "dedup"
  /\ embedded' = [p \in Photo |-> None]
  /\ visible' = [p \in Photo |-> FALSE]
  /\ raced' = FALSE
  /\ UNCHANGED <<insightface, embeddings>>

(***************************************************************************)
(* search_duplicates, without a database session: some of the other        *)
(* documents' faces are similar enough, or none, and then the cluster is   *)
(* new.  Without an embedding there is no search.                          *)
(***************************************************************************)
SearchDuplicates(d) ==
  {[has_duplicates |-> FALSE, person_cluster_id |-> FreshCluster]}
  \cup {[has_duplicates |-> TRUE, person_cluster_id |-> e[2]] :
          e \in {e \in embeddings : e[1] # d}}

Dedup(d) ==
  /\ phase = "dedup"
  /\ \E r \in SearchDuplicates(d) : face' = [face EXCEPT !.dedup = r]
  /\ phase' = "idle"
  /\ UNCHANGED <<insightface, embeddings, visible, embedded, raced>>

(***************************************************************************)
(* register_in_memory_embedding.                                           *)
(***************************************************************************)
RegisterEmbedding(d, c) ==
  /\ embeddings' = embeddings \cup {<<d, c>>}
  /\ UNCHANGED <<insightface, phase, visible, embedded, raced, face>>

-----------------------------------------------------------------------------
(***************************************************************************)
(* The readme's "Score >= 90.0% (MATCH)": what the officer is shown as a   *)
(* percentage says the same as the verdict, whichever models, votes and    *)
(* services made it.                                                       *)
(***************************************************************************)
ScoreTellsVerdict ==
  face.one_to_one # None =>
    (face.one_to_one.match_score >= 900 <=> face.one_to_one.matched)

(***************************************************************************)
(* ArcFace is compared with another model only when RetinaFace misses one  *)
(* of the faces or a thread's load ended between the two embeddings.       *)
(***************************************************************************)
OneModelUnlessLoading ==
  (phase = "compare" /\ visible["doc"] /\ visible["live"] /\ ~raced) =>
    (embedded["doc"] = "arcface" <=> embedded["live"] = "arcface")
=============================================================================
