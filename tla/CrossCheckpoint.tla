-------------------------- MODULE CrossCheckpoint ---------------------------
(***************************************************************************)
(* The cross-checkpoint service: the documents seen with one face (its     *)
(* person cluster), the anomalies among them (core/face_graph.py) and      *)
(* prior severe offences (core/repeat_offender.py).                        *)
(*                                                                         *)
(* The service keeps clusters in memory; no caller passes it a database    *)
(* session.  Names, numbers, dates of birth and nationalities are what     *)
(* their normalisation leaves, None when it leaves nothing.                *)
(***************************************************************************)
EXTENDS ScreeningData, Integers, Sequences, FiniteSets, FiniteSetsExt

CONSTANTS
  Scans,       \* the ClusterDocuments that can be seeded
  MaxScans     \* bound on the documents of a cluster

ASSUME MaxScansAssumption == MaxScans \in Nat

VARIABLE registry   \* _in_memory_cluster_store

-----------------------------------------------------------------------------
(***************************************************************************)
(* ClusterDocument.  uploaded_at is a minute, and whether the text names a *)
(* time zone.                                                              *)
(***************************************************************************)
IsClusterDocument(d) ==
  /\ DOMAIN d = {"document_id", "checkpoint_type", "checkpoint_id", "uploaded_at", "name",
                 "document_number", "date_of_birth", "nationality", "risk_score", "risk_band"}
  /\ d.document_id \in Documents
  /\ d.uploaded_at # None => d.uploaded_at.minute \in Nat /\ d.uploaded_at.aware \in BOOLEAN
  /\ d.risk_score \in (0..1000) \cup {None}
  /\ d.risk_band \in Bands \cup {None}

(***************************************************************************)
(* register_cluster_document: an entry with the same id is taken out, of   *)
(* which a cluster has one at most, and the new one goes to the end.       *)
(***************************************************************************)
Register(docs, d) ==
  LET known == {i \in DOMAIN docs : docs[i].document_id = d.document_id}
  IN  IF known = {} THEN Append(docs, d)
      ELSE LET i == CHOOSE i \in known : TRUE
           IN  Append(SubSeq(docs, 1, i - 1) \o SubSeq(docs, i + 1, Len(docs)), d)

-----------------------------------------------------------------------------
(***************************************************************************)
(* check_repeat_offender: bands, or scores of 61 and more, of documents    *)
(* other than the current one.                                             *)
(***************************************************************************)
IsSevere(d) ==
  d.risk_band \in {"high", "critical"} \/ (d.risk_score # None /\ d.risk_score >= 610)

PriorOffences(docs, current) ==
  {i \in DOMAIN docs : docs[i].document_id # current /\ IsSevere(docs[i])}

-----------------------------------------------------------------------------
Differ(docs, trait) == Cardinality({docs[i][trait] : i \in DOMAIN docs} \ {None}) > 1

Dated(docs) == {i \in DOMAIN docs : docs[i].uploaded_at # None}

(***************************************************************************)
(* Sorting dates with and without a time zone raises a TypeError.          *)
(***************************************************************************)
Unsortable(docs) ==
  Cardinality({docs[i].uploaded_at.aware : i \in Dated(docs)}) > 1

\* The stable sort by time.
Before(docs, i, j) ==
  \/ docs[i].uploaded_at.minute < docs[j].uploaded_at.minute
  \/ docs[i].uploaded_at.minute = docs[j].uploaded_at.minute /\ i < j

Adjacent(docs, i, j) ==
  Before(docs, i, j) /\ ~\E k \in Dated(docs) : Before(docs, i, k) /\ Before(docs, k, j)

Elsewhere(d, e) ==
  \E place \in {"checkpoint_type", "checkpoint_id"} :
    d[place] # None /\ e[place] # None /\ d[place] # e[place]

TooFast(d, e) ==
  Elsewhere(d, e) /\ e.uploaded_at.minute - d.uploaded_at.minute \in -119..119

(***************************************************************************)
(* Mutant: documents are compared in the order they were registered.       *)
(***************************************************************************)
ImpossibleTravelUnsorted(docs) ==
  \E i \in Dated(docs), j \in Dated(docs) : j = i + 1 /\ TooFast(docs[i], docs[j])

(***************************************************************************)
(* Only neighbours in time are compared.                                   *)
(***************************************************************************)
ImpossibleTravel(docs) ==
  \E i \in Dated(docs), j \in Dated(docs) :
    Adjacent(docs, i, j) /\ TooFast(docs[i], docs[j])

Flags(docs, current) ==
  {t \in FlagType :
     CASE t = "name_mismatch" -> Differ(docs, "name")
       [] t = "document_number_mismatch" -> Differ(docs, "document_number")
       [] t = "dob_mismatch" -> Differ(docs, "date_of_birth")
       [] t = "nationality_mismatch" -> Differ(docs, "nationality")
       [] t = "impossible_travel" -> ImpossibleTravel(docs)
       [] t = "repeat_offender" -> PriorOffences(docs, current) # {}}

Contribution ==
  [name_mismatch |-> 850, document_number_mismatch |-> 650, dob_mismatch |-> 600,
   nationality_mismatch |-> 400, impossible_travel |-> 900, repeat_offender |-> 750]

Total(flags) ==
  LET share(t) == IF t \in flags THEN Contribution[t] ELSE 0
  IN  share("name_mismatch") + share("document_number_mismatch") + share("dob_mismatch")
        + share("nationality_mismatch") + share("impossible_travel") + share("repeat_offender")

Highest(flags) == Max({Contribution[t] : t \in flags})

(***************************************************************************)
(* Mutant: the sum takes the place of the mean.                            *)
(***************************************************************************)
CrossCheckpointRiskSummed(flags) ==
  IF flags = {} THEN 0 ELSE (7 * Highest(flags) + 3 * Total(flags) + 5) \div 10

(***************************************************************************)
(* 0.7 * the largest + 0.3 * the mean, rounded to thousandths.  With one   *)
(* flag the code takes the maximum, which is the same.                     *)
(***************************************************************************)
CrossCheckpointRisk(flags) ==
  IF flags = {} THEN 0
  ELSE LET n == Cardinality(flags)
       IN  (7 * n * Highest(flags) + 3 * Total(flags) + 5 * n) \div (10 * n)

(***************************************************************************)
(* evaluate_cluster_graph.                                                 *)
(***************************************************************************)
EvaluateClusterGraph(docs, current) ==
  [flags |-> Flags(docs, current),
   cross_checkpoint_risk |-> CrossCheckpointRisk(Flags(docs, current)),
   repeat_offender_hit |-> PriorOffences(docs, current) # {}]

(***************************************************************************)
(* Mutant: the current document is compared with the last one only.        *)
(***************************************************************************)
AllDocumentsMostRecent(docs, current) ==
  IF docs = <<>> THEN <<current>> ELSE <<docs[Len(docs)], current>>

(***************************************************************************)
(* analyze_cluster adds the current document unless its id is known, and   *)
(* either answers or raises: the set has one answer or none.               *)
(***************************************************************************)
AllDocuments(docs, current) ==
  IF \E i \in DOMAIN docs : docs[i].document_id = current.document_id
  THEN docs ELSE Append(docs, current)

AnalyzeCluster(docs, current) ==
  IF Unsortable(AllDocuments(docs, current)) THEN {}
  ELSE {EvaluateClusterGraph(AllDocuments(docs, current), current.document_id)}

(***************************************************************************)
(* get_cluster_history, the dossier of the command dashboard: there is no  *)
(* current document.                                                       *)
(***************************************************************************)
GetClusterHistory(docs) ==
  IF Unsortable(docs) THEN {} ELSE {EvaluateClusterGraph(docs, None)}

-----------------------------------------------------------------------------
(***************************************************************************)
(* POST /seed.                                                             *)
(***************************************************************************)
SeedClusterDocument(c, d) ==
  /\ Len(Register(registry[c], d)) <= MaxScans
  /\ registry' = [registry EXCEPT ![c] = Register(@, d)]
=============================================================================
