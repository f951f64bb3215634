------------------------ MODULE RiskAssessmentProofs ------------------------
(***************************************************************************)
(* Proofs about RiskAssessment, for any documents, clusters, images and    *)
(* similarities: about the operators of the cross-checkpoint analysis, of  *)
(* the tampering checks and of the risk engine it is composed of, and then *)
(* its type invariant and the safety properties that the run checks on a   *)
(* small instance.                                                         *)
(***************************************************************************)
EXTENDS RiskAssessment, FiniteSetTheorems, RecursionLemmas

-----------------------------------------------------------------------------
(***************************************************************************)
(* The cross-checkpoint analysis: the range of the composite, and that     *)
(* comparing neighbours in time finds every trip.                          *)
(***************************************************************************)

(***************************************************************************)
(* How many of a set's elements are in S, one by one.                      *)
(***************************************************************************)
LEMMA CountOne ==
  ASSUME NEW S, NEW T, IsFiniteSet(S), NEW t, t \notin T
  PROVE  Cardinality(S \cap (T \cup {t})) =
           Cardinality(S \cap T) + (IF t \in S THEN 1 ELSE 0)
<1>1. IsFiniteSet(S \cap T)
  BY FS_Intersection
<1>2. Cardinality(S \cap T) \in Nat
  BY <1>1, FS_CardinalityType
<1>3. CASE t \in S
  <2>1. S \cap (T \cup {t}) = (S \cap T) \cup {t}
    BY <1>3
  <2>2. t \notin S \cap T
    OBVIOUS
  <2>3. QED
    BY <1>1, <1>3, <2>1, <2>2, FS_AddElement
<1>4. CASE t \notin S
  <2>1. S \cap (T \cup {t}) = S \cap T
    BY <1>4
  <2>2. Cardinality(S \cap (T \cup {t})) = Cardinality(S \cap T)
    BY <2>1
  <2>3. QED
    BY <1>2, <1>4, <2>2
<1>5. QED
  BY <1>3, <1>4

Counted(flags, t) == IF t \in flags THEN 1 ELSE 0

(***************************************************************************)
(* The number of flags is the number of types that are among them.         *)
(***************************************************************************)
LEMMA NumberOfFlags ==
  ASSUME NEW flags \in SUBSET FlagType
  PROVE  /\ IsFiniteSet(flags)
         /\ Cardinality(flags) =
              Counted(flags, "name_mismatch") + Counted(flags, "document_number_mismatch")
              + Counted(flags, "dob_mismatch") + Counted(flags, "nationality_mismatch")
              + Counted(flags, "impossible_travel") + Counted(flags, "repeat_offender")
<1> DEFINE T1 == {} \cup {"name_mismatch"}
           T2 == T1 \cup {"document_number_mismatch"}
           T3 == T2 \cup {"dob_mismatch"}
           T4 == T3 \cup {"nationality_mismatch"}
           T5 == T4 \cup {"impossible_travel"}
           T6 == T5 \cup {"repeat_offender"}
<1>1. FlagType = T6
  BY DEF FlagType
<1>2. IsFiniteSet(T6)
  <2>1. IsFiniteSet(T1) /\ IsFiniteSet(T2) /\ IsFiniteSet(T3)
    BY FS_EmptySet, FS_AddElement
  <2>2. IsFiniteSet(T4)
    BY <2>1, FS_AddElement
  <2>3. IsFiniteSet(T5)
    BY <2>2, FS_AddElement
  <2>4. QED
    BY <2>3, FS_AddElement
<1>3. IsFiniteSet(flags)
  BY <1>1, <1>2, FS_Subset
<1>4. Cardinality(flags \cap {}) = 0
  <2>1. flags \cap {} = {}
    OBVIOUS
  <2>2. QED
    BY <2>1, FS_EmptySet
<1>5. Cardinality(flags \cap T1) = Counted(flags, "name_mismatch")
  BY <1>3, <1>4, CountOne DEF Counted
<1>6. Cardinality(flags \cap T2) =
        Cardinality(flags \cap T1) + Counted(flags, "document_number_mismatch")
  <2>1. "document_number_mismatch" \notin T1
    OBVIOUS
  <2> HIDE DEF T1
  <2>2. QED
    BY <1>3, <2>1, CountOne DEF Counted
<1>7. Cardinality(flags \cap T3) =
        Cardinality(flags \cap T2) + Counted(flags, "dob_mismatch")
  <2>1. "dob_mismatch" \notin T2
    OBVIOUS
  <2> HIDE DEF T2
  <2>2. QED
    BY <1>3, <2>1, CountOne DEF Counted
<1>8. Cardinality(flags \cap T4) =
        Cardinality(flags \cap T3) + Counted(flags, "nationality_mismatch")
  <2>1. "nationality_mismatch" \notin T3
    OBVIOUS
  <2> HIDE DEF T3
  <2>2. QED
    BY <1>3, <2>1, CountOne DEF Counted
<1>9. Cardinality(flags \cap T5) =
        Cardinality(flags \cap T4) + Counted(flags, "impossible_travel")
  <2>1. "impossible_travel" \notin T4
    OBVIOUS
  <2> HIDE DEF T4
  <2>2. QED
    BY <1>3, <2>1, CountOne DEF Counted
<1>10. Cardinality(flags \cap T6) =
        Cardinality(flags \cap T5) + Counted(flags, "repeat_offender")
  <2>1. "repeat_offender" \notin T5
    OBVIOUS
  <2> HIDE DEF T5
  <2>2. QED
    BY <1>3, <2>1, CountOne DEF Counted
<1>11. flags \cap T6 = flags
  BY <1>1
<1>12. QED
  <2> HIDE DEF T1, T2, T3, T4, T5, T6
  <2> QED
    BY <1>3, <1>5, <1>6, <1>7, <1>8, <1>9, <1>10, <1>11 DEF Counted

(***************************************************************************)
(* The highest contribution is one, and bounds the sum by their number.    *)
(***************************************************************************)
LEMMA HighestContribution ==
  ASSUME NEW flags \in SUBSET FlagType, flags # {}
  PROVE  /\ Highest(flags) \in {400, 600, 650, 750, 850, 900}
         /\ \A t \in flags : Contribution[t] <= Highest(flags)
<1> DEFINE S == {Contribution[t] : t \in flags}
<1>1. \A t \in FlagType : Contribution[t] \in {400, 600, 650, 750, 850, 900}
  BY DEF FlagType, Contribution
<1>2. S \subseteq 0..1000 /\ S # {}
  BY <1>1
<1>3. Max(S) \in S /\ \A y \in S : y <= Max(S)
  <2> HIDE DEF S
  <2> DEFINE bound == 1000
  <2>1. bound \in Nat /\ S \subseteq 0..bound /\ S # {}
    BY <1>2
  <2> HIDE DEF bound
  <2>2. QED
    BY <2>1, MaxOfBounded, Zenon
<1>4. Highest(flags) = Max(S)
  BY DEF Highest
<1>5. QED
  BY <1>1, <1>3, <1>4

(***************************************************************************)
(* cross_checkpoint_risk is between 0.0 and 1.0 for every set of flags,    *)
(* and positive when there is one.                                         *)
(***************************************************************************)
THEOREM CompositeInRange ==
  ASSUME NEW flags \in SUBSET FlagType
  PROVE  /\ CrossCheckpointRisk(flags) \in 0..1000
         /\ flags # {} => CrossCheckpointRisk(flags) >= 280
<1>1. CASE flags = {}
  BY <1>1 DEF CrossCheckpointRisk
<1>2. CASE flags # {}
  <2> DEFINE n == Cardinality(flags)
             h == Highest(flags)
             total == Total(flags)
             c(t) == Counted(flags, t)
  <2>1. h \in {400, 600, 650, 750, 850, 900}
    BY <1>2, HighestContribution
  <2>2. n = c("name_mismatch") + c("document_number_mismatch") + c("dob_mismatch")
            + c("nationality_mismatch") + c("impossible_travel") + c("repeat_offender")
    BY NumberOfFlags
  <2>3. \A t \in FlagType : c(t) \in 0..1
    BY DEF Counted
  <2>4. n \in 1..6
    <3>1. PICK t \in flags : TRUE
      BY <1>2
    <3>2. c(t) = 1
      BY <3>1 DEF Counted
    <3>3. t \in FlagType
      BY <3>1
    <3>4. QED
      BY <2>2, <2>3, <3>2, <3>3 DEF FlagType
  <2>5. /\ 0 <= total
        /\ total <= h * c("name_mismatch") + h * c("document_number_mismatch")
                    + h * c("dob_mismatch") + h * c("nationality_mismatch")
                    + h * c("impossible_travel") + h * c("repeat_offender")
        /\ total \in Int
    <3>1. \A t \in FlagType : t \in flags => Contribution[t] <= h
      BY <1>2, HighestContribution
    <3>2. QED
      BY <2>1, <3>1 DEF Total, Counted, Contribution, FlagType
  <2>6. total <= h * n
    BY <2>1, <2>2, <2>3, <2>5 DEF FlagType
  <2>7. CrossCheckpointRisk(flags) = (7 * n * h + 3 * total + 5 * n) \div (10 * n)
    BY <1>2 DEF CrossCheckpointRisk
  <2>8. QED
    <3> HIDE DEF n, h, total
    <3> QED
      BY <1>2, <2>1, <2>4, <2>5, <2>6, <2>7
<1>3. QED
  BY <1>1, <1>2

-----------------------------------------------------------------------------
(***************************************************************************)
(* Documents whose dates are minutes and which name their checkpoints.     *)
(***************************************************************************)
Located(docs) ==
  /\ docs \in Seq(Scans)
  /\ \A i \in Dated(docs) :
       /\ docs[i].uploaded_at.minute \in Nat
       /\ docs[i].checkpoint_type # None /\ docs[i].checkpoint_id # None

Between(docs, i, j) == {k \in Dated(docs) : Before(docs, i, k) /\ Before(docs, k, j)}

(***************************************************************************)
(* Before is a strict total order of the dated documents.                  *)
(***************************************************************************)
LEMMA BeforeIsOrder ==
  ASSUME NEW docs, Located(docs)
  PROVE  /\ \A i \in Dated(docs) : ~Before(docs, i, i)
         /\ \A i, j \in Dated(docs) : i # j => Before(docs, i, j) \/ Before(docs, j, i)
         /\ \A i, j, k \in Dated(docs) :
              Before(docs, i, j) /\ Before(docs, j, k) => Before(docs, i, k)
         /\ IsFiniteSet(Dated(docs))
<1>1. Dated(docs) \subseteq 1..Len(docs) /\ Len(docs) \in Nat
  BY LenProperties DEF Located, Dated
<1>2. IsFiniteSet(1..Len(docs))
  BY <1>1, FS_Interval
<1>3. IsFiniteSet(Dated(docs))
  BY <1>1, <1>2, FS_Subset
<1>4. \A i \in Dated(docs) : i \in Nat /\ docs[i].uploaded_at.minute \in Nat
  BY <1>1 DEF Located
<1>5. QED
  BY <1>3, <1>4 DEF Before

(***************************************************************************)
(* A set between that is part of another, less one, is smaller.            *)
(***************************************************************************)
LEMMA CloserIsLess ==
  ASSUME NEW docs, Located(docs),
         NEW i \in Dated(docs), NEW j \in Dated(docs),
         NEW k \in Between(docs, i, j),
         NEW a, NEW b, <<a, b>> \in {<<i, k>>, <<k, j>>}
  PROVE  /\ Cardinality(Between(docs, i, j)) \in Nat
         /\ Cardinality(Between(docs, a, b)) \in Nat
         /\ Cardinality(Between(docs, a, b)) < Cardinality(Between(docs, i, j))
<1>1. k \in Dated(docs) /\ Before(docs, i, k) /\ Before(docs, k, j)
  BY DEF Between
<1>2. (a = i /\ b = k) \/ (a = k /\ b = j)
  OBVIOUS
<1>3. Between(docs, a, b) \subseteq Between(docs, i, j)
  BY <1>1, <1>2, BeforeIsOrder DEF Between
<1>4. k \notin Between(docs, a, b)
  BY <1>1, <1>2, BeforeIsOrder DEF Between
<1>5. IsFiniteSet(Between(docs, i, j))
  <2>1. Between(docs, i, j) \subseteq Dated(docs)
    BY DEF Between
  <2>2. QED
    BY <2>1, BeforeIsOrder, FS_Subset
<1>6. QED
  BY <1>3, <1>4, <1>5, FS_Subset, FS_CardinalityType

(***************************************************************************)
(* The trip with the fewest sightings in between is one of neighbours: a   *)
(* sighting in between is elsewhere than one of its ends and nearer in     *)
(* time.                                                                   *)
(***************************************************************************)
THEOREM NeighboursFindTrips ==
  ASSUME NEW docs, Located(docs),
         NEW first \in Dated(docs), NEW second \in Dated(docs),
         TooFast(docs[first], docs[second])
  PROVE  ImpossibleTravel(docs)
<1> DEFINE Trip(i, j) == Before(docs, i, j) /\ TooFast(docs[i], docs[j])
           Trips == {p \in Dated(docs) \X Dated(docs) : Trip(p[1], p[2])}
           Apart(i, j) == Cardinality(Between(docs, i, j))
           Sizes == {Apart(p[1], p[2]) : p \in Trips}
<1>1. \A i \in Dated(docs) : i \in Nat /\ docs[i].uploaded_at.minute \in Nat
  BY LenProperties DEF Located, Dated
<1>2. \A i, j \in Dated(docs) : TooFast(docs[i], docs[j]) => TooFast(docs[j], docs[i]) /\ i # j
  <2> TAKE i, j \in Dated(docs)
  <2> HAVE TooFast(docs[i], docs[j])
  <2>1. Elsewhere(docs[i], docs[j]) /\ Elsewhere(docs[j], docs[i]) /\ i # j
    BY DEF TooFast, Elsewhere
  <2> DEFINE x == docs[i].uploaded_at.minute
             y == docs[j].uploaded_at.minute
  <2>2. x \in Nat /\ y \in Nat /\ y - x \in -119..119
    BY <1>1 DEF TooFast
  <2>3. x - y \in -119..119
    <3> HIDE DEF x, y
    <3> QED
      BY <2>2
  <2>4. QED
    BY <2>1, <2>3 DEF TooFast
<1>3. \E i, j \in Dated(docs) : Trip(i, j)
  BY <1>2, BeforeIsOrder
<1>4. \A i, j \in Dated(docs) : Apart(i, j) \in Nat
  <2> TAKE i, j \in Dated(docs)
  <2>1. Between(docs, i, j) \subseteq Dated(docs)
    BY DEF Between
  <2>2. QED
    BY <2>1, BeforeIsOrder, FS_Subset, FS_CardinalityType
<1>5. Sizes \subseteq Nat /\ Sizes # {}
  <2>1. \A p \in Trips : Apart(p[1], p[2]) \in Nat
    BY <1>4
  <2>2. Sizes \subseteq Nat
    <3> HIDE DEF Apart, Trips
    <3> QED
      BY <2>1
  <2>3. PICK i \in Dated(docs), j \in Dated(docs) : Trip(i, j)
    BY <1>3
  <2>4. <<i, j>> \in Trips
    <3> HIDE DEF Trip
    <3> QED
      BY <2>3
  <2>5. QED
    BY <2>2, <2>4
<1>6. PICK least \in Sizes : \A s \in Sizes : least <= s
  <2> HIDE DEF Sizes
  <2> QED
    BY <1>5, LeastNatural
<1>7. PICK p \in Trips : least = Apart(p[1], p[2])
  BY <1>6
<1> DEFINE i == p[1]
           j == p[2]
<1>8. i \in Dated(docs) /\ j \in Dated(docs) /\ Trip(i, j)
  <2> HIDE DEF Trip
  <2> QED
    BY <1>7
<1>9. \A a, b \in Dated(docs) : Trip(a, b) => Apart(i, j) <= Apart(a, b)
  <2> TAKE a, b \in Dated(docs)
  <2> HAVE Trip(a, b)
  <2>1. <<a, b>> \in Trips
    <3> HIDE DEF Trip
    <3> QED
      OBVIOUS
  <2>2. Apart(a, b) \in Sizes
    BY <2>1
  <2>3. QED
    BY <1>6, <1>7, <2>2
<1> HIDE DEF i, j, Trips, Sizes
<1>10. Between(docs, i, j) = {}
  <2> SUFFICES ASSUME NEW k \in Between(docs, i, j) PROVE FALSE
    OBVIOUS
  <2>1. k \in Dated(docs) /\ Before(docs, i, k) /\ Before(docs, k, j)
    BY DEF Between
  <2>2. Elsewhere(docs[i], docs[k]) \/ Elsewhere(docs[k], docs[j])
    BY <1>8, <2>1 DEF TooFast, Elsewhere, Located
  <2>3. Trip(i, k) \/ Trip(k, j)
    <3>1. /\ docs[i].uploaded_at.minute <= docs[k].uploaded_at.minute
          /\ docs[k].uploaded_at.minute <= docs[j].uploaded_at.minute
          /\ docs[j].uploaded_at.minute - docs[i].uploaded_at.minute \in -119..119
      <4>1. \A a, b \in Dated(docs) :
              Before(docs, a, b) => docs[a].uploaded_at.minute <= docs[b].uploaded_at.minute
        BY <1>1 DEF Before
      <4>2. QED
        BY <1>8, <2>1, <4>1 DEF TooFast
    <3> DEFINE x == docs[i].uploaded_at.minute
               y == docs[j].uploaded_at.minute
               z == docs[k].uploaded_at.minute
    <3>2. x \in Nat /\ y \in Nat /\ z \in Nat /\ x <= z /\ z <= y /\ y - x \in -119..119
      BY <1>1, <1>8, <2>1, <3>1
    <3> HIDE DEF x, y, z
    <3>3. z - x \in -119..119 /\ y - z \in -119..119
      BY <3>2
    <3>4. /\ Elsewhere(docs[i], docs[k]) => TooFast(docs[i], docs[k])
          /\ Elsewhere(docs[k], docs[j]) => TooFast(docs[k], docs[j])
      BY <3>3 DEF TooFast, x, y, z
    <3>5. QED
      BY <1>8, <2>1, <2>2, <3>4
  <2>4. Apart(i, k) < Apart(i, j) /\ Apart(k, j) < Apart(i, j)
    BY <1>8, CloserIsLess
  <2>5. Apart(i, j) \in Nat /\ Apart(i, k) \in Nat /\ Apart(k, j) \in Nat
    BY <1>4, <1>8, <2>1
  <2> HIDE DEF Apart, Trip
  <2>6. QED
    BY <1>8, <1>9, <2>1, <2>3, <2>4, <2>5
<1>11. Adjacent(docs, i, j) /\ TooFast(docs[i], docs[j])
  BY <1>8, <1>10 DEF Adjacent, Between
<1>12. QED
  BY <1>8, <1>11 DEF ImpossibleTravel

-----------------------------------------------------------------------------
(***************************************************************************)
(* A trait that differs among documents differs among more of them.        *)
(***************************************************************************)
LEMMA DifferIsMonotone ==
  ASSUME NEW docs, NEW more, NEW trait, NEW m \in Nat,
         DOMAIN more = 1..m, DOMAIN docs \subseteq DOMAIN more,
         \A i \in DOMAIN docs : more[i] = docs[i],
         Differ(docs, trait)
  PROVE  Differ(more, trait)
<1> DEFINE Values(s) == {s[i][trait] : i \in DOMAIN s} \ {None}
           All == {more[i][trait] : i \in DOMAIN more}
<1>1. Values(docs) \subseteq Values(more)
  OBVIOUS
<1> DEFINE f == [i \in DOMAIN more |-> more[i][trait]]
<1>2. IsFiniteSet(DOMAIN more)
  BY FS_Interval
<1>3. IsFiniteSet(All)
  <2>1. f \in Surjection(DOMAIN more, All)
    BY DEF Surjection
  <2>2. QED
    <3> HIDE DEF f, All
    <3> QED
      BY <1>2, <2>1, FS_Surjection
<1>4. Values(more) \subseteq All
  OBVIOUS
<1>5. IsFiniteSet(Values(more))
  <2> HIDE DEF Values, All
  <2> QED
    BY <1>3, <1>4, FS_Subset
<1>6. Cardinality(Values(docs)) > 1
  BY DEF Differ
<1>7. Cardinality(Values(more)) > 1
  <2> HIDE DEF Values
  <2>1. /\ Cardinality(Values(docs)) <= Cardinality(Values(more))
        /\ IsFiniteSet(Values(docs))
    BY <1>1, <1>5, FS_Subset
  <2>2. Cardinality(Values(docs)) \in Nat /\ Cardinality(Values(more)) \in Nat
    BY <1>5, <2>1, FS_CardinalityType
  <2>3. QED
    BY <1>6, <2>1, <2>2
<1>8. QED
  BY <1>7 DEF Differ

(***************************************************************************)
(* An undated document at the end leaves the dated ones, their order and   *)
(* the trips among them alone.                                             *)
(***************************************************************************)
LEMMA UndatedChangesNoTrip ==
  ASSUME NEW docs \in Seq(Scans), NEW d, d.uploaded_at = None
  PROVE  LET more == Append(docs, d)
         IN  /\ DOMAIN more = 1..(Len(docs) + 1)
             /\ DOMAIN docs \subseteq DOMAIN more
             /\ \A i \in DOMAIN docs : more[i] = docs[i]
             /\ Dated(more) = Dated(docs)
             /\ ImpossibleTravel(docs) => ImpossibleTravel(more)
             /\ Unsortable(more) <=> Unsortable(docs)
<1> DEFINE more == Append(docs, d)
           n == Len(docs)
<1>1. n \in Nat /\ DOMAIN docs = 1..n /\ docs \in [1..n -> Scans]
  BY LenProperties
<1>2. DOMAIN more = 1..(n + 1) /\ more[n + 1] = d /\ \A i \in 1..n : more[i] = docs[i]
  <2> DEFINE S == Scans \cup {d}
  <2>1. docs \in Seq(S) /\ d \in S
    OBVIOUS
  <2> HIDE DEF S
  <2>2. /\ more \in Seq(S)
        /\ Len(more) = n + 1
        /\ \A i \in 1..n : more[i] = docs[i]
        /\ more[n + 1] = d
    BY <2>1, AppendProperties
  <2> HIDE DEF more, n
  <2>3. QED
    BY <2>2, LenProperties
<1> HIDE DEF more
<1>3. DOMAIN docs \subseteq DOMAIN more
  BY <1>1, <1>2
<1>4. Dated(more) = Dated(docs)
  BY <1>1, <1>2 DEF Dated
<1>5. \A i \in Dated(docs) : more[i] = docs[i]
  BY <1>1, <1>2 DEF Dated
<1>6. ImpossibleTravel(docs) => ImpossibleTravel(more)
  <2>1. \A i, j \in Dated(docs) : Before(more, i, j) <=> Before(docs, i, j)
    BY <1>5 DEF Before
  <2>2. \A i, j \in Dated(docs) : Adjacent(more, i, j) <=> Adjacent(docs, i, j)
    BY <1>4, <2>1 DEF Adjacent
  <2>3. QED
    BY <1>4, <1>5, <2>2 DEF ImpossibleTravel
<1>7. Unsortable(more) <=> Unsortable(docs)
  <2>1. {more[i].uploaded_at.aware : i \in Dated(more)}
          = {docs[i].uploaded_at.aware : i \in Dated(docs)}
    BY <1>4, <1>5
  <2>2. QED
    BY <2>1 DEF Unsortable
<1>8. QED
  BY <1>1, <1>2, <1>3, <1>4, <1>6, <1>7 DEF more

(***************************************************************************)
(* The dossier of a cluster without the document d shows nothing that the  *)
(* analysis of d does not, and exists when the analysis does.              *)
(***************************************************************************)
THEOREM DossierWithinAnalysis ==
  ASSUME NEW docs \in Seq(Scans), NEW d, d.uploaded_at = None,
         \A i \in DOMAIN docs : docs[i].document_id # d.document_id,
         NEW found \in AnalyzeCluster(docs, d)
  PROVE  \E known \in GetClusterHistory(docs) : known.flags \subseteq found.flags
<1> DEFINE more == Append(docs, d)
           known == EvaluateClusterGraph(docs, None)
<1>1. AllDocuments(docs, d) = more
  BY DEF AllDocuments
<1>2. /\ DOMAIN more = 1..(Len(docs) + 1)
      /\ DOMAIN docs \subseteq DOMAIN more
      /\ \A i \in DOMAIN docs : more[i] = docs[i]
      /\ ImpossibleTravel(docs) => ImpossibleTravel(more)
      /\ Unsortable(more) <=> Unsortable(docs)
  BY UndatedChangesNoTrip
<1>3. Len(docs) + 1 \in Nat
  BY LenProperties
<1> HIDE DEF more
<1>4. ~Unsortable(docs) /\ found = EvaluateClusterGraph(more, d.document_id)
  BY <1>1, <1>2 DEF AnalyzeCluster
<1>5. known \in GetClusterHistory(docs)
  BY <1>4 DEF GetClusterHistory
<1>6. PriorOffences(docs, None) # {} => PriorOffences(more, d.document_id) # {}
  BY <1>2 DEF PriorOffences
<1>7. \A trait : Differ(docs, trait) => Differ(more, trait)
  BY <1>2, <1>3, DifferIsMonotone
<1>8. Flags(docs, None) \subseteq Flags(more, d.document_id)
  <2> SUFFICES ASSUME NEW t \in Flags(docs, None) PROVE t \in Flags(more, d.document_id)
    OBVIOUS
  <2>1. t \in FlagType
    BY DEF Flags
  <2>2. CASE t = "name_mismatch"
    BY <1>7, <2>1, <2>2 DEF Flags
  <2>3. CASE t = "document_number_mismatch"
    BY <1>7, <2>1, <2>3 DEF Flags
  <2>4. CASE t = "dob_mismatch"
    BY <1>7, <2>1, <2>4 DEF Flags
  <2>5. CASE t = "nationality_mismatch"
    BY <1>7, <2>1, <2>5 DEF Flags
  <2>6. CASE t = "impossible_travel"
    BY <1>2, <2>1, <2>6 DEF Flags
  <2>7. CASE t = "repeat_offender"
    BY <1>6, <2>1, <2>7 DEF Flags
  <2>8. QED
    BY <2>1, <2>2, <2>3, <2>4, <2>5, <2>6, <2>7 DEF FlagType
<1>9. known.flags = Flags(docs, None) /\ found.flags = Flags(more, d.document_id)
  BY <1>4 DEF EvaluateClusterGraph
<1>10. QED
  BY <1>5, <1>8, <1>9

-----------------------------------------------------------------------------
(***************************************************************************)
(* The risk engine and the tampering composite: ranges, what an escalation *)
(* makes up for, and what an answer without a reason says.                 *)
(***************************************************************************)

(***************************************************************************)
(* Min of two natural numbers is one of them and below both.               *)
(***************************************************************************)
LEMMA MinOfTwo ==
  ASSUME NEW a \in Nat, NEW b \in Nat
  PROVE  Min({a, b}) \in {a, b} /\ Min({a, b}) <= a /\ Min({a, b}) <= b
<1>1. \E x \in {a, b} : \A y \in {a, b} : x <= y
  OBVIOUS
<1>2. QED
  BY <1>1 DEF Min

(***************************************************************************)
(* Each of the five checks has a score from 0 to 1000.                     *)
(***************************************************************************)
LEMMA CheckInRange ==
  ASSUME NEW image \in Image, NEW c \in Check
  PROVE  Results(image)[c] \in [score : 0..1000, flagged : BOOLEAN]
<1> DEFINE CheckResult == [score : 0..1000, flagged : BOOLEAN]
<1>1. compute_ela(image) \in CheckResult
  <2> DEFINE m == image.magnitude
             capped == Min({250, m})
             mean == (m + image.spatial) \div 2
  <2>1. m \in 0..1000 /\ image.spatial \in 0..1000
    BY DEF Image, Level
  <2>2. mean \in 0..1000
    <3> DEFINE spatial == image.spatial
    <3>1. m \in 0..1000 /\ spatial \in 0..1000
      BY <2>1
    <3> HIDE DEF m, spatial
    <3>2. (m + spatial) \div 2 \in 0..1000
      BY <3>1
    <3>3. QED
      BY <3>2 DEF spatial
  <2>3. capped \in 0..1000
    <3>1. m \in Nat /\ 250 \in Nat
      BY <2>1
    <3> HIDE DEF m
    <3>2. capped \in {250, m} /\ capped <= 250
      BY <3>1, MinOfTwo
    <3>3. QED
      BY <3>1, <3>2
  <2>4. compute_ela(image) = IF image.quiet THEN Result(capped, FALSE)
                             ELSE Result(mean, mean >= 450)
    BY DEF compute_ela
  <2>5. Result(capped, FALSE) \in CheckResult /\ Result(mean, mean >= 450) \in CheckResult
    <3> HIDE DEF capped, mean
    <3> QED
      BY <2>2, <2>3 DEF Result
  <2> HIDE DEF capped, mean, CheckResult
  <2>6. QED
    BY <2>4, <2>5
<1>2. analyze_metadata(image) \in CheckResult
  <2> DEFINE sum == (IF image.software # {} THEN 700 ELSE 0)
                    + (IF image.redated THEN 250 ELSE 0)
                    + (IF image.profile /\ "photoshop" \notin image.software THEN 600 ELSE 0)
             capped == Min({1000, sum})
  <2>1. sum \in Nat
    OBVIOUS
  <2>2. capped \in 0..1000
    <3> HIDE DEF sum
    <3>1. capped \in {1000, sum} /\ capped <= 1000
      BY <2>1, MinOfTwo
    <3>2. QED
      BY <2>1, <3>1
  <2>3. analyze_metadata(image) = Result(capped, capped >= 500)
    BY DEF analyze_metadata
  <2>4. QED
    <3> HIDE DEF capped
    <3> QED
      BY <2>2, <2>3 DEF Result
<1>3. analyze_photo_boundaries(image) \in CheckResult
  <2> DEFINE a == image.noise
             b == image.noise_ratio
             e == image.border
             score == (4 * a + 3 * b + 3 * e) \div 10
  <2>1. a \in 0..1000 /\ b \in 0..1000 /\ e \in 0..1000
    BY DEF Image, Level
  <2>2. score \in 0..1000
    <3> HIDE DEF a, b, e
    <3> QED
      BY <2>1
  <2>3. analyze_photo_boundaries(image) = Result(score, score >= 450)
    BY DEF analyze_photo_boundaries
  <2>4. QED
    <3> HIDE DEF score
    <3> QED
      BY <2>2, <2>3 DEF Result
<1>4. verify_stamps(image, {}) \in CheckResult
  BY DEF verify_stamps, Result
<1>5. analyze_text_manipulation(image) \in CheckResult
  <2> DEFINE outliers == Outliers(image.lines)
             scores == {LocalScore(image.lines[i]) : i \in outliers}
             highest == Max(scores)
             most == Min({1000, highest})
             tenth == (3 * highest) \div 10
             least == Min({300, tenth})
  <2>1. CASE outliers = {}
    BY <2>1 DEF analyze_text_manipulation, Result
  <2>2. CASE outliers # {}
    <3>1. image.lines \in Seq(Line)
      BY DEF Image
    <3>2. \A i \in outliers : image.lines[i] \in Line
      <4>1. \A i \in 1..Len(image.lines) : image.lines[i] \in Line
        BY <3>1, ElementOfSeq
      <4>2. outliers \subseteq 1..Len(image.lines)
        BY <3>1, LenProperties DEF Outliers
      <4>3. QED
        BY <4>1, <4>2
    <3>3. \A line \in Line : LocalScore(line) \in 0..1400
      BY DEF Line, LocalScore
    <3>4. scores \subseteq 0..1400 /\ scores # {}
      BY <2>2, <3>2, <3>3
    <3>5. highest \in 0..1400
      <4> HIDE DEF scores, most, least, tenth
      <4> DEFINE bound == 1400
      <4>1. bound \in Nat /\ scores \subseteq 0..bound /\ scores # {}
        BY <3>4
      <4> HIDE DEF bound
      <4>2. highest \in scores
        BY <4>1, MaxOfBounded, Zenon
      <4> HIDE DEF highest
      <4>3. QED
        BY <3>4, <4>2
    <3>6. most \in 0..1000 /\ least \in 0..1000
      <4> HIDE DEF highest
      <4>1. highest \in Nat /\ tenth \in Nat
        BY <3>5
      <4> HIDE DEF tenth
      <4>2. most \in {1000, highest} /\ most <= 1000 /\ least \in {300, tenth} /\ least <= 300
        BY <4>1, MinOfTwo
      <4>3. QED
        BY <4>1, <4>2
    <3>7. \/ analyze_text_manipulation(image) = Result(most, highest >= 450)
          \/ analyze_text_manipulation(image) = Result(least, FALSE)
      BY <2>2 DEF analyze_text_manipulation
    <3>8. QED
      <4> HIDE DEF most, least, highest
      <4>1. (highest >= 450) \in BOOLEAN
        OBVIOUS
      <4>2. Result(most, highest >= 450) \in CheckResult /\ Result(least, FALSE) \in CheckResult
        BY <3>6, <4>1 DEF Result
      <4> HIDE DEF CheckResult
      <4>3. QED
        BY <3>7, <4>2
  <2>3. QED
    BY <2>1, <2>2
<1>6. QED
  BY <1>1, <1>2, <1>3, <1>4, <1>5 DEF Results, Check

(***************************************************************************)
(* The five results give a response whose score is between 0.0 and 1.0,    *)
(* with the weights of the service and with those of the client's          *)
(* fallback.                                                               *)
(***************************************************************************)
THEOREM TamperingInRange ==
  ASSUME NEW image \in Image, NEW t \in call_tampering_service(image)
  PROVE  t \in TamperingSubScore
<1> DEFINE res == Results(image)
           scores == {res[c].score : c \in Check}
           highest == Max(scores)
<1>1. \A c \in Check : res[c].score \in 0..1000 /\ res[c].flagged \in BOOLEAN
  BY CheckInRange
<1>2. highest \in 0..1000
  <2>1. scores \subseteq 0..1000 /\ scores # {}
    <3> HIDE DEF res
    <3>1. \A check \in Check : res[check].score \in 0..1000
      BY <1>1
    <3>2. QED
      BY <3>1 DEF Check
  <2> HIDE DEF scores
  <2> DEFINE bound == 1000
  <2>2. bound \in Nat /\ scores \subseteq 0..bound /\ scores # {}
    BY <2>1
  <2> HIDE DEF bound
  <2>3. highest \in scores
    BY <2>2, MaxOfBounded, Zenon
  <2> HIDE DEF highest
  <2>4. QED
    BY <2>1, <2>3
<1>3. PICK w \in {ServiceWeights, FallbackWeights} : t = Response(w, res)
  BY DEF call_tampering_service, detect_tampering
<1> DEFINE weighted == Weighted(w, res)
<1>4. weighted \in Int /\ 0 <= weighted /\ weighted <= 100000
  <2> DEFINE a == res["ela"].score
             b == res["metadata"].score
             c == res["boundary"].score
             d == res["stamp_match"].score
             e == res["text_analysis"].score
  <2>1. /\ a \in 0..1000 /\ b \in 0..1000 /\ c \in 0..1000 /\ d \in 0..1000
        /\ e \in 0..1000
    <3> HIDE DEF res
    <3> DEFINE Scores == 0..1000
    <3>1. \A check \in Check : res[check].score \in Scores
      BY <1>1
    <3> HIDE DEF Scores
    <3>2. a \in Scores /\ b \in Scores /\ c \in Scores /\ d \in Scores /\ e \in Scores
      BY <3>1 DEF Check
    <3>3. QED
      BY <3>2 DEF Scores
  <2>2. \/ weighted = 25 * a + 20 * b + 20 * c + 10 * d + 25 * e
        \/ weighted = 30 * a + 25 * b + 20 * c + 10 * d + 15 * e
    <3> HIDE DEF res
    <3> QED
      BY <1>3 DEF Weighted, ServiceWeights, FallbackWeights
  <2> HIDE DEF a, b, c, d, e, weighted
  <2>3. CASE weighted = 25 * a + 20 * b + 20 * c + 10 * d + 25 * e
    <3>1. 0 <= weighted /\ weighted <= 100 * 1000
      BY <2>1, <2>3, SMT
    <3>2. QED
      BY <2>1, <2>3, <3>1, SMT
  <2>4. CASE weighted = 30 * a + 25 * b + 20 * c + 10 * d + 15 * e
    <3>1. 0 <= weighted /\ weighted <= 100 * 1000
      BY <2>1, <2>4, SMT
    <3>2. QED
      BY <2>1, <2>4, <3>1, SMT
  <2>5. QED
    BY <2>2, <2>3, <2>4
<1> DEFINE composite == Composite(w, res)
<1>5. composite \in Int /\ 0 <= composite /\ composite <= 1000000
  <2>1. composite = 600 * highest + 4 * weighted
    BY DEF Composite
  <2> HIDE DEF highest, weighted, composite
  <2>2. QED
    BY <1>2, <1>4, <2>1, SMT
<1>6. FlaggedChecks(res) \in SUBSET Check
  BY DEF FlaggedChecks
<1>7. t = [overall_score |-> (composite + 500) \div 1000,
           flagged |-> FlaggedChecks(res) # {} \/ composite >= 450000,
           flagged_checks |-> FlaggedChecks(res)]
  BY <1>3, SMT DEF Response
<1>8. QED
  <2> HIDE DEF composite, res
  <2> DEFINE score == (composite + 500) \div 1000
             flagged == FlaggedChecks(res) # {} \/ composite >= 450000
  <2>1. score \in 0..1000
    BY <1>5, SMT
  <2>2. flagged \in BOOLEAN
    BY SMT
  <2> HIDE DEF score, flagged
  <2>3. t = [overall_score |-> score, flagged |-> flagged, flagged_checks |-> FlaggedChecks(res)]
    BY <1>7, SMT DEF score, flagged
  <2>4. QED
    BY <1>6, <2>1, <2>2, <2>3 DEF TamperingSubScore, Check

-----------------------------------------------------------------------------
(***************************************************************************)
(* The sub-scores after normalisation, for every request.                  *)
(***************************************************************************)
LEMMA NormalizedInRange ==
  ASSUME NEW request \in RiskScoreRequest
  PROVE  /\ NormalizeValidation(request.validation) \in 0..1000
         /\ NormalizeTampering(request.tampering) \in 0..1000
         /\ NormalizeFace(request.face) \in 0..1000
         /\ NormalizeBlacklist(request.blacklist) \in 0..1000
         /\ request.cross_checkpoint.cross_checkpoint_risk \in 0..1000
<1>1. \A x \in Nat : AtMostOne(x) \in 0..1000
  BY DEF AtMostOne
<1>2. NormalizeValidation(request.validation) \in 0..1000
  <2> DEFINE total == request.validation.total_rules
             failed == Cardinality(request.validation.failed_rule_names)
             share == (1000 * failed) \div total
  <2>1. total \in Nat /\ request.validation.failed_rule_names \subseteq RuleNames
    BY DEF RiskScoreRequest, ValidationSubScore
  <2>2. failed \in Nat
    BY <2>1, RuleNamesAreFinite, FS_Subset, FS_CardinalityType
  <2>3. NormalizeValidation(request.validation) = IF total = 0 THEN 0 ELSE AtMostOne(share)
    BY DEF NormalizeValidation
  <2>4. total # 0 => share \in Nat
    <3> HIDE DEF total, failed
    <3> QED
      BY <2>1, <2>2
  <2> HIDE DEF share
  <2>5. QED
    BY <1>1, <2>3, <2>4
<1>3. NormalizeTampering(request.tampering) \in 0..1000
  BY DEF RiskScoreRequest, TamperingSubScore, NormalizeTampering
<1>4. NormalizeFace(request.face) \in 0..1000
  <2> DEFINE c == request.face.cosine_similarity
             far == IF c = None THEN 500 ELSE (1000 - c) \div 2
             more == IF request.face.has_duplicates THEN 200 ELSE 0
  <2>1. c \in (-1000..1000) \cup {None}
    BY DEF RiskScoreRequest, FaceSubScore
  <2>2. far + more \in Nat
    <3> HIDE DEF c
    <3> QED
      BY <2>1
  <2>3. NormalizeFace(request.face) = AtMostOne(far + more)
    BY DEF NormalizeFace
  <2> HIDE DEF far, more
  <2>4. QED
    BY <1>1, <2>2, <2>3
<1>5. NormalizeBlacklist(request.blacklist) \in 0..1000
  BY DEF NormalizeBlacklist
<1>6. QED
  BY <1>2, <1>3, <1>4, <1>5 DEF RiskScoreRequest, CrossCheckpointSubScore

(***************************************************************************)
(* The sub-scores as natural numbers.                                      *)
(***************************************************************************)
LEMMA NormalizedIsNat ==
  ASSUME NEW request \in RiskScoreRequest
  PROVE  /\ NormalizeValidation(request.validation) \in Nat
         /\ NormalizeTampering(request.tampering) \in Nat
         /\ NormalizeFace(request.face) \in Nat
         /\ NormalizeBlacklist(request.blacklist) \in Nat
         /\ request.cross_checkpoint.cross_checkpoint_risk \in Nat
<1> DEFINE v == NormalizeValidation(request.validation)
           t == NormalizeTampering(request.tampering)
           f == NormalizeFace(request.face)
           b == NormalizeBlacklist(request.blacklist)
           cc == request.cross_checkpoint.cross_checkpoint_risk
<1>1. v \in 0..1000 /\ t \in 0..1000 /\ f \in 0..1000 /\ b \in 0..1000 /\ cc \in 0..1000
  BY NormalizedInRange
<1>2. v \in Nat /\ t \in Nat /\ f \in Nat /\ b \in Nat /\ cc \in Nat
  <2> HIDE DEF v, t, f, b, cc
  <2> QED
    BY <1>1
<1>3. QED
  BY <1>2

(***************************************************************************)
(* round is off by half a point at most.                                   *)
(***************************************************************************)
LEMMA RoundedIsNear ==
  ASSUME NEW n \in Nat, NEW s \in Rounded(n, 1000)
  PROVE  s \in Nat /\ 1000 * s <= n + 500 /\ n <= 1000 * s + 500
<1>1. s \in {n \div 1000, n \div 1000 + 1} /\ 2 * (s * 1000 - n) \in -1000..1000
  BY DEF Rounded
<1>2. s \in Nat
  BY <1>1
<1>3. QED
  BY <1>1, <1>2

(***************************************************************************)
(* The term of the history takes a tenth of the other weights at most.     *)
(***************************************************************************)
LEMMA HistoryTakesATenth ==
  ASSUME NEW v \in Nat, NEW t \in Nat, NEW f \in Nat, NEW b \in Nat, NEW cc \in Nat
  PROVE  /\ WeightedSum(v, t, f, b, 0) \in Nat
         /\ WeightedSum(v, t, f, b, cc) \in Nat
         /\ 9 * WeightedSum(v, t, f, b, 0) <= 10 * WeightedSum(v, t, f, b, cc)
BY DEF WeightedSum

(***************************************************************************)
(* A score and a band of RiskScoreResponse.                                *)
(***************************************************************************)
LEMMA ScoreInRange ==
  ASSUME NEW request \in RiskScoreRequest, NEW r \in compute_risk_score(request)
  PROVE  r.score \in 0..1000 /\ r.band \in Bands
<1> DEFINE v == NormalizeValidation(request.validation)
           t == NormalizeTampering(request.tampering)
           f == NormalizeFace(request.face)
           b == NormalizeBlacklist(request.blacklist)
           cc == request.cross_checkpoint.cross_checkpoint_risk
           n == WeightedSum(v, t, f, b, cc)
<1>1. v \in Nat /\ t \in Nat /\ f \in Nat /\ b \in Nat /\ cc \in Nat
  BY NormalizedIsNat
<1>2. n \in Nat
  <2> HIDE DEF v, t, f, b, cc
  <2> QED
    BY <1>1, HistoryTakesATenth
<1>3. PICK s \in Rounded(n, 1000) :
        /\ r.score = AtMostOne(s)
        /\ \/ r.band = classify_band(AtMostOne(s))
           \/ r.band = escalate_band_one_tier(classify_band(AtMostOne(s)))
  BY DEF compute_risk_score
<1> HIDE DEF n
<1>4. s \in Nat
  BY <1>2, RoundedIsNear
<1>5. QED
  BY <1>3, <1>4 DEF AtMostOne, classify_band, escalate_band_one_tier, Bands

(***************************************************************************)
(* Escalating by one band makes up for what the history's term takes from  *)
(* the other weights, for all evidence and however ties are rounded.       *)
(***************************************************************************)
THEOREM EscalationMakesUp ==
  ASSUME NEW request \in RiskScoreRequest, request.cross_checkpoint.repeat_offender_hit,
         NEW with \in compute_risk_score(request),
         NEW alone \in compute_risk_score([request EXCEPT !.cross_checkpoint = NoHistory])
  PROVE  Rank[alone.band] <= Rank[with.band]
<1> DEFINE v == NormalizeValidation(request.validation)
           t == NormalizeTampering(request.tampering)
           f == NormalizeFace(request.face)
           b == NormalizeBlacklist(request.blacklist)
           cc == request.cross_checkpoint.cross_checkpoint_risk
           n0 == WeightedSum(v, t, f, b, 0)
           n1 == WeightedSum(v, t, f, b, cc)
           other == [request EXCEPT !.cross_checkpoint = NoHistory]
<1>1. v \in Nat /\ t \in Nat /\ f \in Nat /\ b \in Nat /\ cc \in Nat
  BY NormalizedIsNat
<1>2. n0 \in Nat /\ n1 \in Nat /\ 9 * n0 <= 10 * n1
  <2> HIDE DEF v, t, f, b, cc
  <2> QED
    BY <1>1, HistoryTakesATenth
<1>3. /\ other.validation = request.validation /\ other.tampering = request.tampering
      /\ other.face = request.face /\ other.blacklist = request.blacklist
      /\ other.cross_checkpoint = NoHistory
  BY DEF RiskScoreRequest
<1>4. PICK s0 \in Rounded(n0, 1000) : alone.band = classify_band(AtMostOne(s0))
  <2> HIDE DEF other
  <2> QED
    BY <1>3 DEF compute_risk_score, NoHistory
<1>5. PICK s1 \in Rounded(n1, 1000) :
        with.band = escalate_band_one_tier(classify_band(AtMostOne(s1)))
  BY DEF compute_risk_score
<1> HIDE DEF n0, n1
<1>6. /\ s0 \in Nat /\ 1000 * s0 <= n0 + 500
      /\ s1 \in Nat /\ n1 <= 1000 * s1 + 500
  BY <1>2, RoundedIsNear
<1>7. 9 * s0 <= 10 * s1 + 9
  BY <1>2, <1>6
<1>8. QED
  BY <1>4, <1>5, <1>6, <1>7 DEF AtMostOne, classify_band, escalate_band_one_tier, Rank

(***************************************************************************)
(* The all-clear is the only reason then, nothing was flagged, and what is *)
(* left in the score is an uncertain face and unflagged traces of          *)
(* tampering.                                                              *)
(***************************************************************************)
THEOREM AllClearMeansClean ==
  ASSUME NEW request \in RiskScoreRequest,
         request.cross_checkpoint.flags = {} => request.cross_checkpoint.cross_checkpoint_risk = 0,
         NoSignal \in generate_reasons(request)
  PROVE  /\ generate_reasons(request) = {NoSignal}
         /\ ~request.tampering.flagged
         /\ request.degraded_modules = {}
         /\ ~request.cross_checkpoint.repeat_offender_hit
         /\ request.face.cosine_similarity # None
         /\ \A r \in compute_risk_score(request) : r.score < 150
<1> DEFINE signals == ValidationReasons(request.validation)
                      \cup TamperingReasons(request.tampering)
                      \cup FaceReasons(request.face)
                      \cup BlacklistReasons(request.blacklist)
                      \cup CrossCheckpointReasons(request.cross_checkpoint)
                      \cup {Reason("degraded", m) : m \in request.degraded_modules}
<1>1. \A s \in signals : s.module # "none"
  BY DEF ValidationReasons, TamperingReasons, FaceReasons, BlacklistReasons,
         CrossCheckpointReasons, Reason
<1>2. signals = {}
  BY <1>1 DEF generate_reasons, NoSignal, Reason
<1>3. generate_reasons(request) = {NoSignal}
  BY <1>2 DEF generate_reasons
<1>4. request.validation.failed_rule_names = {}
  BY <1>2 DEF ValidationReasons
<1>5. request.tampering.flagged_checks = {} /\ ~(NormalizeTampering(request.tampering) >= 300)
  BY <1>2 DEF TamperingReasons
<1>6. /\ request.face.cosine_similarity # None
      /\ ~(request.face.cosine_similarity < 600)
      /\ ~request.face.has_duplicates
  BY <1>2 DEF FaceReasons, RiskScoreRequest, FaceSubScore
<1>7. ~request.blacklist.hit
  BY <1>2 DEF BlacklistReasons
<1>8. request.cross_checkpoint.flags = {} /\ ~request.cross_checkpoint.repeat_offender_hit
  BY <1>2 DEF CrossCheckpointReasons
<1>9. request.degraded_modules = {}
  BY <1>2
<1>10. ~request.tampering.flagged
  BY <1>5 DEF NormalizeTampering, RiskScoreRequest, TamperingSubScore
<1>11. NormalizeValidation(request.validation) = 0
  <2>1. request.validation.total_rules \in Nat
    BY DEF RiskScoreRequest, ValidationSubScore
  <2>2. Cardinality(request.validation.failed_rule_names) = 0
    BY <1>4, FS_EmptySet
  <2>3. \A n \in Nat : n # 0 => (1000 * 0) \div n = 0
    OBVIOUS
  <2>4. QED
    BY <2>1, <2>2, <2>3 DEF NormalizeValidation, AtMostOne
<1>12. NormalizeFace(request.face) \in 0..200
  <2> DEFINE c == request.face.cosine_similarity
  <2>1. c \in 600..1000
    BY <1>6 DEF RiskScoreRequest, FaceSubScore
  <2>2. NormalizeFace(request.face) = AtMostOne((1000 - c) \div 2 + 0)
    BY <1>6 DEF NormalizeFace
  <2> HIDE DEF c
  <2>3. QED
    BY <2>1, <2>2 DEF AtMostOne
<1>13. NormalizeBlacklist(request.blacklist) = 0
  BY <1>7 DEF NormalizeBlacklist
<1>14. NormalizeTampering(request.tampering) \in 0..299
  <2> DEFINE t == NormalizeTampering(request.tampering)
  <2>1. t \in 0..1000
    BY NormalizedInRange
  <2>2. ~(t >= 300)
    BY <1>5
  <2> HIDE DEF t
  <2>3. t \in 0..299
    BY <2>1, <2>2
  <2>4. QED
    BY <2>3 DEF t
<1>15. ASSUME NEW r \in compute_risk_score(request) PROVE r.score < 150
  <2> DEFINE t == NormalizeTampering(request.tampering)
             f == NormalizeFace(request.face)
             n == WeightedSum(0, t, f, 0, 0)
  <2>1. PICK s \in Rounded(n, 1000) : r.score = AtMostOne(s)
    BY <1>8, <1>11, <1>13 DEF compute_risk_score
  <2>2. t \in 0..299 /\ f \in 0..200
    BY <1>12, <1>14
  <2> HIDE DEF t, f
  <2>3. n \in Nat /\ n <= 144650
    BY <2>2, SMT DEF WeightedSum
  <2> HIDE DEF n
  <2>4. s \in Nat /\ 1000 * s <= n + 500
    BY <2>3, RoundedIsNear, SMT
  <2>5. s < 150
    BY <2>3, <2>4, SMT
  <2>6. QED
    BY <2>1, <2>4, <2>5 DEF AtMostOne
<1>16. QED
  BY <1>3, <1>6, <1>8, <1>9, <1>10, <1>15

-----------------------------------------------------------------------------
(***************************************************************************)
(* register_cluster_document leaves a sequence of documents.               *)
(***************************************************************************)
LEMMA RegisterType ==
  ASSUME NEW docs \in Seq(Scans), NEW d \in Scans
  PROVE  Register(docs, d) \in Seq(Scans)
<1> DEFINE known == {i \in DOMAIN docs : docs[i].document_id = d.document_id}
           k == CHOOSE i \in known : TRUE
           rest == SubSeq(docs, 1, k - 1) \o SubSeq(docs, k + 1, Len(docs))
<1>1. CASE known = {}
  BY <1>1, AppendProperties DEF Register
<1>2. CASE known # {}
  <2>1. k \in 1..Len(docs) /\ Len(docs) \in Nat
    BY <1>2, LenProperties
  <2> HIDE DEF k
  <2>2. SubSeq(docs, 1, k - 1) \in Seq(Scans) /\ SubSeq(docs, k + 1, Len(docs)) \in Seq(Scans)
    <3>1. \A i \in 1..Len(docs) : docs[i] \in Scans
      BY ElementOfSeq
    <3>2. (\A i \in 1..(k - 1) : docs[i] \in Scans)
          /\ (\A i \in (k + 1)..Len(docs) : docs[i] \in Scans)
      BY <2>1, <3>1
    <3>3. QED
      BY <2>1, <3>2
  <2>3. rest \in Seq(Scans)
    BY <2>2, ConcatProperties
  <2> HIDE DEF rest
  <2>4. Append(rest, d) \in Seq(Scans)
    BY <2>3, AppendProperties
  <2>5. Register(docs, d) = Append(rest, d)
    BY <1>2 DEF Register, rest, k
  <2>6. QED
    BY <2>4, <2>5
<1>3. QED
  BY <1>1, <1>2

\* A sub-score whose risk and hit follow from the flags.
AnswerOfAnalysis(cc) ==
  /\ cc \in CrossCheckpointSubScore
  /\ cc.flags = {} => cc.cross_checkpoint_risk = 0
  /\ cc.repeat_offender_hit => "repeat_offender" \in cc.flags /\ cc.cross_checkpoint_risk > 0

(***************************************************************************)
(* What the cross-checkpoint service answers is a sub-score of the request *)
(* to the risk engine, and a severe prior is in it.                        *)
(***************************************************************************)
LEMMA AnalysisAnswers ==
  ASSUME NEW docs \in Seq(Scans), NEW d, d.uploaded_at = None,
         NEW answer \in AnalyzeCluster(docs, d)
  PROVE  /\ AnswerOfAnalysis(answer)
         /\ PriorOffences(docs, d.document_id) # {} => answer.repeat_offender_hit
<1> DEFINE all == AllDocuments(docs, d)
           flags == Flags(all, d.document_id)
           risk == CrossCheckpointRisk(flags)
           hit == PriorOffences(all, d.document_id) # {}
<1>1. answer = [flags |-> flags, cross_checkpoint_risk |-> risk, repeat_offender_hit |-> hit]
  BY DEF AnalyzeCluster, EvaluateClusterGraph
<1>2. hit => "repeat_offender" \in flags
  BY DEF Flags, FlagType
<1>3. flags \in SUBSET FlagType
  BY DEF Flags
<1>4. risk \in 0..1000 /\ (flags # {} => risk >= 280) /\ (flags = {} => risk = 0)
  <2> HIDE DEF flags
  <2> QED
    BY <1>3, CompositeInRange DEF CrossCheckpointRisk
<1>5. hit \in BOOLEAN
  OBVIOUS
<1>6. PriorOffences(docs, d.document_id) # {} => hit
  <2>1. DOMAIN docs \subseteq DOMAIN all /\ \A i \in DOMAIN docs : all[i] = docs[i]
    BY UndatedChangesNoTrip DEF AllDocuments
  <2> HIDE DEF all
  <2>2. QED
    BY <2>1 DEF PriorOffences
<1>7. QED
  <2> HIDE DEF flags, risk, hit
  <2>1. answer \in CrossCheckpointSubScore
    BY <1>1, <1>3, <1>4, <1>5 DEF CrossCheckpointSubScore
  <2>2. QED
    BY <1>1, <1>2, <1>4, <1>6, <2>1 DEF AnswerOfAnalysis

-----------------------------------------------------------------------------
\* The ranges of the comparison's numbers.
Cosines == -1000..1000
Thresholds == {350, 900}
MatchScores == 900..1000
MismatchScores == 0..650

(***************************************************************************)
(* calibrated_score keeps matches and mismatches apart.                    *)
(***************************************************************************)
LEMMA CalibratedTellsVerdict ==
  ASSUME NEW sim \in Cosines, NEW threshold \in Thresholds
  PROVE  /\ Calibrated(TRUE, sim, threshold) \in MatchScores
         /\ Calibrated(FALSE, sim, threshold) \in MismatchScores
<1> DEFINE above == AtLeast(0, sim - threshold)
           least == AtLeast(10, 600 - threshold)
           positive == AtLeast(0, sim)
           bonus == (85 * above) \div least
           part == (500 * positive) \div threshold
<1>1. sim \in Int /\ threshold \in Nat \ {0}
  BY DEF Cosines, Thresholds
<1>2. above \in Nat /\ positive \in Nat /\ least \in Nat \ {0}
  BY <1>1 DEF AtLeast
<1> DEFINE match == Calibrated(TRUE, sim, threshold)
           mismatch == Calibrated(FALSE, sim, threshold)
<1>3. match = IF 910 + bonus > 995 THEN 995 ELSE 910 + bonus
  BY DEF Calibrated, AtMost
<1> DEFINE raised == 100 + AtMost(500, part)
<1>4. mismatch = IF raised > 650 THEN 650 ELSE raised
  BY DEF Calibrated, AtMost
<1> HIDE DEF above, least, positive, match, mismatch
<1>5. 85 * above \in Nat /\ 500 * positive \in Nat
  BY <1>2
<1>6. bonus \in Nat /\ part \in Nat
  <2> DEFINE x == 85 * above
             y == 500 * positive
  <2>1. x \in Nat /\ y \in Nat
    BY <1>5
  <2> HIDE DEF x, y
  <2>2. x \div least \in Nat /\ y \div threshold \in Nat
    BY <1>1, <1>2, <2>1
  <2>3. QED
    BY <2>2 DEF x, y
<1> HIDE DEF bonus, part
<1>7. match \in MatchScores
  BY <1>3, <1>6 DEF MatchScores
<1>8. raised \in 100..600
  BY <1>6 DEF AtMost
<1> HIDE DEF raised
<1>9. mismatch \in MismatchScores
  BY <1>4, <1>8 DEF MismatchScores
<1>10. QED
  BY <1>7, <1>9 DEF match, mismatch

(***************************************************************************)
(* The embeddings of a comparison in progress.                             *)
(***************************************************************************)
ModelsAgree ==
  /\ phase \in {"live", "compare"} => insightface # "not_attempted"
  /\ raced => insightface \in {"loaded", "failed"}
  /\ (phase = "live" /\ visible["doc"] /\ ~raced) =>
       (embedded["doc"] = "arcface" <=> insightface = "loaded")

FaceInv == FaceTypeOK /\ ModelsAgree /\ OneModelUnlessLoading /\ ScoreTellsVerdict

FaceStep ==
  \/ ThreadStartsLoad \/ ThreadEndsLoad \/ AwsCompareFaces \/ ExtractionFails
  \/ EmbedDocument \/ EmbedLive \/ CompareFaces
  \/ \E d \in Documents : Dedup(d)
  \/ \E d \in Documents, c \in Clusters : RegisterEmbedding(d, c)

Faces == [one_to_one : FaceResponse \cup {None}, dedup : DedupResponse \cup {None}]

(***************************************************************************)
(* A comparison's answer takes its place in the response.                  *)
(***************************************************************************)
LEMMA AnswerKept ==
  ASSUME face \in Faces,
         NEW answer \in FaceResponse, answer.match_score >= 900 <=> answer.matched,
         face' = [face EXCEPT !.one_to_one = answer]
  PROVE  face' \in Faces /\ ScoreTellsVerdict'
<1>1. face' = [one_to_one |-> answer, dedup |-> face.dedup]
  BY DEF Faces
<1>2. face' \in Faces
  BY <1>1 DEF Faces
<1>3. face'.one_to_one = answer
  BY <1>1
<1>4. QED
  BY <1>2, <1>3 DEF ScoreTellsVerdict

(***************************************************************************)
(* Every answer has a score that says its verdict.                         *)
(***************************************************************************)
LEMMA VerdictKept ==
  ASSUME FaceTypeOK, ScoreTellsVerdict, FaceStep
  PROVE  face' \in Faces /\ ScoreTellsVerdict'
<1>1. face \in Faces
  BY DEF FaceTypeOK, Faces
<1>2. CASE UNCHANGED face
  BY <1>1, <1>2 DEF ScoreTellsVerdict
<1>3. CASE AwsCompareFaces
  <2>1. PICK answer \in AwsAnswers : face' = [face EXCEPT !.one_to_one = answer]
    BY <1>3 DEF AwsCompareFaces
  <2>2. answer \in FaceResponse /\ (answer.match_score >= 900 <=> answer.matched)
    <3>1. CASE answer = [matched |-> FALSE, match_score |-> 0, cosine_similarity |-> 0]
      BY <3>1 DEF FaceResponse
    <3>2. CASE \E sim \in Similarities :
                 /\ sim >= 900
                 /\ answer = [matched |-> TRUE, match_score |-> sim, cosine_similarity |-> sim]
      <4>1. PICK sim \in Similarities :
              /\ sim >= 900
              /\ answer = [matched |-> TRUE, match_score |-> sim, cosine_similarity |-> sim]
        BY <3>2
      <4>2. sim \in -1000..1000
        BY SimilaritiesAreCosines
      <4>3. QED
        BY <4>1, <4>2 DEF FaceResponse
    <3>3. QED
      BY <3>1, <3>2 DEF AwsAnswers
  <2>3. QED
    BY <1>1, <2>1, <2>2, AnswerKept
<1>4. CASE ExtractionFails
  <2> DEFINE answer == [matched |-> FALSE, match_score |-> 0, cosine_similarity |-> 0]
  <2>1. face' = [face EXCEPT !.one_to_one = answer]
    BY <1>4 DEF ExtractionFails
  <2>2. answer \in FaceResponse /\ (answer.match_score >= 900 <=> answer.matched)
    BY DEF FaceResponse
  <2> HIDE DEF answer
  <2>3. QED
    BY <1>1, <2>1, <2>2, AnswerKept
<1>5. CASE CompareFaces
  <2>1. PICK sim \in Similarities :
          \E matched \in Verdicts(sim, EffectiveThreshold) :
            face' = [face EXCEPT !.one_to_one =
                       [matched |-> matched,
                        match_score |-> Calibrated(matched, sim, EffectiveThreshold),
                        cosine_similarity |-> sim]]
    BY <1>5 DEF CompareFaces
  <2>2. PICK matched \in Verdicts(sim, EffectiveThreshold) :
          face' = [face EXCEPT !.one_to_one =
                     [matched |-> matched,
                      match_score |-> Calibrated(matched, sim, EffectiveThreshold),
                      cosine_similarity |-> sim]]
    BY <2>1
  <2>3. EffectiveThreshold \in Thresholds
    BY DEF EffectiveThreshold, Thresholds
  <2>4. sim \in Cosines
    BY SimilaritiesAreCosines DEF Cosines
  <2>5. matched \in BOOLEAN
    <3>1. CASE matched = (sim >= EffectiveThreshold)
      BY <3>1
    <3>2. CASE matched \in Vote(sim >= EffectiveThreshold)
      <4>1. PICK cast \in [yes : 0..3, all : 0..3] :
              matched = (2 * (cast.yes + (IF sim >= EffectiveThreshold THEN 1 ELSE 0))
                           > cast.all + 1)
        BY <3>2 DEF Vote
      <4>2. QED
        BY <4>1
    <3>3. QED
      BY <3>1, <3>2 DEF Verdicts
  <2> DEFINE score == Calibrated(matched, sim, EffectiveThreshold)
             answer == [matched |-> matched, match_score |-> score, cosine_similarity |-> sim]
  <2>6. score \in 0..1000 /\ (score >= 900 <=> matched)
    <3>1. CASE matched = TRUE
      <4>1. score \in MatchScores
        BY <2>3, <2>4, <3>1, CalibratedTellsVerdict, Zenon
      <4> HIDE DEF score
      <4>2. QED
        BY <3>1, <4>1 DEF MatchScores
    <3>2. CASE matched = FALSE
      <4>1. score \in MismatchScores
        BY <2>3, <2>4, <3>2, CalibratedTellsVerdict, Zenon
      <4> HIDE DEF score
      <4>2. QED
        BY <3>2, <4>1 DEF MismatchScores
    <3>3. QED
      BY <2>5, <3>1, <3>2
  <2>7. answer \in FaceResponse /\ (answer.match_score >= 900 <=> answer.matched)
    <3> HIDE DEF score
    <3> QED
      BY <2>4, <2>5, <2>6 DEF FaceResponse, Cosines
  <2>8. face' = [face EXCEPT !.one_to_one = answer]
    BY <2>2
  <2> HIDE DEF answer
  <2>9. QED
    BY <1>1, <2>7, <2>8, AnswerKept
<1>6. CASE \E d \in Documents : Dedup(d)
  <2>1. PICK d \in Documents : Dedup(d)
    BY <1>6
  <2>2. PICK r \in SearchDuplicates(d) : face' = [face EXCEPT !.dedup = r]
    BY <2>1 DEF Dedup
  <2>3. r \in DedupResponse
    <3>1. \A e \in embeddings : e[2] \in Clusters
      BY DEF FaceTypeOK
    <3>2. CASE r = [has_duplicates |-> FALSE, person_cluster_id |-> FreshCluster]
      BY <3>2 DEF DedupResponse
    <3>3. CASE \E e \in embeddings : r = [has_duplicates |-> TRUE, person_cluster_id |-> e[2]]
      BY <3>1, <3>3 DEF DedupResponse
    <3>4. QED
      BY <3>2, <3>3 DEF SearchDuplicates
  <2>4. face' = [one_to_one |-> face.one_to_one, dedup |-> r]
    BY <1>1, <2>2 DEF Faces
  <2>5. face' \in Faces
    BY <1>1, <2>3, <2>4 DEF Faces
  <2>6. face'.one_to_one = face.one_to_one
    BY <2>4
  <2>7. QED
    BY <2>5, <2>6 DEF ScoreTellsVerdict
<1>7. QED
  BY <1>2, <1>3, <1>4, <1>5, <1>6
  DEF FaceStep, ThreadStartsLoad, ThreadEndsLoad, EmbedDocument, EmbedLive, RegisterEmbedding

(***************************************************************************)
(* The types of the face service's other variables.                        *)
(***************************************************************************)
ModelTypeOK ==
  /\ insightface \in {"not_attempted", "loading", "loaded", "failed"}
  /\ embeddings \subseteq (Documents \X Clusters)
  /\ phase \in {"idle", "document", "live", "compare", "dedup"}
  /\ visible \in [Photo -> BOOLEAN]
  /\ embedded \in [Photo -> Model \cup {None}]
  /\ raced \in BOOLEAN

(***************************************************************************)
(* An extraction yields an embedding of the model it used.                 *)
(***************************************************************************)
LEMMA EmbeddingsAreOfModels ==
  ASSUME NEW app, NEW found, NEW m \in ExtractFaceEmbedding(app, found)
  PROVE  /\ m \in Model
         /\ m = "arcface" => app = "loaded"
         /\ (app = "loaded" /\ found) => m = "arcface"
BY DEF ExtractFaceEmbedding, Model

(***************************************************************************)
(* The document's face is looked for before any embedding, so that the two *)
(* embeddings are made with the same model present or absent.              *)
(***************************************************************************)
LEMMA ModelsKept ==
  ASSUME ModelTypeOK, ModelsAgree, OneModelUnlessLoading, FaceStep
  PROVE  ModelTypeOK' /\ ModelsAgree' /\ OneModelUnlessLoading'
<1>1. CASE ThreadStartsLoad
  BY <1>1 DEF ThreadStartsLoad, ModelTypeOK, ModelsAgree, OneModelUnlessLoading
<1>2. CASE ThreadEndsLoad
  <2>1. ~raced
    BY <1>2 DEF ThreadEndsLoad, ModelsAgree
  <2>2. CASE phase = "live"
    <3>1. raced' = TRUE /\ phase' = "live"
      BY <1>2, <2>2 DEF ThreadEndsLoad
    <3>2. QED
      BY <1>2, <3>1 DEF ThreadEndsLoad, ModelTypeOK, ModelsAgree, OneModelUnlessLoading
  <2>3. CASE phase # "live"
    <3>1. raced' = FALSE /\ phase' # "live"
      BY <1>2, <2>3 DEF ThreadEndsLoad
    <3>2. QED
      BY <1>2, <2>1, <3>1 DEF ThreadEndsLoad, ModelTypeOK, ModelsAgree, OneModelUnlessLoading
  <2>4. QED
    BY <2>2, <2>3
<1>3. CASE AwsCompareFaces
  BY <1>3 DEF AwsCompareFaces, ExtractFaceCropBytes, GetInsightfaceApp, ModelTypeOK, ModelsAgree,
              OneModelUnlessLoading
<1>4. CASE ExtractionFails \/ CompareFaces
  <2>1. /\ phase' = "dedup"
        /\ embedded' = [p \in Photo |-> None]
        /\ visible' = [p \in Photo |-> FALSE]
        /\ raced' = FALSE
        /\ UNCHANGED <<insightface, embeddings>>
    BY <1>4 DEF ExtractionFails, CompareFaces
  <2>2. QED
    BY <2>1 DEF ModelTypeOK, ModelsAgree, OneModelUnlessLoading
<1>5. CASE EmbedDocument
  <2>1. PICK m \in ExtractFaceEmbedding(insightface', visible'["doc"]) :
          embedded' = [embedded EXCEPT !["doc"] = m]
    BY <1>5 DEF EmbedDocument
  <2>2. /\ m \in Model
        /\ m = "arcface" => insightface' = "loaded"
        /\ (insightface' = "loaded" /\ visible'["doc"]) => m = "arcface"
    BY EmbeddingsAreOfModels
  <2>3. embedded'["doc"] = m /\ embedded' \in [Photo -> Model \cup {None}]
    BY <2>1, <2>2 DEF Photo, ModelTypeOK
  <2>4. insightface' \in {"loading", "loaded", "failed"}
    BY <1>5 DEF EmbedDocument, ExtractFaceCropBytes, GetInsightfaceApp, ModelTypeOK
  <2>5. ModelTypeOK'
    BY <1>5, <2>3, <2>4 DEF EmbedDocument, ModelTypeOK
  <2>6. phase' = "live" /\ raced' = FALSE
    BY <1>5 DEF EmbedDocument
  <2>7. QED
    BY <2>2, <2>3, <2>4, <2>5, <2>6 DEF ModelsAgree, OneModelUnlessLoading
<1>6. CASE EmbedLive
  <2>1. PICK m \in ExtractFaceEmbedding(insightface', visible["live"]) :
          embedded' = [embedded EXCEPT !["live"] = m]
    BY <1>6 DEF EmbedLive
  <2>2. /\ m \in Model
        /\ m = "arcface" => insightface' = "loaded"
        /\ (insightface' = "loaded" /\ visible["live"]) => m = "arcface"
    BY EmbeddingsAreOfModels
  <2>3. /\ embedded'["live"] = m /\ embedded'["doc"] = embedded["doc"]
        /\ embedded' \in [Photo -> Model \cup {None}]
    BY <2>1, <2>2 DEF Photo, ModelTypeOK
  <2>4. insightface # "not_attempted" /\ phase = "live"
    BY <1>6 DEF EmbedLive, ModelsAgree
  <2>5. insightface' = insightface
    BY <1>6, <2>4 DEF EmbedLive, GetInsightfaceApp
  <2>6. phase' = "compare" /\ raced' = raced /\ visible' = visible
    BY <1>6 DEF EmbedLive
  <2>7. ModelTypeOK'
    BY <1>6, <2>3, <2>5 DEF EmbedLive, ModelTypeOK
  <2>8. QED
    BY <2>2, <2>3, <2>4, <2>5, <2>6, <2>7 DEF ModelsAgree, OneModelUnlessLoading
<1>7. CASE \E d \in Documents : Dedup(d)
  BY <1>7 DEF Dedup, ModelTypeOK, ModelsAgree, OneModelUnlessLoading
<1>8. CASE \E d \in Documents, c \in Clusters : RegisterEmbedding(d, c)
  BY <1>8 DEF RegisterEmbedding, ModelTypeOK, ModelsAgree, OneModelUnlessLoading
<1>9. QED
  BY <1>1, <1>2, <1>3, <1>4, <1>5, <1>6, <1>7, <1>8 DEF FaceStep

(***************************************************************************)
(* Every step of the face service keeps its invariant.                     *)
(***************************************************************************)
LEMMA FaceStepKeeps ==
  ASSUME FaceInv, FaceStep
  PROVE  FaceInv'
<1>1. ModelTypeOK /\ face \in Faces
  BY DEF FaceInv, FaceTypeOK, ModelTypeOK, Faces
<1>2. ModelTypeOK' /\ ModelsAgree' /\ OneModelUnlessLoading'
  BY <1>1, ModelsKept DEF FaceInv
<1>3. face' \in Faces /\ ScoreTellsVerdict'
  BY VerdictKept DEF FaceInv
<1>4. FaceTypeOK'
  BY <1>2, <1>3 DEF FaceTypeOK, ModelTypeOK, Faces
<1>5. QED
  BY <1>2, <1>3, <1>4 DEF FaceInv

-----------------------------------------------------------------------------
Clustered ==
  /\ registry \in [Clusters -> Seq(Scans)]
  /\ \A c \in Clusters : Len(registry[c]) <= MaxScans

(***************************************************************************)
(* The state of a run: nothing is known before the node that finds it out. *)
(***************************************************************************)
RunTypeOK ==
  /\ node \in {"idle", "face_verification", "cross_checkpoint", "risk_engine", "reply"}
  /\ current \in CurrentScans
  /\ degraded_modules \subseteq DegradedModule
  /\ offender \in BOOLEAN
  /\ cross_checkpoint # None => AnswerOfAnalysis(cross_checkpoint)

InOrder ==
  /\ node \in {"idle", "face_verification", "cross_checkpoint"} =>
       cross_checkpoint = None /\ offender = FALSE
  /\ node # "reply" => assessed = None

(***************************************************************************)
(* A severe prior is in the analysis, or the analysis is known to be       *)
(* missing.                                                                *)
(***************************************************************************)
OffenceIsKept ==
  offender => \/ cross_checkpoint # None /\ cross_checkpoint.repeat_offender_hit
              \/ "CrossCheckpoint" \in degraded_modules

(***************************************************************************)
(* The assessment was made of what the run found out.                      *)
(***************************************************************************)
AssessmentOfRun ==
  assessed # None =>
    /\ assessed.request \in RiskScoreRequest
    /\ assessed.request.face = FaceSub
    /\ assessed.request.cross_checkpoint =
         IF cross_checkpoint = None THEN NoHistory ELSE cross_checkpoint
    /\ assessed.request.degraded_modules = degraded_modules
    /\ assessed.response \in build_risk_response(assessed.request)

RunInv == Clustered /\ RunTypeOK /\ InOrder /\ OffenceIsKept /\ AssessmentOfRun

IInv == FaceInv /\ RunInv

-----------------------------------------------------------------------------
(***************************************************************************)
(* The request risk_engine_node builds is one of schemas/risk.py.          *)
(***************************************************************************)
LEMMA RequestType ==
  ASSUME face \in Faces, RunTypeOK,
         NEW validation \in ValidationResults, NEW blacklist \in BlacklistResults,
         NEW tampering \in TamperingSubScore
  PROVE  Request(validation, tampering, blacklist) \in RiskScoreRequest
<1>1. FaceSub \in FaceSubScore
  <2> DEFINE c == IF face.one_to_one = None THEN None ELSE face.one_to_one.cosine_similarity
             m == IF face.one_to_one = None THEN None ELSE face.one_to_one.matched
             d == IF face.dedup = None THEN FALSE ELSE face.dedup.has_duplicates
  <2>1. c \in (-1000..1000) \cup {None}
    BY DEF Faces, FaceResponse
  <2>2. m \in BOOLEAN \cup {None}
    <3>1. \A r \in FaceResponse : r.matched \in BOOLEAN
      BY DEF FaceResponse
    <3>2. face.one_to_one \in FaceResponse \cup {None}
      BY DEF Faces
    <3>3. QED
      BY <3>1, <3>2, Zenon
  <2>3. d \in BOOLEAN
    BY DEF Faces, DedupResponse
  <2>4. FaceSub = [cosine_similarity |-> c, matched |-> m, has_duplicates |-> d]
    BY DEF FaceSub
  <2> HIDE DEF c, m, d
  <2>5. QED
    BY <2>1, <2>2, <2>3, <2>4 DEF FaceSubScore
<1>2. (IF cross_checkpoint = None THEN NoHistory ELSE cross_checkpoint) \in CrossCheckpointSubScore
  <2>1. NoHistory \in CrossCheckpointSubScore
    BY DEF NoHistory, CrossCheckpointSubScore
  <2>2. QED
    BY <2>1 DEF RunTypeOK, AnswerOfAnalysis
<1>3. degraded_modules \in SUBSET DegradedModule
  BY DEF RunTypeOK
<1>4. validation \in ValidationSubScore /\ blacklist \in BlacklistSubScore
  BY InputsAreTyped
<1>5. QED
  BY <1>1, <1>2, <1>3, <1>4 DEF Request, RiskScoreRequest

(***************************************************************************)
(* The invariant holds when the services start.                            *)
(***************************************************************************)
LEMMA InitInv == Init => IInv
<1> SUFFICES ASSUME Init PROVE IInv
  OBVIOUS
<1>1. FaceInv
  BY DEF Init, FaceInit, FaceInv, FaceTypeOK, ModelsAgree, OneModelUnlessLoading,
         ScoreTellsVerdict, NoFace
<1>2. Clustered
  BY MaxScansAssumption DEF Init, Clustered
<1>3. RunTypeOK /\ InOrder /\ OffenceIsKept /\ AssessmentOfRun
  BY DEF Init, RunTypeOK, InOrder, OffenceIsKept, AssessmentOfRun
<1>4. QED
  BY <1>1, <1>2, <1>3 DEF IInv, RunInv

(***************************************************************************)
(* Every step keeps the invariant.                                         *)
(***************************************************************************)
LEMMA NextInv == IInv /\ [Next]_vars => IInv'
<1> SUFFICES ASSUME IInv, [Next]_vars PROVE IInv'
  OBVIOUS
<1>0. FaceInv /\ Clustered /\ RunTypeOK /\ InOrder /\ OffenceIsKept /\ AssessmentOfRun
  BY DEF IInv, RunInv
<1>1. face \in Faces
  BY <1>0 DEF FaceInv, FaceTypeOK, Faces
<1>2. ASSUME UNCHANGED faceVars PROVE FaceInv'
  BY <1>0, <1>2 DEF faceVars, FaceInv, FaceTypeOK, ModelsAgree, OneModelUnlessLoading,
                    ScoreTellsVerdict
<1>3. ASSUME UNCHANGED registry PROVE Clustered'
  BY <1>0, <1>3 DEF Clustered
<1>4. CASE StartStage2
  <2>1. FaceInv'
    BY <1>0, <1>4 DEF StartStage2, FaceInv, FaceTypeOK, ModelsAgree, OneModelUnlessLoading,
                      ScoreTellsVerdict
  <2>2. Clustered'
    BY <1>3, <1>4 DEF StartStage2
  <2>3. RunTypeOK' /\ InOrder' /\ OffenceIsKept' /\ AssessmentOfRun'
    BY <1>0, <1>4 DEF StartStage2, RunTypeOK, InOrder, OffenceIsKept, AssessmentOfRun,
                DegradedModule
  <2>4. QED
    BY <2>1, <2>2, <2>3 DEF IInv, RunInv
<1>5. CASE FaceVerificationNode
  <2>1. current.document_id \in Documents
    BY <1>0, InputsAreTyped DEF RunTypeOK, IsClusterDocument
  <2>2. FaceStep
    BY <1>5, <2>1 DEF FaceVerificationNode, FaceStep
  <2>3. FaceInv'
    BY <1>0, <2>2, FaceStepKeeps
  <2>4. /\ UNCHANGED <<registry, current, cross_checkpoint, degraded_modules, offender, assessed>>
        /\ node = "face_verification"
        /\ node' \in {"face_verification", "cross_checkpoint"}
    BY <1>5 DEF FaceVerificationNode
  <2>5. Clustered' /\ RunTypeOK' /\ InOrder' /\ OffenceIsKept' /\ AssessmentOfRun'
    BY <1>0, <1>3, <2>4 DEF RunTypeOK, InOrder, OffenceIsKept, AssessmentOfRun
  <2>6. QED
    BY <2>3, <2>5 DEF IInv, RunInv
<1>6. CASE FaceVerificationRaises
  <2>1. FaceInv'
    <3>1. phase' = "idle" /\ face' = NoFace /\ UNCHANGED <<insightface, embeddings>>
      BY <1>6 DEF FaceVerificationRaises
    <3>2. /\ embedded' = [p \in Photo |-> None] /\ visible' = [p \in Photo |-> FALSE]
          /\ raced' = FALSE
      BY <1>6 DEF FaceVerificationRaises
    <3>3. FaceTypeOK'
      BY <1>0, <3>1, <3>2 DEF FaceInv, FaceTypeOK, NoFace
    <3>4. ModelsAgree' /\ OneModelUnlessLoading' /\ ScoreTellsVerdict'
      BY <3>1, <3>2 DEF ModelsAgree, OneModelUnlessLoading, ScoreTellsVerdict, NoFace
    <3>5. QED
      BY <3>3, <3>4 DEF FaceInv
  <2>2. Clustered'
    BY <1>3, <1>6 DEF FaceVerificationRaises
  <2>3. RunTypeOK' /\ InOrder' /\ OffenceIsKept' /\ AssessmentOfRun'
    BY <1>0, <1>6 DEF FaceVerificationRaises, RunTypeOK, InOrder, OffenceIsKept, AssessmentOfRun,
                DegradedModule
  <2>4. QED
    BY <2>1, <2>2, <2>3 DEF IInv, RunInv
<1>7. CASE CrossCheckpointNode
  <2> DEFINE documents == DocumentsOf(face.dedup.person_cluster_id)
             answers == AnalyzeCluster(documents, current)
             prior == PriorOffences(documents, current.document_id) # {}
  <2>1. FaceInv' /\ Clustered'
    BY <1>2, <1>3, <1>7 DEF CrossCheckpointNode
  <2>2. documents \in Seq(Scans)
    BY <1>0, EmptySeq DEF DocumentsOf, Clustered
  <2>3. current.uploaded_at = None
    BY <1>0, InputsAreTyped DEF RunTypeOK
  <2> HIDE DEF documents
  <2>4. \A answer \in answers : AnswerOfAnalysis(answer) /\ (prior => answer.repeat_offender_hit)
    BY <2>2, <2>3, AnalysisAnswers
  <2> HIDE DEF answers, prior
  <2>5. /\ node = "cross_checkpoint" /\ node' = "risk_engine"
        /\ UNCHANGED <<current, assessed>>
    BY <1>7 DEF CrossCheckpointNode
  <2>6. CASE face.dedup = None
    <3>1. UNCHANGED <<cross_checkpoint, degraded_modules, offender>>
      BY <1>7, <2>6 DEF CrossCheckpointNode
    <3>2. RunTypeOK' /\ InOrder' /\ OffenceIsKept' /\ AssessmentOfRun'
      BY <1>0, <2>5, <3>1 DEF RunTypeOK, InOrder, OffenceIsKept, AssessmentOfRun
    <3>3. QED
      BY <2>1, <3>2 DEF IInv, RunInv
  <2>7. CASE face.dedup # None /\ answers = {}
    <3>1. /\ offender' = prior
          /\ degraded_modules' = degraded_modules \cup {"CrossCheckpoint"}
          /\ UNCHANGED cross_checkpoint
      BY <1>7, <2>7 DEF CrossCheckpointNode, answers, documents, prior
    <3>2. offender' \in BOOLEAN
      BY <3>1 DEF prior
    <3>3. RunTypeOK' /\ InOrder' /\ OffenceIsKept' /\ AssessmentOfRun'
      BY <1>0, <2>5, <3>1, <3>2 DEF RunTypeOK, InOrder, OffenceIsKept, AssessmentOfRun,
                DegradedModule
    <3>4. QED
      BY <2>1, <3>3 DEF IInv, RunInv
  <2>8. CASE face.dedup # None /\ answers # {}
    <3>1. /\ offender' = prior /\ cross_checkpoint' \in answers
          /\ UNCHANGED degraded_modules
      BY <1>7, <2>8 DEF CrossCheckpointNode, answers, documents, prior
    <3>2. offender' \in BOOLEAN
      BY <3>1 DEF prior
    <3>3. /\ AnswerOfAnalysis(cross_checkpoint')
          /\ offender' => cross_checkpoint'.repeat_offender_hit
      BY <2>4, <3>1
    <3>4. cross_checkpoint' # None
      BY <3>3, NoneIsNoAnswer DEF AnswerOfAnalysis
    <3>5. RunTypeOK' /\ InOrder' /\ OffenceIsKept' /\ AssessmentOfRun'
      <4>1. RunTypeOK'
        BY <1>0, <2>5, <3>1, <3>2, <3>3 DEF RunTypeOK
      <4>2. InOrder' /\ AssessmentOfRun'
        BY <1>0, <2>5 DEF InOrder, AssessmentOfRun
      <4>3. OffenceIsKept'
        BY <3>3, <3>4 DEF OffenceIsKept
      <4>4. QED
        BY <4>1, <4>2, <4>3
    <3>6. QED
      BY <2>1, <3>5 DEF IInv, RunInv
  <2>9. QED
    BY <2>6, <2>7, <2>8
<1>8. CASE RiskEngineNode
  <2>1. FaceInv' /\ Clustered'
    BY <1>2, <1>3, <1>8 DEF RiskEngineNode
  <2>2. /\ UNCHANGED <<current, cross_checkpoint, degraded_modules, offender, face>>
        /\ node' = "reply"
    BY <1>8 DEF RiskEngineNode, faceVars
  <2>3. PICK validation \in ValidationResults, blacklist \in BlacklistResults,
             tampering \in (UNION {call_tampering_service(image) : image \in Images})
                            \cup (IF "degraded" \in degraded_modules THEN {NoTampering} ELSE {}) :
               \E response \in build_risk_response(Request(validation, tampering, blacklist)) :
                 assessed' = [request |-> Request(validation, tampering, blacklist),
                              response |-> response]
    BY <1>8 DEF RiskEngineNode
  <2>4. tampering \in TamperingSubScore
    <3>1. NoTampering \in TamperingSubScore
      BY DEF NoTampering, TamperingSubScore
    <3>2. \A image \in Images : call_tampering_service(image) \subseteq TamperingSubScore
      BY InputsAreTyped, TamperingInRange
    <3>3. CASE tampering \in UNION {call_tampering_service(image) : image \in Images}
      <4>1. PICK image \in Images : tampering \in call_tampering_service(image)
        BY <3>3, Zenon
      <4>2. QED
        BY <3>2, <4>1
    <3>4. CASE tampering = NoTampering
      BY <3>1, <3>4
    <3>5. \/ tampering \in UNION {call_tampering_service(image) : image \in Images}
          \/ tampering \in IF "degraded" \in degraded_modules THEN {NoTampering} ELSE {}
      BY <2>3, Zenon
    <3>6. QED
      BY <3>3, <3>4, <3>5, Zenon
  <2> DEFINE request == Request(validation, tampering, blacklist)
  <2>5. request \in RiskScoreRequest
    BY <1>0, <1>1, <2>4, RequestType
  <2>6. /\ request.face = FaceSub
        /\ request.cross_checkpoint = IF cross_checkpoint = None THEN NoHistory ELSE cross_checkpoint
        /\ request.degraded_modules = degraded_modules
    BY DEF Request
  <2>7. FaceSub' = FaceSub
    BY <2>2 DEF FaceSub
  <2>8. assessed'.request = request /\ assessed'.response \in build_risk_response(request)
    <3> HIDE DEF request
    <3>1. PICK response \in build_risk_response(request) :
            assessed' = [request |-> request, response |-> response]
      BY <2>3 DEF request
    <3>2. QED
      BY <3>1
  <2> HIDE DEF request
  <2>9. AssessmentOfRun'
    BY <2>2, <2>5, <2>6, <2>7, <2>8 DEF AssessmentOfRun
  <2>10. RunTypeOK' /\ InOrder' /\ OffenceIsKept'
    BY <1>0, <2>2 DEF RunTypeOK, InOrder, OffenceIsKept
  <2>11. QED
    BY <2>1, <2>9, <2>10 DEF IInv, RunInv
<1>9. CASE Reply
  <2>1. FaceInv'
    <3>1. /\ face' = NoFace
          /\ UNCHANGED <<insightface, embeddings, phase, visible, embedded, raced>>
      BY <1>9 DEF Reply
    <3>2. FaceTypeOK'
      BY <1>0, <3>1 DEF FaceInv, FaceTypeOK, NoFace
    <3>3. ModelsAgree' /\ OneModelUnlessLoading'
      BY <1>0, <3>1 DEF FaceInv, ModelsAgree, OneModelUnlessLoading
    <3>4. ScoreTellsVerdict'
      BY <3>1 DEF ScoreTellsVerdict, NoFace
    <3>5. QED
      BY <3>2, <3>3, <3>4 DEF FaceInv
  <2>2. Clustered' /\ RunTypeOK' /\ InOrder' /\ OffenceIsKept' /\ AssessmentOfRun'
    BY <1>0, <1>3, <1>9 DEF Reply, RunTypeOK, InOrder, OffenceIsKept, AssessmentOfRun
  <2>3. QED
    BY <2>1, <2>2 DEF IInv, RunInv
<1>10. CASE Seed
  <2>1. FaceInv'
    BY <1>2, <1>10 DEF Seed
  <2>2. PICK c \in Clusters, d \in Scans : SeedClusterDocument(c, d)
    BY <1>10 DEF Seed
  <2>3. Register(registry[c], d) \in Seq(Scans)
    BY <1>0, RegisterType DEF Clustered
  <2>4. Clustered'
    BY <1>0, <2>2, <2>3 DEF Clustered, SeedClusterDocument
  <2>5. RunTypeOK' /\ InOrder' /\ OffenceIsKept'
    BY <1>0, <1>10 DEF Seed, run, RunTypeOK, InOrder, OffenceIsKept
  <2>6. AssessmentOfRun'
    BY <1>0, <1>10 DEF Seed, run, faceVars, AssessmentOfRun, FaceSub
  <2>7. QED
    BY <2>1, <2>4, <2>5, <2>6 DEF IInv, RunInv
<1>11. CASE RegisterFace
  <2>1. FaceStep
    BY <1>11 DEF RegisterFace, FaceStep
  <2>2. UNCHANGED <<registry, run, face>>
    BY <1>11 DEF RegisterFace, RegisterEmbedding
  <2>3. FaceInv' /\ Clustered'
    BY <1>0, <1>3, <2>1, <2>2, FaceStepKeeps
  <2>4. RunTypeOK' /\ InOrder' /\ OffenceIsKept'
    BY <1>0, <2>2 DEF run, RunTypeOK, InOrder, OffenceIsKept
  <2>5. AssessmentOfRun'
    BY <1>0, <2>2 DEF run, AssessmentOfRun, FaceSub
  <2>6. QED
    BY <2>3, <2>4, <2>5 DEF IInv, RunInv
<1>12. CASE TamperingThread
  <2>1. FaceStep
    BY <1>12 DEF TamperingThread, FaceStep
  <2>2. UNCHANGED <<registry, run, face>>
    BY <1>12 DEF TamperingThread, ThreadStartsLoad, ThreadEndsLoad
  <2>3. FaceInv' /\ Clustered'
    BY <1>0, <1>3, <2>1, <2>2, FaceStepKeeps
  <2>4. RunTypeOK' /\ InOrder' /\ OffenceIsKept'
    BY <1>0, <2>2 DEF run, RunTypeOK, InOrder, OffenceIsKept
  <2>5. AssessmentOfRun'
    BY <1>0, <2>2 DEF run, AssessmentOfRun, FaceSub
  <2>6. QED
    BY <2>3, <2>4, <2>5 DEF IInv, RunInv
<1>13. CASE UNCHANGED vars
  <2>1. FaceInv' /\ Clustered'
    BY <1>2, <1>3, <1>13 DEF vars
  <2>2. RunTypeOK' /\ InOrder' /\ OffenceIsKept'
    BY <1>0, <1>13 DEF vars, run, RunTypeOK, InOrder, OffenceIsKept
  <2>3. AssessmentOfRun'
    BY <1>0, <1>13 DEF vars, run, faceVars, AssessmentOfRun, FaceSub
  <2>4. QED
    BY <2>1, <2>2, <2>3 DEF IInv, RunInv
<1>14. QED
  BY <1>4, <1>5, <1>6, <1>7, <1>8, <1>9, <1>10, <1>11, <1>12, <1>13 DEF Next

-----------------------------------------------------------------------------
(***************************************************************************)
(* The invariant holds in every state.                                     *)
(***************************************************************************)
THEOREM AssessmentInvariance == Spec => []IInv
<1>1. Init => IInv
  BY InitInv
<1>2. IInv /\ [Next]_vars => IInv'
  BY NextInv
<1>3. QED
  BY <1>1, <1>2, PTL DEF Spec

(***************************************************************************)
(* What an answer of the risk engine tells, of its request alone.          *)
(***************************************************************************)
LEMMA AnswerOfEngine ==
  ASSUME NEW request \in RiskScoreRequest, NEW response \in build_risk_response(request)
  PROVE  /\ response.reasons = generate_reasons(request)
         /\ response.reasons # {}
         /\ \E r \in compute_risk_score(request) :
              response.score = r.score /\ response.band = r.band
         /\ response.score \in 0..1000 /\ response.band \in Bands
<1>1. PICK r \in compute_risk_score(request) :
        response = [score |-> r.score,
                    band |-> r.band,
                    reasons |-> generate_reasons(request),
                    repeat_offender_escalated |-> r.band # classify_band(r.score),
                    degraded |-> request.degraded_modules # {}]
  BY Zenon DEF build_risk_response
<1>2. /\ response.reasons = generate_reasons(request)
      /\ response.score = r.score /\ response.band = r.band
  BY <1>1
<1>3. r.score \in 0..1000 /\ r.band \in Bands
  BY <1>1, ScoreInRange
<1>4. generate_reasons(request) # {}
  BY DEF generate_reasons
<1>5. QED
  BY <1>1, <1>2, <1>3, <1>4

(***************************************************************************)
(* Variables keep their types.                                             *)
(***************************************************************************)
THEOREM AssessmentTypeOK == Spec => []TypeOK
<1>1. IInv => TypeOK
  <2> SUFFICES ASSUME IInv PROVE TypeOK
    OBVIOUS
  <2>1. /\ FaceTypeOK /\ Clustered /\ RunTypeOK /\ InOrder /\ AssessmentOfRun
    BY DEF IInv, RunInv, FaceInv
  <2>2. cross_checkpoint \in CrossCheckpointSubScore \cup {None}
    BY <2>1 DEF RunTypeOK, AnswerOfAnalysis
  <2>3. assessed # None => /\ assessed.response.score \in 0..1000
                           /\ assessed.response.band \in Bands
                           /\ assessed.response.reasons # {}
    BY <2>1, AnswerOfEngine DEF AssessmentOfRun
  <2>4. QED
    BY <2>1, <2>2, <2>3 DEF TypeOK, Clustered, RunTypeOK
<1>2. QED
  BY <1>1, AssessmentInvariance, PTL

(***************************************************************************)
(* A match always scores 0.9 and more, a mismatch always less.             *)
(***************************************************************************)
THEOREM VerdictTold == Spec => []ScoreTellsVerdict
<1>1. IInv => ScoreTellsVerdict
  BY DEF IInv, FaceInv
<1>2. QED
  BY <1>1, AssessmentInvariance, PTL

(***************************************************************************)
(* The two photos of a comparison are embedded by one model, unless a load *)
(* ended between them.                                                     *)
(***************************************************************************)
THEOREM ModelsCompared == Spec => []OneModelUnlessLoading
<1>1. IInv => OneModelUnlessLoading
  BY DEF IInv, FaceInv
<1>2. QED
  BY <1>1, AssessmentInvariance, PTL

(***************************************************************************)
(* A repeat offender is never rated below the same evidence alone.         *)
(***************************************************************************)
THEOREM OffenderNotRatedLower == Spec => []RepeatOffenderNeverRatedLower
<1>1. IInv => RepeatOffenderNeverRatedLower
  <2> SUFFICES ASSUME IInv, assessed # None,
                      assessed.request.cross_checkpoint.repeat_offender_hit,
                      NEW alone \in compute_risk_score(
                            [assessed.request EXCEPT !.cross_checkpoint = NoHistory])
               PROVE  Rank[alone.band] <= Rank[assessed.response.band]
    BY DEF RepeatOffenderNeverRatedLower
  <2>1. /\ assessed.request \in RiskScoreRequest
        /\ assessed.response \in build_risk_response(assessed.request)
    BY DEF IInv, RunInv, AssessmentOfRun
  <2>2. PICK r \in compute_risk_score(assessed.request) : assessed.response.band = r.band
    BY <2>1, AnswerOfEngine
  <2>3. Rank[alone.band] <= Rank[r.band]
    BY <2>1, EscalationMakesUp
  <2>4. QED
    BY <2>2, <2>3
<1>2. QED
  BY <1>1, AssessmentInvariance, PTL

(***************************************************************************)
(* A prior severe offence reaches the officer, or the failure to look does.*)
(***************************************************************************)
THEOREM OffenceTold == Spec => []PriorOffenceIsTold
<1>1. IInv => PriorOffenceIsTold
  <2> SUFFICES ASSUME IInv, assessed # None, offender
               PROVE  \/ /\ Reason("cross_checkpoint", "repeat_offender")
                              \in assessed.response.reasons
                         /\ assessed.response.band # "low"
                      \/ Reason("degraded", "CrossCheckpoint") \in assessed.response.reasons
    BY DEF PriorOffenceIsTold
  <2> DEFINE request == assessed.request
  <2>1. /\ request \in RiskScoreRequest
        /\ request.cross_checkpoint =
             IF cross_checkpoint = None THEN NoHistory ELSE cross_checkpoint
        /\ request.degraded_modules = degraded_modules
        /\ assessed.response \in build_risk_response(request)
        /\ RunTypeOK /\ OffenceIsKept
    BY DEF IInv, RunInv, AssessmentOfRun
  <2> HIDE DEF request
  <2>2. assessed.response.reasons = generate_reasons(request)
    BY <2>1, AnswerOfEngine
  <2>3. CASE "CrossCheckpoint" \in degraded_modules
    <3>1. Reason("degraded", "CrossCheckpoint") \in generate_reasons(request)
      BY <2>1, <2>3 DEF generate_reasons
    <3>2. QED
      BY <2>2, <3>1
  <2>4. CASE cross_checkpoint # None /\ cross_checkpoint.repeat_offender_hit
    <3>1. request.cross_checkpoint.repeat_offender_hit
          /\ "repeat_offender" \in request.cross_checkpoint.flags
      BY <2>1, <2>4 DEF RunTypeOK, AnswerOfAnalysis
    <3>2. Reason("cross_checkpoint", "repeat_offender") \in generate_reasons(request)
      BY <3>1 DEF generate_reasons, CrossCheckpointReasons
    <3>3. PICK r \in compute_risk_score(request) : assessed.response.band = r.band
      BY <2>1, AnswerOfEngine
    <3>4. r.band # "low"
      BY <3>1, <3>3 DEF compute_risk_score, escalate_band_one_tier
    <3>5. QED
      BY <2>2, <3>2, <3>3, <3>4
  <2>5. QED
    BY <2>1, <2>3, <2>4 DEF OffenceIsKept
<1>2. QED
  BY <1>1, AssessmentInvariance, PTL

(***************************************************************************)
(* "No risk signals detected" is said of clean documents only.             *)
(***************************************************************************)
THEOREM SilenceIsClean == Spec => []SilenceMeansClean
<1>1. IInv => SilenceMeansClean
  <2> SUFFICES ASSUME IInv, assessed # None, NoSignal \in assessed.response.reasons
               PROVE  /\ assessed.response.reasons = {NoSignal}
                      /\ assessed.response.score < 150
                      /\ ~assessed.request.tampering.flagged
                      /\ assessed.request.degraded_modules = {}
                      /\ ~offender
                      /\ face.one_to_one # None
    BY DEF SilenceMeansClean
  <2> DEFINE request == assessed.request
  <2>1. /\ request \in RiskScoreRequest
        /\ request.face = FaceSub
        /\ request.cross_checkpoint =
             IF cross_checkpoint = None THEN NoHistory ELSE cross_checkpoint
        /\ request.degraded_modules = degraded_modules
        /\ assessed.response \in build_risk_response(request)
        /\ RunTypeOK /\ OffenceIsKept
    BY DEF IInv, RunInv, AssessmentOfRun
  <2> HIDE DEF request
  <2>2. assessed.response.reasons = generate_reasons(request)
    BY <2>1, AnswerOfEngine
  <2>3. request.cross_checkpoint.flags = {} => request.cross_checkpoint.cross_checkpoint_risk = 0
    BY <2>1 DEF RunTypeOK, AnswerOfAnalysis, NoHistory
  <2>4. NoSignal \in generate_reasons(request)
    BY <2>2
  <2>5. /\ generate_reasons(request) = {NoSignal}
        /\ ~request.tampering.flagged
        /\ request.degraded_modules = {}
        /\ ~request.cross_checkpoint.repeat_offender_hit
        /\ request.face.cosine_similarity # None
        /\ \A r \in compute_risk_score(request) : r.score < 150
    BY <2>1, <2>3, <2>4, AllClearMeansClean
  <2>6. assessed.response.score < 150
    <3>1. PICK r \in compute_risk_score(request) : assessed.response.score = r.score
      BY <2>1, AnswerOfEngine
    <3>2. QED
      BY <2>5, <3>1
  <2>7. ~offender
    BY <2>1, <2>5 DEF OffenceIsKept
  <2>8. face.one_to_one # None
    BY <2>1, <2>5 DEF FaceSub
  <2>9. QED
    BY <2>2, <2>5, <2>6, <2>7, <2>8 DEF request
<1>2. QED
  BY <1>1, AssessmentInvariance, PTL

(***************************************************************************)
(* The comparison of neighbours finds every trip of every cluster.         *)
(***************************************************************************)
THEOREM TripsFound == Spec => []TripsAreFound
<1>1. IInv => TripsAreFound
  <2> SUFFICES ASSUME IInv, NEW c \in Clusters,
                      \A i \in Dated(registry[c]) : /\ registry[c][i].checkpoint_type # None
                                                    /\ registry[c][i].checkpoint_id # None,
                      NEW i \in Dated(registry[c]), NEW j \in Dated(registry[c]),
                      TooFast(registry[c][i], registry[c][j])
               PROVE  ImpossibleTravel(registry[c])
    BY DEF TripsAreFound
  <2>1. registry[c] \in Seq(Scans)
    BY DEF IInv, RunInv, Clustered
  <2>2. \A k \in DOMAIN registry[c] : IsClusterDocument(registry[c][k])
    BY <2>1, ElementOfSeq, InputsAreTyped
  <2>3. Located(registry[c])
    BY <2>1, <2>2 DEF Located, Dated, IsClusterDocument
  <2>4. QED
    BY <2>3, NeighboursFindTrips
<1>2. QED
  BY <1>1, AssessmentInvariance, PTL

(***************************************************************************)
(* What the dossier shows, the next analysis finds.                        *)
(***************************************************************************)
THEOREM NothingHidden == Spec => []NewScanHidesNothing
<1>1. IInv => NewScanHidesNothing
  <2> SUFFICES ASSUME IInv, NEW c \in Clusters, NEW d \in CurrentScans,
                      \A i \in DOMAIN registry[c] : registry[c][i].document_id # d.document_id,
                      NEW found \in AnalyzeCluster(registry[c], d)
               PROVE  \E known \in GetClusterHistory(registry[c]) : known.flags \subseteq found.flags
    BY DEF NewScanHidesNothing
  <2>1. registry[c] \in Seq(Scans)
    BY DEF IInv, RunInv, Clustered
  <2>2. d.uploaded_at = None
    BY InputsAreTyped
  <2>3. QED
    BY <2>1, <2>2, DossierWithinAnalysis
<1>2. QED
  BY <1>1, AssessmentInvariance, PTL
=============================================================================
