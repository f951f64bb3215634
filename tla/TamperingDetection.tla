------------------------- MODULE TamperingDetection -------------------------
(***************************************************************************)
(* The tampering service: five forensic checks of an image and how their   *)
(* results become one.  The aggregation exists twice, in the service       *)
(* (routers/tampering.py) and in the client's fallback                     *)
(* (call_tampering_service), with weights of their own.                    *)
(*                                                                         *)
(* What is measured in the pixels is the input: a level is a measurement   *)
(* scaled and clipped to 0..1000 as the code does it.                      *)
(***************************************************************************)
EXTENDS Integers, Sequences, FiniteSets, FiniteSetsExt

Check == {"ela", "metadata", "boundary", "stamp_match", "text_analysis"}

Level == 0..1000

\* A line of text: levels of its stroke width, and facts about its characters.
Line ==
  [characters : Nat, stroke_variance : 0..600, other_height : BOOLEAN,
   uneven_heights : BOOLEAN, patched : BOOLEAN]

Image ==
  [quiet : BOOLEAN, magnitude : Level, spatial : Level,
   software : SUBSET {"photoshop", "gimp"}, redated : BOOLEAN, profile : BOOLEAN,
   noise : Level, noise_ratio : Level, border : Level,
   stamps : SUBSET Nat,
   lines : Seq(Line)]

Result(score, flagged) == [score |-> score, flagged |-> flagged]

(***************************************************************************)
(* compute_ela: an image with few differences is capped and never flagged. *)
(***************************************************************************)
compute_ela(image) ==
  IF image.quiet
  THEN Result(Min({250, image.magnitude}), FALSE)
  ELSE LET score == (image.magnitude + image.spatial) \div 2
       IN  Result(score, score >= 450)

(***************************************************************************)
(* analyze_metadata: a Photoshop profile counts unless Photoshop has been  *)
(* counted as editing software.                                            *)
(***************************************************************************)
analyze_metadata(image) ==
  LET score == Min({1000, (IF image.software # {} THEN 700 ELSE 0)
                          + (IF image.redated THEN 250 ELSE 0)
                          + (IF image.profile /\ "photoshop" \notin image.software
                             THEN 600 ELSE 0)})
  IN  Result(score, score >= 500)

(***************************************************************************)
(* analyze_photo_boundaries: how the portrait differs from the page.       *)
(***************************************************************************)
analyze_photo_boundaries(image) ==
  LET score == (4 * image.noise + 3 * image.noise_ratio + 3 * image.border) \div 10
  IN  Result(score, score >= 450)

(***************************************************************************)
(* verify_stamps: a stamp seen before is a copy.  No caller passes the     *)
(* hashes of earlier stamps.                                               *)
(***************************************************************************)
verify_stamps(image, known_stamp_hashes) ==
  IF image.stamps \cap known_stamp_hashes # {} THEN Result(900, TRUE) ELSE Result(0, FALSE)

(***************************************************************************)
(* analyze_text_manipulation: the most anomalous outlier among the lines,  *)
(* unless outliers are so many that the document is just set that way.     *)
(***************************************************************************)
LocalScore(line) ==
  LET shape == line.stroke_variance
               + (IF line.other_height /\ line.characters >= 4 THEN 350 ELSE 0)
               + (IF line.uneven_heights /\ line.characters >= 5 THEN 250 ELSE 0)
  IN  shape + (IF line.patched /\ shape > 150 THEN 200 ELSE 0)

Outliers(lines) ==
  {i \in DOMAIN lines : LocalScore(lines[i]) >= 300 /\ lines[i].characters >= 4}

analyze_text_manipulation(image) ==
  LET outliers == Outliers(image.lines)
      isolated == 10 * Cardinality(outliers) <= 3 * Len(image.lines)
      highest == Max({LocalScore(image.lines[i]) : i \in outliers})
  IN  IF outliers = {} THEN Result(0, FALSE)
      ELSE IF isolated THEN Result(Min({1000, highest}), highest >= 450)
      ELSE Result(Min({300, (3 * highest) \div 10}), FALSE)

(***************************************************************************)
(* The five results of an image.                                           *)
(***************************************************************************)
Results(image) ==
  [ela |-> compute_ela(image),
   metadata |-> analyze_metadata(image),
   boundary |-> analyze_photo_boundaries(image),
   stamp_match |-> verify_stamps(image, {}),
   text_analysis |-> analyze_text_manipulation(image)]

-----------------------------------------------------------------------------
Weighted(w, res) ==
  w.ela * res.ela.score + w.metadata * res.metadata.score + w.boundary * res.boundary.score
    + w.stamp_match * res.stamp_match.score + w.text_analysis * res.text_analysis.score

(***************************************************************************)
(* 0.6 * the highest + 0.4 * the weighted score, in millionths.  Weights   *)
(* are in hundredths.                                                      *)
(***************************************************************************)
Composite(w, res) == 600 * Max({res[c].score : c \in Check}) + 4 * Weighted(w, res)

ServiceWeights ==
  [ela |-> 25, text_analysis |-> 25, metadata |-> 20, boundary |-> 20, stamp_match |-> 10]

FallbackWeights ==
  [ela |-> 30, text_analysis |-> 15, metadata |-> 25, boundary |-> 20, stamp_match |-> 10]

FlaggedChecks(res) == {c \in Check : res[c].flagged}

(***************************************************************************)
(* TamperingResponse, of the service or of the fallback.                   *)
(***************************************************************************)
Response(w, res) ==
  [overall_score  |-> (Composite(w, res) + 500) \div 1000,
   flagged        |-> FlaggedChecks(res) # {} \/ Composite(w, res) >= 450000,
   flagged_checks |-> FlaggedChecks(res)]

detect_tampering(image) == Response(ServiceWeights, Results(image))

call_tampering_service(image) ==
  {detect_tampering(image), Response(FallbackWeights, Results(image))}

(***************************************************************************)
(* tampering_detection_node when the call raises.                          *)
(***************************************************************************)
NoTampering == [overall_score |-> 0, flagged |-> FALSE, flagged_checks |-> {}]
=============================================================================
