-------------------------- MODULE MCRiskAssessment --------------------------
(***************************************************************************)
(* One cluster of up to three sightings, seeded from records that agree or *)
(* differ in name, checkpoint, time and rating; similarities around both   *)
(* thresholds; Stage 1 results from clean to all rules failed.             *)
(***************************************************************************)
EXTENDS RiskAssessment

CONSTANTS c1, d1, d2, d3, air, sea, ann, eve

MCClusters == {c1}
MCDocuments == {d1, d2, d3}
MCSimilarities == {380, 640, 960}
MCRules == {"expired", "mrz_checksum"}
MCIntegrityRules == {"mrz_checksum"}

Sighting(d, place, at, name, score, band) ==
  [document_id |-> d, checkpoint_type |-> place, checkpoint_id |-> place,
   uploaded_at |-> at, name |-> name, document_number |-> None, date_of_birth |-> None,
   nationality |-> None, risk_score |-> score, risk_band |-> band]

At(minute) == [minute |-> minute, aware |-> TRUE]

MCScans ==
  {Sighting(d1, air, At(0), ann, 100, "low"),
   Sighting(d2, sea, At(100), ann, 700, None),
   Sighting(d2, None, At(100), None, None, "high"),
   Sighting(d3, sea, At(250), eve, None, "medium"),
   Sighting(d3, sea, [minute |-> 50, aware |-> FALSE], ann, 850, "critical")}

MCCurrentScans ==
  {Sighting(d3, air, None, ann, None, None), Sighting(d1, sea, None, eve, None, None)}

Scanned(level, redated, software, lines) ==
  [quiet |-> level = 0, magnitude |-> level, spatial |-> level,
   software |-> software, redated |-> redated, profile |-> software # {},
   noise |-> level, noise_ratio |-> level, border |-> level,
   stamps |-> {7},
   lines |-> lines]

TextLine(variance, patched) ==
  [characters |-> 6, stroke_variance |-> variance, other_height |-> FALSE,
   uneven_heights |-> FALSE, patched |-> patched]

Plain == TextLine(0, TRUE)

\* Clean; suspicious everywhere but under every threshold; edited.
MCImages ==
  {Scanned(0, FALSE, {}, <<Plain, TextLine(300, TRUE)>>),
   Scanned(440, TRUE, {}, <<TextLine(430, FALSE), Plain, Plain, Plain>>),
   Scanned(1000, TRUE, {"gimp"}, <<TextLine(600, TRUE), Plain, Plain, Plain>>)}

MCValidationResults ==
  {[total_rules |-> 8, failed_rule_names |-> {}],
   [total_rules |-> 2, failed_rule_names |-> {"expired", "mrz_checksum"}]}

MCBlacklistResults ==
  {[hit |-> FALSE, severity |-> None], [hit |-> TRUE, severity |-> "banned"]}
=============================================================================
