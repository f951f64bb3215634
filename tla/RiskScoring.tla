---------------------------- MODULE RiskScoring -----------------------------
(***************************************************************************)
(* The risk engine: core/scoring.py and core/reasons.py, which             *)
(* routers/risk.py and the fallback of the pipeline both call through      *)
(* build_risk_response.                                                    *)
(*                                                                         *)
(* Sub-scores are in thousandths, weights in thousandths, a score in       *)
(* tenths of a point: 810 is 81.0.                                         *)
(***************************************************************************)
EXTENDS ScreeningData, Integers, FiniteSets

CONSTANTS
  RuleNames,        \* the names that validation rules can have
  IntegrityRules    \* those with "checksum" or "mrz" in their name

ASSUME RuleNamesAreFinite == IsFiniteSet(RuleNames)
ASSUME IntegrityRulesAreRules == IntegrityRules \subseteq RuleNames

-----------------------------------------------------------------------------
\* The sub-scores of schemas/risk.py.  A pipeline leaves normalized_score out.
ValidationSubScore == [total_rules : Nat, failed_rule_names : SUBSET RuleNames]

TamperingSubScore ==
  [overall_score : 0..1000, flagged : BOOLEAN,
   flagged_checks : SUBSET {"ela", "metadata", "boundary", "stamp_match", "text_analysis"}]

FaceSubScore ==
  [cosine_similarity : (-1000..1000) \cup {None}, matched : BOOLEAN \cup {None},
   has_duplicates : BOOLEAN]

BlacklistSubScore == [hit : BOOLEAN, severity : {"watch", "suspect", "banned", None}]

\* "degraded" stands for any module that failed in Stage 1.
DegradedModule == {"degraded", "FaceVerification", "CrossCheckpoint"}

RiskScoreRequest ==
  [validation : ValidationSubScore, tampering : TamperingSubScore, face : FaceSubScore,
   blacklist : BlacklistSubScore, cross_checkpoint : CrossCheckpointSubScore,
   degraded_modules : SUBSET DegradedModule]

NoHistory == [cross_checkpoint_risk |-> 0, flags |-> {}, repeat_offender_hit |-> FALSE]

-----------------------------------------------------------------------------
AtMostOne(x) == IF x < 1000 THEN x ELSE 1000

NormalizeValidation(v) ==
  IF v.total_rules = 0
  THEN 0
  ELSE AtMostOne((1000 * Cardinality(v.failed_rule_names)) \div v.total_rules)

NormalizeTampering(t) ==
  IF t.flagged /\ t.overall_score < 300 THEN 300 ELSE t.overall_score

NormalizeFace(f) ==
  AtMostOne((IF f.cosine_similarity = None THEN 500 ELSE (1000 - f.cosine_similarity) \div 2)
            + (IF f.has_duplicates THEN 200 ELSE 0))

NormalizeBlacklist(b) ==
  IF ~b.hit THEN 0
  ELSE CASE b.severity = "suspect" -> 750
         [] b.severity = "watch" -> 500
         [] OTHER -> 1000

-----------------------------------------------------------------------------
Rank == [low |-> 1, medium |-> 2, high |-> 3, critical |-> 4]

classify_band(score) ==
  IF score >= 810 THEN "critical"
  ELSE IF score >= 610 THEN "high"
  ELSE IF score >= 310 THEN "medium"
  ELSE "low"

(***************************************************************************)
(* Mutant: a high band is already high enough.                             *)
(***************************************************************************)
EscalateUpToHigh(band) == IF band = "low" THEN "medium" ELSE "high"

escalate_band_one_tier(band) ==
  IF band = "low" THEN "medium" ELSE IF band = "medium" THEN "high" ELSE "critical"

(***************************************************************************)
(* weighted_sum, in millionths.                                            *)
(***************************************************************************)
WeightedSum(v, t, f, b, cc) ==
  IF cc > 0
  THEN 270 * v + 315 * t + 180 * f + 135 * b + 100 * cc
  ELSE 300 * v + 350 * t + 200 * f + 150 * b

(***************************************************************************)
(* round(n / d) for a float: the nearest integer, either one when n / d    *)
(* lies halfway, where binary fractions decide.                            *)
(***************************************************************************)
Rounded(n, d) == {r \in {n \div d, n \div d + 1} : 2 * (r * d - n) \in -d..d}

(***************************************************************************)
(* compute_risk_score: the possible scores and their bands.                *)
(***************************************************************************)
compute_risk_score(request) ==
  {[score |-> AtMostOne(s),
    band  |-> IF request.cross_checkpoint.repeat_offender_hit
              THEN escalate_band_one_tier(classify_band(AtMostOne(s)))
              ELSE classify_band(AtMostOne(s))] :
     s \in Rounded(WeightedSum(NormalizeValidation(request.validation),
                               NormalizeTampering(request.tampering),
                               NormalizeFace(request.face),
                               NormalizeBlacklist(request.blacklist),
                               request.cross_checkpoint.cross_checkpoint_risk), 1000)}

-----------------------------------------------------------------------------
\* A reason is the module it is about and what it names there.
Reason(module, item) == [module |-> module, item |-> item]

ValidationReasons(v) ==
  {Reason("validation", r) : r \in v.failed_rule_names}
  \cup {Reason("mrz_integrity", r) : r \in v.failed_rule_names \cap IntegrityRules}

(***************************************************************************)
(* Mutant: only a flagged check is a reason.                               *)
(***************************************************************************)
TamperingReasonsOfChecks(t) == {Reason("tampering", c) : c \in t.flagged_checks}

TamperingReasons(t) ==
  {Reason("tampering", c) : c \in t.flagged_checks}
  \cup (IF t.flagged_checks = {} /\ NormalizeTampering(t) >= 300
        THEN {Reason("tampering", "elevated_score")} ELSE {})

(***************************************************************************)
(* The similarity decides, not f.matched.                                  *)
(***************************************************************************)
FaceReasons(f) ==
  (IF f.cosine_similarity = None THEN {Reason("face", "not_performed")}
   ELSE IF f.cosine_similarity < 400 THEN {Reason("face", "failed")}
   ELSE IF f.cosine_similarity < 600 THEN {Reason("face", "low_confidence")}
   ELSE {})
  \cup (IF f.has_duplicates THEN {Reason("face", "duplicate")} ELSE {})

BlacklistReasons(b) == IF b.hit THEN {Reason("blacklist", "hit")} ELSE {}

(***************************************************************************)
(* A flag, its detail, and the alert for a hit without the flag.           *)
(***************************************************************************)
CrossCheckpointReasons(cc) ==
  {Reason("cross_checkpoint", t) : t \in cc.flags}
  \cup (IF cc.repeat_offender_hit /\ "repeat_offender" \notin cc.flags
        THEN {Reason("cross_checkpoint", "repeat_offender")} ELSE {})

NoSignal == Reason("none", "no_risk_signals")

generate_reasons(request) ==
  LET signals == ValidationReasons(request.validation)
                 \cup TamperingReasons(request.tampering)
                 \cup FaceReasons(request.face)
                 \cup BlacklistReasons(request.blacklist)
                 \cup CrossCheckpointReasons(request.cross_checkpoint)
                 \cup {Reason("degraded", m) : m \in request.degraded_modules}
  IN  IF signals = {} THEN {NoSignal} ELSE signals

(***************************************************************************)
(* build_risk_response: what the endpoint and the pipeline's fallback can  *)
(* answer.                                                                 *)
(***************************************************************************)
build_risk_response(request) ==
  {[score |-> r.score,
    band |-> r.band,
    reasons |-> generate_reasons(request),
    repeat_offender_escalated |-> r.band # classify_band(r.score),
    degraded |-> request.degraded_modules # {}] : r \in compute_risk_score(request)}
=============================================================================
