--------------------------- MODULE ScreeningData ----------------------------
(***************************************************************************)
(* What the screening services' requests and responses have in common.     *)
(***************************************************************************)
EXTENDS Integers

CONSTANTS
  Documents,   \* document ids
  Clusters,    \* person clusters: all scans of one face
  None         \* Python's None

\* RiskBand
Bands == {"low", "medium", "high", "critical"}

\* CrossCheckpointFlagType
FlagType ==
  {"name_mismatch", "document_number_mismatch", "dob_mismatch", "nationality_mismatch",
   "impossible_travel", "repeat_offender"}

(***************************************************************************)
(* What the cross-checkpoint service answers and the risk engine is given. *)
(***************************************************************************)
CrossCheckpointSubScore ==
  [cross_checkpoint_risk : 0..1000, flags : SUBSET FlagType, repeat_offender_hit : BOOLEAN]
=============================================================================
