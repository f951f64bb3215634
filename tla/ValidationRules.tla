--------------------------- MODULE ValidationRules --------------------------
(***************************************************************************)
(* The rule interpreter of the validation service: rules_engine.py and     *)
(* date_logic.py, which evaluate the rules of a document type and of a     *)
(* country on the fields extracted from a document, and                    *)
(* regional_rules.py, a second interpreter of the country's rules.         *)
(*                                                                         *)
(* A document's fields are a function from field names to values, None     *)
(* when the field is empty.  A value is abstracted to the day it names     *)
(* (days from today, None when it is no date), the patterns it matches     *)
(* once case and blanks are ignored, those it matches as it stands, and    *)
(* the country it names.                                                   *)
(***************************************************************************)
EXTENDS Integers, Sequences, SequencesExt

CONSTANTS
  None,
  RuleNames,
  Patterns,     \* regular expressions
  BadPattern    \* what re.match refuses to compile

ASSUME BadPatternIsNone == BadPattern \notin Patterns

-----------------------------------------------------------------------------
Value(day, fits, exact, country) ==
  [day |-> day, fits |-> fits, exact |-> exact, country |-> country]

RuleType == {"date_check", "regex_format", "cross_field", "cross_document", "checksum", "unknown"}

\* A rule of a YAML file; which of the keys it reads depends on its type.
Rule ==
  [rule_name : RuleNames, rule_type : RuleType, field : STRING,
   condition : [kind : STRING, days : Int], pattern : Patterns \cup {BadPattern},
   ordered : BOOLEAN, reference_field : STRING]

Result(rule, passed) == [rule_name |-> rule.rule_name, passed |-> passed]

-----------------------------------------------------------------------------
(***************************************************************************)
(* _build_field_map: a field is copied to the other names it is known by.  *)
(***************************************************************************)
Copied(map, names, from) ==
  IF from \in DOMAIN map
  THEN [n \in DOMAIN map \cup names |-> IF n \in DOMAIN map THEN map[n] ELSE map[from]]
  ELSE map

Paired(map, a, b) == Copied(Copied(map, {b}, a), {a}, b)

ExpiryKeys == <<"date_of_expiry", "expiry_date", "valid_until">>

CopiedExpiry(map) ==
  LET dated == {i \in DOMAIN ExpiryKeys :
                  ExpiryKeys[i] \in DOMAIN map /\ map[ExpiryKeys[i]] # None}
  IN  IF dated = {} THEN map ELSE Copied(map, ToSet(ExpiryKeys), ExpiryKeys[Min(dated)])

\* One name of a voter's number after the other.
PairedVoterNumbers(map) ==
  LET With(m, name) == Paired(m, name, "voter_id_number")
  IN  With(With(With(With(With(map, "epic_number"), "voter_id"), "epic_no"), "voter_number"),
           "elector_id")

BuildFieldMap(fields) ==
  LET numbered == CopiedExpiry(Paired(fields, "doc_number", "passport_number"))
  IN  Paired(Paired(PairedVoterNumbers(numbered), "aadhaar_number", "id_number"),
             "driving_license_number", "license_number")

Get(map, name) == IF name \in DOMAIN map THEN map[name] ELSE None

-----------------------------------------------------------------------------
(***************************************************************************)
(* Mutant: a date that is not there, or is none, is let pass.              *)
(***************************************************************************)
EvaluateDateConditionLenient(value, condition) ==
  (value # None /\ value.day # None) =>
    \/ condition.kind = "future" /\ value.day > 0
    \/ condition.kind = "past" /\ value.day < 0
    \/ condition.kind = "valid_for" /\ value.day >= condition.days
    \/ condition.kind = "aged" /\ value.day <= -condition.days

(***************************************************************************)
(* evaluate_date_condition: "> today", "< today", "> today + Nd" and       *)
(* "< today - Ny", each with its offset in days; other conditions fail.    *)
(***************************************************************************)
EvaluateDateCondition(value, condition) ==
  /\ value # None
  /\ value.day # None
  /\ \/ condition.kind = "future" /\ value.day > 0
     \/ condition.kind = "past" /\ value.day < 0
     \/ condition.kind = "valid_for" /\ value.day >= condition.days
     \/ condition.kind = "aged" /\ value.day <= -condition.days

(***************************************************************************)
(* evaluate_cross_document_dates.                                          *)
(***************************************************************************)
EvaluateCrossDocumentDates(value, reference) ==
  /\ value # None /\ reference # None
  /\ value.day # None /\ reference.day # None
  /\ value.day <= reference.day

RegexMatch(value, pattern) == pattern \in value.fits

(***************************************************************************)
(* What compiling the pattern raises, a field being there to match.        *)
(***************************************************************************)
Raises(rule, map) ==
  rule.rule_type = "regex_format" /\ rule.pattern = BadPattern /\ Get(map, rule.field) # None

-----------------------------------------------------------------------------
(***************************************************************************)
(* One rule of a document type: a result or, for what cannot be told, no   *)
(* result.  The pipeline passes neither a related document nor the MRZ's   *)
(* checksums, without which a cross_document rule has no result and a      *)
(* checksum rule passes.  (The /validate endpoint, which the pipeline does *)
(* not call, passes what its request has of them.)                         *)
(***************************************************************************)
BaseResult(rule, map) ==
  LET value == Get(map, rule.field) IN
  CASE rule.rule_type = "date_check" ->
         <<Result(rule, EvaluateDateCondition(value, rule.condition))>>
    [] rule.rule_type = "regex_format" ->
         <<Result(rule, value # None /\ RegexMatch(value, rule.pattern))>>
    [] rule.rule_type = "cross_field" /\ rule.ordered ->
         <<Result(rule, EvaluateCrossDocumentDates(value, Get(map, rule.reference_field)))>>
    [] rule.rule_type = "cross_field" /\ ~rule.ordered ->
         IF value = None \/ Get(map, rule.reference_field) = None
         THEN <<Result(rule, FALSE)>> ELSE <<>>
    [] rule.rule_type = "checksum" -> <<Result(rule, TRUE)>>
    [] OTHER -> <<>>

(***************************************************************************)
(* One rule of a country: a missing date is no failure.                    *)
(***************************************************************************)
RegionalResult(rule, map) ==
  LET value == Get(map, rule.field) IN
  CASE rule.rule_type = "date_check" ->
         IF value = None THEN <<>>
         ELSE <<Result(rule, EvaluateDateCondition(value, rule.condition))>>
    [] rule.rule_type = "regex_format" ->
         <<Result(rule, value # None /\ RegexMatch(value, rule.pattern))>>
    [] OTHER -> <<>>

Names(results) == {results[i].rule_name : i \in DOMAIN results}

(***************************************************************************)
(* The value of nationality, country or issuing country, the first that is *)
(* there.                                                                  *)
(***************************************************************************)
Nationality(map) ==
  LET keys == <<"nationality", "country", "issuing_country">>
      known == {i \in DOMAIN keys : Get(map, keys[i]) # None}
  IN  IF known = {} THEN None ELSE Get(map, keys[Min(known)])

-----------------------------------------------------------------------------
(***************************************************************************)
(* The results of the base rules.                                          *)
(***************************************************************************)
BaseResults(rules, map) == FlattenSeq([i \in DOMAIN rules |-> BaseResult(rules[i], map)])

\* What a sequence has at these indices, in its order.
At(s, indices) == FlattenSeq([i \in DOMAIN s |-> IF i \in indices THEN <<s[i]>> ELSE <<>>])

(***************************************************************************)
(* Mutant: a rule of a name the document type has, too, is left to it.     *)
(***************************************************************************)
ToExecuteUnlessNamed(rules, base, results) ==
  At(rules, {k \in DOMAIN rules :
               \A i \in DOMAIN base : base[i].rule_name # rules[k].rule_name})

(***************************************************************************)
(* executed_rule_names: a rule is skipped when a result has its name.      *)
(***************************************************************************)
ToExecute(rules, base, results) ==
  At(rules, {k \in DOMAIN rules : rules[k].rule_name \notin Names(results)})

(***************************************************************************)
(* An exception ends the regional rules and keeps the results so far.      *)
(***************************************************************************)
UntilRaised(rules, map) ==
  LET raising == {i \in DOMAIN rules : Raises(rules[i], map)}
  IN  IF raising = {} THEN rules ELSE SubSeq(rules, 1, Min(raising) - 1)

AddRegional(results, base, rules, map) ==
  LET executed == UntilRaised(ToExecute(rules, base, results), map)
  IN  results \o FlattenSeq([i \in DOMAIN executed |-> RegionalResult(executed[i], map)])

FailedRules(results) == At(results, {i \in DOMAIN results : ~results[i].passed})

(***************************************************************************)
(* ValidationResponse: failed_rules is kept next to rule_results.          *)
(***************************************************************************)
Response(results) ==
  [passed |-> FailedRules(results) = <<>>,
   failed_rules |-> [i \in DOMAIN FailedRules(results) |-> FailedRules(results)[i].rule_name],
   rule_results |-> results]

-----------------------------------------------------------------------------
(***************************************************************************)
(* Mutant: the endpoint skips a missing date as the engine does.           *)
(***************************************************************************)
EndpointResultSkipping(rule, map) ==
  LET value == Get(map, rule.field) IN
  IF rule.rule_type \in {"date_check", "regex_format"} /\ value = None THEN <<>>
  ELSE RegionalResult(rule, map)

(***************************************************************************)
(* apply_regional_rules: a missing field fails, and patterns are matched   *)
(* against the text as it stands.                                          *)
(***************************************************************************)
EndpointResult(rule, map) ==
  LET value == Get(map, rule.field) IN
  CASE rule.rule_type = "date_check" ->
         <<Result(rule, EvaluateDateCondition(value, rule.condition))>>
    [] rule.rule_type = "regex_format" ->
         <<Result(rule, value # None /\ rule.pattern \in value.exact)>>
    [] OTHER -> <<>>

(***************************************************************************)
(* A country without rules is no failure.  What a broken pattern raises    *)
(* leaves the caller without an answer; it counts as a failure here.       *)
(***************************************************************************)
ApplyRegionalRules(rules, fields) ==
  Response(
    IF rules = <<>>
    THEN <<[rule_name |-> "regional_rules_not_configured", passed |-> TRUE]>>
    ELSE FlattenSeq([i \in DOMAIN rules |-> EndpointResult(rules[i], BuildFieldMap(fields))]))
=============================================================================
