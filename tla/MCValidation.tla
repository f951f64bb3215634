---------------------------- MODULE MCValidation ----------------------------
(***************************************************************************)
(* Rule files with every type of rule, a broken pattern, a name both files *)
(* use and a file that does not parse; documents that are complete,        *)
(* expired, badly spelt, foreign, partly illegible and empty; one of India *)
(* has a nationality that names no country.                                *)
(***************************************************************************)
EXTENDS ValidationService

RuleOf(name, type, field) ==
  [rule_name |-> name, rule_type |-> type, field |-> field,
   condition |-> [kind |-> "future", days |-> 0], pattern |-> "number", ordered |-> TRUE,
   reference_field |-> "date_of_birth"]

On(rule, kind, days) == [rule EXCEPT !.condition = [kind |-> kind, days |-> days]]

Matching(rule, pattern) == [rule EXCEPT !.pattern = pattern]

MCPatterns == {"number", "letters"}
MCRuleNames ==
  {"expiry_not_passed", "validity_window_sufficient", "number_format", "nationality_code_format",
   "dob_plausibility", "entry_within_passport", "mrz_checksum", "issued_after_birth",
   "country_number_format", "country_dob_in_past", "country_name_format", "unnamed_rule"}

Expiry == RuleOf("expiry_not_passed", "date_check", "date_of_expiry")
Number == RuleOf("number_format", "regex_format", "passport_number")
Code == Matching(RuleOf("nationality_code_format", "regex_format", "nationality"), "letters")
Birth == On(RuleOf("dob_plausibility", "date_check", "date_of_birth"), "past", 0)

MCBaseFiles ==
  {<<Expiry, Number, Code, Birth>>,
   <<On(RuleOf("validity_window_sufficient", "date_check", "expiry_date"), "valid_for", 180), Number,
     RuleOf("entry_within_passport", "cross_document", "entry_validity"),
     RuleOf("mrz_checksum", "checksum", "")>>,
   <<Code, RuleOf("issued_after_birth", "cross_field", "date_of_expiry"),
     [RuleOf("issued_after_birth", "cross_field", "name") EXCEPT !.ordered = FALSE],
     Matching(Number, "broken"), RuleOf("unnamed_rule", "unknown", "")>>,
   Unparsable}

MCRegionalFiles ==
  {<<>>,
   <<RuleOf("country_number_format", "regex_format", "passport_number"),
     On(RuleOf("country_dob_in_past", "date_check", "date_of_birth"), "aged", 6000)>>,
   <<Number, RuleOf("entry_within_passport", "date_check", "date_of_expiry"),
     Matching(RuleOf("country_name_format", "regex_format", "name"), "broken"), Birth>>,
   Unparsable}

Fields(number, expiry, birth, nationality) ==
  [n \in {"passport_number", "expiry_date", "date_of_birth", "nationality"} |->
     CASE n = "passport_number" -> number [] n = "expiry_date" -> expiry
       [] n = "date_of_birth" -> birth [] OTHER -> nationality]

Date(day) == Value(day, {}, {}, None)
Nepal == Value(None, {"letters"}, {"letters"}, "NP")
Typed == Value(None, {"number"}, {"number"}, None)
Spaced == Value(None, {"number"}, {}, None)
Misread == Value(None, {}, {}, None)

Doc(fields, domestic) == [fields |-> fields, mrz_present |-> FALSE, domestic |-> domestic]

MCDocuments ==
  {Doc(Fields(Typed, Date(400), Date(-9000), Nepal), FALSE),
   Doc(Fields(Spaced, Date(100), Date(-5000), Nepal), FALSE),
   Doc(Fields(Misread, Date(-5), None, Nepal), FALSE),
   Doc([n \in {"doc_number", "name"} |-> IF n = "name" THEN Misread ELSE Spaced], TRUE),
   Doc([n \in {"voter_id", "nationality"} |-> IF n = "voter_id" THEN Typed ELSE Misread], TRUE),
   Doc([n \in {} |-> None], FALSE)}
=============================================================================
