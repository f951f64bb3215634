-------------------------- MODULE ValidationService -------------------------
(***************************************************************************)
(* A pipeline's validation node and the rule files it is answered from.    *)
(* The files are read anew for every document ("hot reload"), the type's  *)
(* file before the country's, and can be edited at any moment.             *)
(***************************************************************************)
EXTENDS ValidationRules, FiniteSets

CONSTANTS
  Unparsable,      \* a file that is no YAML
  BaseFiles,       \* what the file of a document type can hold
  RegionalFiles,   \* what the file of a country can hold, for that type
  Countries,
  Documents        \* fields, whether there is an MRZ, and whether the type is domestic

\* A file is none, or a sequence of rules.
ASSUME FilesAssumption ==
  \A file \in BaseFiles \cup RegionalFiles : file = Unparsable \/ file \in Seq(Rule)

\* No pattern of the rule files loses a match when case and blanks are ignored.
ASSUME DocumentsAssumption ==
  \A doc \in Documents :
    /\ DOMAIN doc = {"fields", "mrz_present", "domestic"}
    /\ \A n \in DOMAIN doc.fields :
         doc.fields[n] # None => doc.fields[n].exact \subseteq doc.fields[n].fits

VARIABLES
  base, regional,               \* the files
  phase,                        \* "idle", "base", "regional" or "done"
  document,                     \* the document that is validated
  base_rules, regional_rules,   \* the rules that were read
  results,                      \* rule_results so far
  response                      \* ValidationResponse

vars == <<base, regional, phase, document, base_rules, regional_rules, results, response>>

-----------------------------------------------------------------------------
(***************************************************************************)
(* load_rules_for_doctype and _load_regional_rules: a file that cannot be  *)
(* parsed has no rules.                                                    *)
(***************************************************************************)
LoadRules(file) == IF file = Unparsable THEN <<>> ELSE file

(***************************************************************************)
(* Indian documents have a nationality even when none was read; a text     *)
(* that names no country stays one.                                        *)
(***************************************************************************)
CountryOf(doc) ==
  LET nationality == Nationality(BuildFieldMap(doc.fields)) IN
  CASE nationality # None -> nationality.country
    [] nationality = None /\ doc.domestic -> "IND"
    [] OTHER -> None

Unreadable ==
  [passed |-> FALSE, failed_rules |-> <<"document_unreadable_no_fields_extracted">>,
   rule_results |-> <<[rule_name |-> "document_unreadable_no_fields_extracted",
                       passed |-> FALSE]>>]

Unavailable ==
  [passed |-> FALSE, failed_rules |-> <<"validation_service_unavailable">>,
   rule_results |-> <<>>]

TypeOK ==
  /\ base \in BaseFiles
  /\ regional \in [Countries -> RegionalFiles]
  /\ phase \in {"idle", "base", "regional", "done"}
  /\ document \in Documents
  /\ Names(results) \subseteq RuleNames
  /\ response # None =>
       /\ response.passed <=> (response.failed_rules = <<>>)
       /\ response.passed => \A i \in DOMAIN response.rule_results :
                               response.rule_results[i].passed
       /\ response # Unavailable =>
            Len(response.failed_rules) <= Len(response.rule_results)

Init ==
  /\ base \in BaseFiles
  /\ regional \in [Countries -> RegionalFiles]
  /\ phase = "idle"
  /\ document \in Documents
  /\ base_rules = <<>>
  /\ regional_rules = <<>>
  /\ results = <<>>
  /\ response = None

-----------------------------------------------------------------------------
EditBaseFile ==
  /\ base' \in BaseFiles
  /\ UNCHANGED <<regional, phase, document, base_rules, regional_rules, results, response>>

EditRegionalFile ==
  /\ \E c \in Countries, file \in RegionalFiles : regional' = [regional EXCEPT ![c] = file]
  /\ UNCHANGED <<base, phase, document, base_rules, regional_rules, results, response>>

(***************************************************************************)
(* validation_rules_node: without a field and an MRZ nothing is evaluated. *)
(***************************************************************************)
ValidationRulesNode ==
  /\ phase = "idle"
  /\ document' \in Documents
  /\ IF DOMAIN document'.fields = {} /\ ~document'.mrz_present
     THEN phase' = "done" /\ response' = Unreadable
     ELSE phase' = "base" /\ UNCHANGED response
  /\ UNCHANGED <<base, regional, base_rules, regional_rules, results>>

(***************************************************************************)
(* validate_document up to the base rules; what it raises the node turns   *)
(* into a failed response.                                                 *)
(***************************************************************************)
EvaluateBaseRules ==
  /\ phase = "base"
  /\ base_rules' = LoadRules(base)
  /\ LET map == BuildFieldMap(document.fields) IN
     IF \E i \in DOMAIN base_rules' : Raises(base_rules'[i], map)
     THEN phase' = "done" /\ response' = Unavailable /\ UNCHANGED results
     ELSE /\ phase' = "regional"
          /\ results' = BaseResults(base_rules', map)
          /\ UNCHANGED response
  /\ UNCHANGED <<base, regional, document, regional_rules>>

(***************************************************************************)
(* Mutant: regional failures are listed, but do not fail the document.     *)
(***************************************************************************)
EvaluateRegionalRulesUncounted ==
  /\ phase = "regional"
  /\ regional_rules' = IF CountryOf(document) \in Countries
                       THEN LoadRules(regional[CountryOf(document)]) ELSE <<>>
  /\ results' = AddRegional(results, base_rules, regional_rules',
                            BuildFieldMap(document.fields))
  /\ response' = [Response(results) EXCEPT !.rule_results = results']
  /\ phase' = "done"
  /\ UNCHANGED <<base, regional, document, base_rules>>

(***************************************************************************)
(* The regional rules and the response.                                    *)
(***************************************************************************)
EvaluateRegionalRules ==
  /\ phase = "regional"
  /\ regional_rules' = IF CountryOf(document) \in Countries
                       THEN LoadRules(regional[CountryOf(document)]) ELSE <<>>
  /\ results' = AddRegional(results, base_rules, regional_rules',
                            BuildFieldMap(document.fields))
  /\ response' = Response(results')
  /\ phase' = "done"
  /\ UNCHANGED <<base, regional, document, base_rules>>

(***************************************************************************)
(* The node returns.                                                       *)
(***************************************************************************)
Reply ==
  /\ phase = "done"
  /\ phase' = "idle"
  /\ base_rules' = <<>>
  /\ regional_rules' = <<>>
  /\ results' = <<>>
  /\ response' = None
  /\ UNCHANGED <<base, regional, document>>

Next ==
  \/ EditBaseFile
  \/ EditRegionalFile
  \/ ValidationRulesNode
  \/ EvaluateBaseRules
  \/ EvaluateRegionalRules
  \/ Reply

Spec == Init /\ [][Next]_vars

-----------------------------------------------------------------------------
Evaluated == phase = "done" /\ response \notin {Unreadable, Unavailable}

(***************************************************************************)
(* Every date, format and checksum rule of the document type that was read *)
(* has a result, and every date and format rule of the country, under      *)
(* whichever name the two share; but for regional rules on a date the      *)
(* document does not have, and what follows a regional rule whose pattern  *)
(* is broken.  (Not meant are the cross_field and cross_document rules of  *)
(* the type, which may find nothing to tell, and the rules of types that   *)
(* an interpreter does not know.)                                          *)
(***************************************************************************)
NoRuleIsLost ==
  Evaluated =>
    LET map == BuildFieldMap(document.fields) IN
    /\ \A i \in DOMAIN base_rules :
         base_rules[i].rule_type \in {"date_check", "regex_format", "checksum"}
           => base_rules[i].rule_name \in Names(response.rule_results)
    /\ (\A i \in DOMAIN regional_rules : ~Raises(regional_rules[i], map)) =>
         \A i \in DOMAIN regional_rules :
           \/ regional_rules[i].rule_type = "regex_format"
           \/ regional_rules[i].rule_type = "date_check" /\ Get(map, regional_rules[i].field) # None
           => regional_rules[i].rule_name \in Names(response.rule_results)

\* The names one field can go by.
Aliases ==
  {{"doc_number", "passport_number"}, {"date_of_expiry", "expiry_date", "valid_until"},
   {"date_of_birth"}, {"nationality"}, {"name"}}

Without(fields, names) == [n \in DOMAIN fields \ names |-> fields[n]]

\* The response of the whole node, for given rules of each country.
Validated(rules, national, doc) ==
  LET map == BuildFieldMap(doc.fields)
      c == CountryOf(doc)
  IN  Response(AddRegional(BaseResults(rules, map), rules,
                           IF c \in Countries THEN LoadRules(national[c]) ELSE <<>>, map))

(***************************************************************************)
(* An illegible field never helps: when a document fails, it also fails    *)
(* without any of its fields, given that its type demands a nationality    *)
(* and the date its country's rules look at.                               *)
(***************************************************************************)
MissingFieldNeverHelps ==
  (Evaluated /\ ~response.passed) =>
    \A names \in Aliases :
      LET demands(field) ==
            \E i \in DOMAIN base_rules :
              base_rules[i].field = field
                /\ base_rules[i].rule_type \in {"date_check", "regex_format"}
          without == [document EXCEPT !.fields = Without(@, names)]
      IN  (\A n \in names \cap ({"nationality"} \cup
                                {regional_rules[i].field : i \in DOMAIN regional_rules}) :
             demands(n))
            => ~Validated(base_rules, [c \in Countries |-> regional_rules], without).passed

(***************************************************************************)
(* The regional endpoint is the stricter interpreter: what it passes has   *)
(* no failed regional rule in the pipeline either.                         *)
(***************************************************************************)
RegionalEndpointIsStricter ==
  (Evaluated /\ ApplyRegionalRules(regional_rules, document.fields).passed) =>
    \A i \in DOMAIN regional_rules :
      (regional_rules[i].rule_name \notin Names(BaseResults(base_rules, BuildFieldMap(document.fields))))
        => regional_rules[i].rule_name \notin
             {response.failed_rules[k] : k \in DOMAIN response.failed_rules}
=============================================================================
