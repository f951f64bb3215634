SPECIFICATION Spec
CONSTANTS
  None = None
  RuleNames <- MCRuleNames
  Patterns <- MCPatterns
  BadPattern = "broken"
  Unparsable = Unparsable
  BaseFiles <- MCBaseFiles
  RegionalFiles <- MCRegionalFiles
  Countries = {"IND", "NP"}
  Documents <- MCDocuments
INVARIANTS
  TypeOK
  NoRuleIsLost
  MissingFieldNeverHelps
  RegionalEndpointIsStricter
