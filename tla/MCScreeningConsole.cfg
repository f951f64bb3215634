SPECIFICATION FairSpec
CONSTANTS
  d1 = d1
  d2 = d2
  None = None
  Documents <- MCDocuments
  CountdownFrom = 3
  MaxInFlight = 1
INVARIANTS
  TypeOK
  ConfirmationIsOfOneTraveller
PROPERTIES
  AutoApprovalWasMatched
  AnsweredStartsNothing
  MatchLeadsToDecision
  OfficerRegainsControl
