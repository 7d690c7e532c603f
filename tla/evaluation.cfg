SPECIFICATION FairSpec
CONSTANTS
  Client = {c1, c2}
  Replay = {p1}
  Evaluator = {e1, e2}
  DecisionAt <- MCDecisionAt
  OutcomeAt <- MCOutcomeAt
  MaxDeaths = 1
  NoFile = NoFile
  Torn = Torn
INVARIANTS TypeOK ReportIsRight TornNeedsReason RevealedOnce
PROPERTIES ProgressIsKept ReportIsFinal EvaluationSucceeds
