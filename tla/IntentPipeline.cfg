SPECIFICATION Spec
CONSTANT MaxPhrases = 5
CHECK_DEADLOCK FALSE
INVARIANTS
  EffectsAreGated
  ForbiddenRequestsRunNothing
  QuestionsAreAnswered
  ApprovalCoversPlan
  AllowedPlansCanComplete
