CONSTANTS
  NumChecks = 2
  Critical = {1}
  Proves <- MCProves
  CheckRetries = 1
  MaxPolls = 1
  Plans <- MCPlans
  LostReplies = TRUE
SPECIFICATION FairSpec
INVARIANTS NeverExposed VerdictIsEvidence ProofIsEarned LeftoversAreAskedFor
PROPERTIES ImplementsContract DrillEnds
CHECK_DEADLOCK FALSE
