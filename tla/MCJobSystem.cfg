\* Two deliveries, the second by redelivery or by an operator's retry.
SPECIFICATION FairSpec
CONSTANTS
  MaxAttempt = 2
  Budget = 2
  MaxRetries = 1
  HostOf <- OneHost
  Reconcilers = {r1}
INVARIANTS TypeOK SucceededMeansCompleted FinishedFieldsAgree CompletedHasOutputs LiveAttemptOwnsRow PurgedMeansFinished
PROPERTIES ReconciledNeedsOperator ImplementsTransitions EventuallySettles
CHECK_DEADLOCK FALSE
