SPECIFICATION Spec
CONSTANTS
  Senders = {sender}
  Interrupters = {interrupter}
  Repliers = {parent, main}
  question = question
  Requests <- OneQuestion
  Target <- EachAnswersIt
  Nobody = Nobody
  MaxCalls = 2
  MaxFaults = 1
INVARIANT OutcomeIsNative
INVARIANT CallersAreToldTheTruth
INVARIANT AnsweredOnce
PROPERTY NobodyWaitsForEver
CHECK_DEADLOCK FALSE
