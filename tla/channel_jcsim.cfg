\* The channel over the jcsim stream: a late answer is read by the next exchange.
CONSTANTS
  Ops = {a}
  MaxSessionSlots = 1
  LateAnswers = TRUE
  ProbeReads = 1
  MaxKeys = 2
  MaxCommands = 3
  MaxBacklog = 2
SPECIFICATION FairSpec
INVARIANTS
  AnswerBelongs
  OpenedMeansAuthenticated
  InStep
PROPERTIES
  WorkflowsReturn
