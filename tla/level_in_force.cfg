CONSTANTS
  Ops = {a}
  MaxSessionSlots = 2
  LateAnswers = FALSE
  ProbeReads = 0
  MaxKeys = 2
  MaxCommands = 3
  MaxBacklog = 0
SPECIFICATION Spec
INVARIANT ReportedLevelInForce
