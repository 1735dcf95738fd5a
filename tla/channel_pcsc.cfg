\* The channel over PC/SC: one exchange at a time, nothing survives a failed one.
CONSTANTS
  Ops = {a, b}
  MaxSessionSlots = 2
  LateAnswers = FALSE
  ProbeReads = 1
  MaxKeys = 2
  MaxCommands = 3
  MaxBacklog = 0
SPECIFICATION Spec
INVARIANTS
  ExecutedInOrder
  AnswerBelongs
  HandleKeepsItsKeys
  OrphansAccountedFor
PROPERTIES
  BrokenStaysBroken
  ImplementsOrderedChannel
SYMMETRY CommandSymmetry
