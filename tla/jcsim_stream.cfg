SPECIFICATION Spec
CONSTANTS
  Base = 2
  HeaderLen = 3
  RapduMax = 2
  MaxFrame = 3
  TimeoutTicks = 1
  MaxCalls = 3
  MaxResets = 1
  CApdus <- MCCApdus
  RApdus <- MCRApdus
INVARIANTS
  AnswerIsWhole
  LinkUpMeansAligned
  WaitBounded
PROPERTIES
  TransmitReturns
CHECK_DEADLOCK FALSE
