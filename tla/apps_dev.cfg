CONSTANTS
  Requests <- MCRequests
  MaxCalls = 2
  Starts <- MCStarts
  MaxPolls = 2
SPECIFICATION Spec
INVARIANTS
  FirstPageIsFresh
  AnswersMatch
PROPERTIES
  CallsSettleOnce
  TabFollows
  InterruptEnds
CHECK_DEADLOCK FALSE
