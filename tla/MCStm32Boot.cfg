SPECIFICATION Spec
CONSTANTS
  Capacity = 3
  ReadSize = 2
  MaxCalls = 4
INVARIANTS AnswerIsOwn InStep LogIsOfThisRun
PROPERTY EveryCallReturns
CHECK_DEADLOCK FALSE
