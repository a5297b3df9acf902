CONSTANTS
  Callers = {c1}
  MaxFuncs = 3
SPECIFICATION Spec
INVARIANTS AnswerTrue
PROPERTIES WaitSound CallsReturn WaitReturns
CHECK_DEADLOCK FALSE
