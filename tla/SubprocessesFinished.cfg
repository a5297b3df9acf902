CONSTANTS
  Callers = {c1}
  MaxFuncs = 2
SPECIFICATION Safety
PROPERTIES TrueWhenFinished
CHECK_DEADLOCK FALSE
