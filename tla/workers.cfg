SPECIFICATION MCSpec
CONSTANTS
  Callers = {"c1", "c2", "c3"}
  MayFail = TRUE
  MaxEngines = 3
  MaxTasks = 2
  MaxStops = 3
  Cases <- WorkerCases
INVARIANTS  TableIsRegistered 
PROPERTIES TimerGoesOn
CHECK_DEADLOCK FALSE
