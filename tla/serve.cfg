SPECIFICATION MCSpec
CONSTANTS
  Cases <- ServeCases
  Starters = {a, b}
  MaxStarts = 3
  MaxStops = 3
INVARIANTS NoLeakedPort ReplayExact
PROPERTIES NoFalseStart StopEndsWhatItSaw 
CHECK_DEADLOCK FALSE
