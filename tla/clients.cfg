SPECIFICATION MCSpec
CONSTANTS
  Machines = {"client", "sse channel", "sse handler", "packets"}
  Senders = {s1, s2}
  MaxConns = 3
  MaxCalls = 4
  Cases <- ClientCases
  Chans = {"c1"}
  Funcs = {}
  Users = {"u1", "u2"}
  TargetOf <- Unsubscribing
  MaxEvent = 4
  MaxFaults = 3
  MayEnd = TRUE
  MayGiveUp = TRUE
INVARIANTS NoLeak NoRace HandledIsSent ReaderLives
 
CHECK_DEADLOCK FALSE
