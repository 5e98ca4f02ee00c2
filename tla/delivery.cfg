SPECIFICATION MCSpec
CONSTANTS
  Members <- All
  Count = 2
  Poison = {2}
  Workers = {1, 2}
  MaxFails = 2
  MaxCrashes = 1
  Reqs = {"r1", "r2"}
  Modes <- ReplyModes
INVARIANTS SettledHandled SettledAccounted OwnReply
PROPERTIES HandledSettles Answered
CHECK_DEADLOCK FALSE
