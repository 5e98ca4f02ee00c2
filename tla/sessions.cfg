SPECIFICATION MCSpec
CONSTANTS
  Machines = {"session", "sfu", "negotiation"}
  Crossing <- AllModes
  Conns = {"c1", "c2"}
  Cap = 1
  Cases <- SessionCases
  Sessions = {"s1", "s2"}
  TrackIds = {"video", "audio"}
  SharedIds = FALSE
  MediaOnly = TRUE
  Overlap = FALSE
  MaxCalls = 2
INVARIANTS NoGhost TracksNegotiated 
PROPERTIES  ClosedWindsUp
CHECK_DEADLOCK FALSE
