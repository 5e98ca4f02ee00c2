SPECIFICATION MCSpec
CONSTANTS
  Machines = {"negotiation"}
  Crossing <- CrossingOffers
  Conns = {"c1", "c2"}
  Cap = 1
  Cases <- SessionCases
  Sessions = {"s1", "s2"}
  TrackIds = {"video", "audio"}
  SharedIds = FALSE
  MediaOnly = TRUE
  Overlap = FALSE
  MaxCalls = 2
INVARIANT OffersAnswered
CHECK_DEADLOCK FALSE
